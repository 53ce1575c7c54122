--------------------------- MODULE InboundProofs ----------------------------
(***************************************************************************)
(* Proofs about Inbound, for every set of sessions and lanes, every number *)
(* of messages and every capacity of the queue.                            *)
(***************************************************************************)
EXTENDS Inbound, FiniteSetTheorems, TLAPS

Sorted(q) == \A i, j \in DOMAIN q : i < j => q[i] < q[j]

\* What readLoop has read, and the message it is about to queue.
ReadInv ==
    /\ \A m \in Msg : st[m] = "unread" <=> m > lastRead
    /\ \A m \in Msg : st[m] = "offered" => m = lastRead /\ reader \in {"offer", "drain", "retry"}
    /\ \A m \in Msg : st[m] = "lost" => m = lastRead /\ reader = "returned"
    /\ reader \in {"offer", "drain", "retry"} => lastRead \in Msg /\ st[lastRead] = "offered"
    /\ reader = "retry" => HasRoom
    /\ \A m \in Msg : st[m] = "dropped" => m # lastRead

\* messageQueue holds what is queued, oldest first.
QueueInv ==
    /\ Sorted(queue)
    /\ \A i \in DOMAIN queue : st[queue[i]] = "queued"
    /\ \A m \in Msg : st[m] = "queued" => InSeq(m, queue)

\* The worker has one message at a time.
WorkerInv ==
    /\ \A m \in Msg : st[m] = "handling" => worker = "handling"
    /\ \A m, n \in Msg : st[m] = "handling" /\ st[n] = "handling" => m = n

\* Messages leave the queue, the worker and their lane in their order.
OrderInv ==
    \A m, n \in Msg : m < n =>
        /\ st[n] \in {"handling", "lane", "running", "done", "dropped"} => st[m] # "queued"
        /\ st[n] \in {"lane", "running", "done"} => st[m] # "handling"
        /\ to[m] = to[n] /\ st[n] \in {"running", "done"} => st[m] # "lane"

\* A lane object either is its session's lane and has one goroutine, or is
\* not in use.
OneGoroutine(l) ==
    \/ loops[l] = 1 /\ busy[l] = {}
    \/ loops[l] = 0 /\ \E m \in Msg : busy[l] = {m}

Staffed(l) ==
    /\ owner[l] \in Session /\ lanes[owner[l]] = l
    /\ active[l] /\ OneGoroutine(l)

Vacant(l) ==
    /\ \A s \in Session : lanes[s] # l
    /\ ~active[l] /\ loops[l] = 0 /\ busy[l] = {} /\ pending[l] = <<>>

LaneInv ==
    /\ \A l \in Lane : Staffed(l) \/ Vacant(l)
    /\ \A s \in Session : lanes[s] # NoLane => owner[lanes[s]] = s

\* The lanes hold the prompts that are in a lane or running, oldest first.
PromptInv ==
    /\ \A l \in Lane : Sorted(pending[l])
    /\ \A l \in Lane : \A i \in DOMAIN pending[l] :
           st[pending[l][i]] = "lane" /\ to[pending[l][i]] = owner[l]
    /\ \A l \in Lane : \A m \in busy[l] : st[m] = "running" /\ to[m] = owner[l]
    /\ \A m \in Msg : st[m] \in {"lane", "running"} =>
           to[m] \in Session /\ lanes[to[m]] # NoLane
    /\ \A m \in Msg : st[m] = "lane" => InSeq(m, pending[lanes[to[m]]])
    /\ \A m \in Msg : st[m] = "running" => m \in busy[lanes[to[m]]]

IInv == TypeOK /\ ReadInv /\ QueueInv /\ WorkerInv /\ OrderInv /\ LaneInv /\ PromptInv

-----------------------------------------------------------------------------
(* Sequences of distinct growing numbers. *)

LEMMA AppendSorted ==
    ASSUME NEW q \in Seq(Msg), Sorted(q), NEW m \in Msg, \A i \in DOMAIN q : q[i] < m
    PROVE  /\ Append(q, m) \in Seq(Msg) /\ Sorted(Append(q, m))
           /\ Len(Append(q, m)) = Len(q) + 1
           /\ \A i \in DOMAIN Append(q, m) :
                   Append(q, m)[i] = m \/ (i \in DOMAIN q /\ Append(q, m)[i] = q[i])
           /\ InSeq(m, Append(q, m))
           /\ \A n : InSeq(n, q) => InSeq(n, Append(q, m))
<1>1. /\ Append(q, m) \in Seq(Msg) /\ Len(Append(q, m)) = Len(q) + 1
      /\ DOMAIN Append(q, m) = 1..(Len(q) + 1) /\ DOMAIN q = 1..Len(q)
      /\ \A i \in DOMAIN q : Append(q, m)[i] = q[i]
      /\ Append(q, m)[Len(q) + 1] = m
    OBVIOUS
<1>2. Len(q) + 1 \in DOMAIN Append(q, m)
    BY <1>1
<1>3. \A i \in DOMAIN Append(q, m) : i \in DOMAIN q \/ i = Len(q) + 1
    BY <1>1
<1>4. \A i \in DOMAIN q : q[i] \in Msg /\ i < Len(q) + 1
    BY <1>1
<1>5. Sorted(Append(q, m))
    BY <1>1, <1>3, <1>4 DEF Sorted, Msg
<1>6. \A n : InSeq(n, q) => InSeq(n, Append(q, m))
    BY <1>1 DEF InSeq
<1> QED BY <1>1, <1>2, <1>3, <1>5, <1>6 DEF InSeq

LEMMA TailSorted ==
    ASSUME NEW q \in Seq(Msg), Sorted(q), q # <<>>
    PROVE  /\ Head(q) \in Msg /\ Head(q) = q[1] /\ 1 \in DOMAIN q
           /\ Tail(q) \in Seq(Msg) /\ Sorted(Tail(q))
           /\ Len(Tail(q)) = Len(q) - 1
           /\ \A i \in DOMAIN Tail(q) : i + 1 \in DOMAIN q /\ Tail(q)[i] = q[i + 1]
           /\ \A i \in DOMAIN Tail(q) : Head(q) < Tail(q)[i]
           /\ \A n : InSeq(n, q) => n = Head(q) \/ InSeq(n, Tail(q))
           /\ \A n : InSeq(n, q) => Head(q) <= n
<1>1. /\ Head(q) = q[1] /\ 1 \in DOMAIN q /\ Tail(q) \in Seq(Msg)
      /\ Len(Tail(q)) = Len(q) - 1 /\ Len(q) \in Nat
      /\ DOMAIN Tail(q) = 1..(Len(q) - 1) /\ DOMAIN q = 1..Len(q)
      /\ \A i \in 1..(Len(q) - 1) : Tail(q)[i] = q[i + 1]
    OBVIOUS
<1>2. \A i \in DOMAIN q : q[i] \in Msg /\ q[i] \in Nat
    <2>1. \A i \in DOMAIN q : q[i] \in Msg
        OBVIOUS
    <2> QED BY <2>1 DEF Msg
<1>3. \A i \in DOMAIN Tail(q) : i \in Nat /\ i + 1 \in DOMAIN q /\ 1 < i + 1 /\ Tail(q)[i] = q[i + 1]
    BY <1>1
<1>4. Sorted(Tail(q))
    BY <1>3 DEF Sorted
<1>5. \A i \in DOMAIN Tail(q) : Head(q) < Tail(q)[i]
    BY <1>1, <1>3 DEF Sorted
<1>6. ASSUME NEW n, InSeq(n, q) PROVE n = Head(q) \/ InSeq(n, Tail(q))
    <2>1. PICK i \in DOMAIN q : q[i] = n
        BY <1>6 DEF InSeq
    <2>2. CASE i = 1
        BY <1>1, <2>1, <2>2
    <2>3. CASE i # 1
        <3>1. i - 1 \in DOMAIN Tail(q) /\ Tail(q)[i - 1] = q[i]
            BY <1>1, <2>3
        <3> QED BY <2>1, <3>1 DEF InSeq
    <2> QED BY <2>2, <2>3
<1>7. ASSUME NEW n, InSeq(n, q) PROVE Head(q) <= n
    BY <1>1, <1>2, <1>5, <1>6, <1>7 DEF InSeq
<1> QED BY <1>1, <1>2, <1>3, <1>4, <1>5, <1>6, <1>7

-----------------------------------------------------------------------------
(* The invariant holds initially, and the types are kept by every step.     *)

LEMMA InitIInv == Init => IInv
<1> SUFFICES ASSUME Init PROVE IInv
    OBVIOUS
<1>1. <<>> \in Seq(Msg) /\ Len(<<>>) = 0 /\ DOMAIN <<>> = {}
    OBVIOUS
<1>2. TypeOK
    <2>1. /\ to \in [Msg -> Session \cup {Worker}] /\ st \in [Msg -> Stage]
          /\ lastRead \in 0..MsgCount /\ queue \in Seq(Msg) /\ Len(queue) <= QueueCap
        BY <1>1, InboundAssumption DEF Init, Stage
    <2>2. /\ lanes \in [Session -> Lane \cup {NoLane}]
          /\ owner \in [Lane -> Session \cup {Worker}]
          /\ pending \in [Lane -> Seq(Msg)] /\ loops \in [Lane -> Nat]
          /\ busy \in [Lane -> SUBSET Msg]
        BY <1>1 DEF Init
    <2>3. active \in [Lane -> BOOLEAN]
        BY DEF Init
    <2> QED BY <2>1, <2>2, <2>3 DEF Init, TypeOK
<1>3. ReadInv
    BY DEF Init, ReadInv, Msg
<1>4. QueueInv
    BY <1>1 DEF Init, QueueInv, Sorted
<1>5. WorkerInv /\ OrderInv
    BY DEF Init, WorkerInv, OrderInv
<1>6. LaneInv
    BY InboundAssumption DEF Init, LaneInv, Vacant
<1>7. PromptInv
    BY <1>1 DEF Init, PromptInv, Sorted
<1> QED BY <1>2, <1>3, <1>4, <1>5, <1>6, <1>7 DEF IInv

\* The head of the queue is the oldest queued message.
LEMMA QueueHead ==
    ASSUME IInv, queue # <<>>
    PROVE  /\ Head(queue) \in Msg /\ st[Head(queue)] = "queued"
           /\ Tail(queue) \in Seq(Msg) /\ Sorted(Tail(queue))
           /\ Len(Tail(queue)) < QueueCap
           /\ \A i \in DOMAIN Tail(queue) :
                  st[Tail(queue)[i]] = "queued" /\ Tail(queue)[i] # Head(queue)
           /\ \A m \in Msg : st[m] = "queued" => m = Head(queue) \/ InSeq(m, Tail(queue))
           /\ \A m \in Msg : st[m] = "queued" => Head(queue) <= m
<1>1. queue \in Seq(Msg) /\ Len(queue) \in Nat /\ Len(queue) <= QueueCap /\ Sorted(queue)
    BY DEF IInv, TypeOK, QueueInv
<1>2. /\ \A i \in DOMAIN queue : st[queue[i]] = "queued"
      /\ \A m \in Msg : st[m] = "queued" => InSeq(m, queue)
    BY DEF IInv, QueueInv
<1>3. /\ Head(queue) \in Msg /\ Head(queue) = queue[1] /\ 1 \in DOMAIN queue
      /\ Tail(queue) \in Seq(Msg) /\ Sorted(Tail(queue))
      /\ Len(Tail(queue)) = Len(queue) - 1
      /\ \A i \in DOMAIN Tail(queue) : i + 1 \in DOMAIN queue /\ Tail(queue)[i] = queue[i + 1]
      /\ \A i \in DOMAIN Tail(queue) : Head(queue) < Tail(queue)[i]
      /\ \A n : InSeq(n, queue) => n = Head(queue) \/ InSeq(n, Tail(queue))
      /\ \A n : InSeq(n, queue) => Head(queue) <= n
    BY <1>1, TailSorted
<1>4. Len(Tail(queue)) < QueueCap
    BY <1>1, <1>3, InboundAssumption
<1>5. \A i \in DOMAIN Tail(queue) : Tail(queue)[i] \in Nat /\ Head(queue) \in Nat
    <2>1. \A i \in DOMAIN Tail(queue) : Tail(queue)[i] \in Msg
        BY <1>3
    <2> QED BY <1>3, <2>1 DEF Msg
<1>6. \A i \in DOMAIN Tail(queue) : Tail(queue)[i] # Head(queue)
    BY <1>3, <1>5
<1>7. \A i \in DOMAIN Tail(queue) : st[Tail(queue)[i]] = "queued"
    BY <1>2, <1>3
<1> QED BY <1>2, <1>3, <1>4, <1>6, <1>7

LEMMA TypeStep == ASSUME IInv, Next PROVE TypeOK'
<1>0. TypeOK /\ ReadInv
    BY DEF IInv
<1>1. CASE ReadMessage
    <2>1. st' \in [Msg -> Stage]
        BY <1>0, <1>1 DEF TypeOK, ReadMessage, Move, Stage
    <2>2. lastRead' \in 0..MsgCount
        BY <1>0, <1>1, InboundAssumption DEF TypeOK, ReadMessage
    <2> QED BY <1>0, <1>1, <2>1, <2>2 DEF TypeOK, ReadMessage, lanevars
<1>2. CASE Offer
    <2>1. lastRead \in Msg
        BY <1>0, <1>2 DEF Offer, ReadInv
    <2>2. Append(queue, lastRead) \in Seq(Msg) /\ Len(Append(queue, lastRead)) = Len(queue) + 1
        BY <1>0, <2>1 DEF TypeOK
    <2> QED BY <1>0, <1>2, <2>2, InboundAssumption DEF TypeOK, Offer, Move, Stage, lanevars, HasRoom
<1>3. CASE OfferFull \/ DrainNothing \/ Restart \/ WorkerStops \/ Stop
    BY <1>0, <1>3 DEF TypeOK, OfferFull, DrainNothing, Restart, WorkerStops, Stop, lanevars
<1>4. CASE DrainOldest
    BY <1>0, <1>4, QueueHead, InboundAssumption DEF TypeOK, DrainOldest, Move, Stage, lanevars
<1>5. CASE Retry
    <2>1. lastRead \in Msg /\ HasRoom
        BY <1>0, <1>5 DEF Retry, ReadInv
    <2>2. Append(queue, lastRead) \in Seq(Msg) /\ Len(Append(queue, lastRead)) = Len(queue) + 1
        BY <1>0, <2>1 DEF TypeOK
    <2>3. queue' = Append(queue, lastRead) /\ Len(queue) < QueueCap /\ Len(queue) \in Nat
        BY <1>0, <1>5, <2>1 DEF Retry, HasRoom, TypeOK
    <2>4. queue' \in Seq(Msg) /\ Len(queue') <= QueueCap
        BY <2>2, <2>3, InboundAssumption
    <2>5. st' \in [Msg -> Stage]
        BY <1>0, <1>5 DEF TypeOK, Retry, Move, Stage
    <2> QED BY <1>0, <1>5, <2>4, <2>5 DEF TypeOK, Retry, lanevars
<1>6. CASE ReaderReturns
    BY <1>0, <1>6 DEF TypeOK, ReaderReturns, Move, Stage, lanevars
<1>7. CASE Take
    BY <1>0, <1>7, QueueHead, InboundAssumption DEF TypeOK, Take, Move, Stage, lanevars
<1>8. CASE \E m \in Msg : Handle(m) \/ Panic(m)
    BY <1>0, <1>8 DEF TypeOK, Handle, Panic, Move, Stage, lanevars
<1>9. ASSUME NEW m \in Msg, EnqueuePrompt(m) PROVE TypeOK'
    <2>1. st' \in [Msg -> Stage] /\ worker' = "idle"
        BY <1>0, <1>9 DEF EnqueuePrompt, Move, TypeOK, Stage
    <2>2. CASE lanes[to[m]] # NoLane
        <3> DEFINE l == lanes[to[m]]
        <3>1. Join(l, m) /\ l \in Lane
            BY <1>0, <1>9, <2>2 DEF EnqueuePrompt, TypeOK
        <3>2. pending[l] \in Seq(Msg) /\ Append(pending[l], m) \in Seq(Msg)
            BY <1>0, <3>1 DEF TypeOK
        <3>3. /\ pending' = [pending EXCEPT ![l] = Append(pending[l], m)]
              /\ active' = [active EXCEPT ![l] = TRUE]
              /\ loops' = [loops EXCEPT ![l] = IF active[l] THEN loops[l] ELSE loops[l] + 1]
              /\ lanes' = lanes /\ owner' = owner
            BY <3>1 DEF Join
        <3>4. pending' \in [Lane -> Seq(Msg)] /\ active' \in [Lane -> BOOLEAN]
            BY <1>0, <3>1, <3>2, <3>3 DEF TypeOK
        <3>5. loops' \in [Lane -> Nat]
            BY <1>0, <3>1, <3>3 DEF TypeOK
        <3> HIDE DEF l
        <3> QED BY <1>0, <1>9, <2>1, <3>3, <3>4, <3>5 DEF TypeOK, EnqueuePrompt
    <2>3. CASE lanes[to[m]] = NoLane
        <3>1. PICK l \in Lane : Open(l, m)
            BY <1>9, <2>3 DEF EnqueuePrompt
        <3>2. <<m>> \in Seq(Msg)
            OBVIOUS
        <3>3. /\ lanes' \in [Session -> Lane \cup {NoLane}]
              /\ owner' \in [Lane -> Session \cup {Worker}]
              /\ pending' \in [Lane -> Seq(Msg)]
              /\ active' \in [Lane -> BOOLEAN] /\ loops' \in [Lane -> Nat]
            BY <1>0, <1>9, <3>1, <3>2 DEF TypeOK, Open, EnqueuePrompt
        <3> QED BY <1>0, <1>9, <2>1, <3>3 DEF TypeOK, EnqueuePrompt
    <2> QED BY <2>2, <2>3
<1>10. ASSUME NEW l \in Lane, Run(l) PROVE TypeOK'
    <2>1. pending[l] \in Seq(Msg) /\ Head(pending[l]) \in Msg /\ Tail(pending[l]) \in Seq(Msg)
          /\ loops[l] - 1 \in Nat
        BY <1>0, <1>10 DEF TypeOK, Run
    <2>2. st' \in [Msg -> Stage] /\ busy' \in [Lane -> SUBSET Msg] /\ loops' \in [Lane -> Nat]
        BY <1>0, <1>10, <2>1 DEF TypeOK, Run, Move, Stage
    <2>3. pending' \in [Lane -> Seq(Msg)]
        BY <1>0, <1>10, <2>1 DEF TypeOK, Run
    <2> QED BY <1>0, <1>10, <2>2, <2>3 DEF TypeOK, Run
<1>11. ASSUME NEW l \in Lane, Retire(l) PROVE TypeOK'
    <2>1. loops' \in [Lane -> Nat]
        BY <1>0, <1>11 DEF TypeOK, Retire
    <2>2. active' \in [Lane -> BOOLEAN]
        BY <1>0, <1>11 DEF TypeOK, Retire
    <2>3. lanes' \in [Session -> Lane \cup {NoLane}]
        BY <1>0, <1>11 DEF TypeOK, Retire
    <2> QED BY <1>0, <1>11, <2>1, <2>2, <2>3 DEF TypeOK, Retire
<1>12. ASSUME NEW l \in Lane, NEW m \in Msg, Return(l, m) PROVE TypeOK'
    BY <1>0, <1>12 DEF TypeOK, Return, Move, Stage
<1> QED BY <1>1, <1>2, <1>3, <1>4, <1>5, <1>6, <1>7, <1>8, <1>9, <1>10, <1>11, <1>12
        DEF Next, Enqueue, WorkerStep, LaneStep

-----------------------------------------------------------------------------
(* What a step does to the messages: it moves at most one, along an edge of *)
(* its way, and only the oldest one out of the queue or a lane.             *)

Change(m) ==
    \/ st[m] = "unread" /\ st'[m] = "offered" /\ m = lastRead + 1
    \/ st[m] = "offered" /\ st'[m] \in {"queued", "lost"}
    \/ /\ st[m] = "queued" /\ st'[m] \in {"dropped", "handling"}
       /\ \A n \in Msg : st[n] = "queued" => m <= n
    \/ st[m] = "handling" /\ st'[m] = "done" /\ to[m] = Worker
    \/ st[m] = "handling" /\ st'[m] = "lane" /\ to[m] \in Session
    \/ /\ st[m] = "lane" /\ st'[m] = "running"
       /\ \A n \in Msg : st[n] = "lane" /\ to[n] = to[m] => m <= n
    \/ st[m] = "running" /\ st'[m] = "done"

OnlyChange(m) == Change(m) /\ \A n \in Msg \ {m} : st'[n] = st[n]

LEMMA MoveOnly ==
    ASSUME TypeOK, NEW m \in Msg, NEW stage, Move(m, stage)
    PROVE  st'[m] = stage /\ \A n \in Msg \ {m} : st'[n] = st[n]
BY DEF TypeOK, Move

\* The head of a lane is the oldest prompt of its session in a lane.
LEMMA LaneHead ==
    ASSUME IInv, NEW l \in Lane, pending[l] # <<>>
    PROVE  /\ Staffed(l)
           /\ Head(pending[l]) \in Msg /\ st[Head(pending[l])] = "lane"
           /\ to[Head(pending[l])] = owner[l]
           /\ Tail(pending[l]) \in Seq(Msg) /\ Sorted(Tail(pending[l]))
           /\ \A i \in DOMAIN Tail(pending[l]) :
                  /\ st[Tail(pending[l])[i]] = "lane" /\ to[Tail(pending[l])[i]] = owner[l]
                  /\ Tail(pending[l])[i] # Head(pending[l])
           /\ \A m \in Msg : st[m] = "lane" /\ to[m] = owner[l] =>
                  /\ m = Head(pending[l]) \/ InSeq(m, Tail(pending[l]))
                  /\ Head(pending[l]) <= m
<1>1. /\ pending[l] \in Seq(Msg) /\ Sorted(pending[l])
      /\ \A i \in DOMAIN pending[l] : st[pending[l][i]] = "lane" /\ to[pending[l][i]] = owner[l]
      /\ \A m \in Msg : st[m] = "lane" => InSeq(m, pending[lanes[to[m]]])
    BY DEF IInv, TypeOK, PromptInv
<1>2. Staffed(l)
    BY DEF IInv, LaneInv, Vacant
<1>3. /\ Head(pending[l]) \in Msg /\ Head(pending[l]) = pending[l][1] /\ 1 \in DOMAIN pending[l]
      /\ Tail(pending[l]) \in Seq(Msg) /\ Sorted(Tail(pending[l]))
      /\ \A i \in DOMAIN Tail(pending[l]) :
             i + 1 \in DOMAIN pending[l] /\ Tail(pending[l])[i] = pending[l][i + 1]
      /\ \A i \in DOMAIN Tail(pending[l]) : Head(pending[l]) < Tail(pending[l])[i]
      /\ \A n : InSeq(n, pending[l]) => n = Head(pending[l]) \/ InSeq(n, Tail(pending[l]))
      /\ \A n : InSeq(n, pending[l]) => Head(pending[l]) <= n
    BY <1>1, TailSorted
<1>4. Head(pending[l]) \in Nat
    BY <1>3 DEF Msg
<1>5. \A i \in DOMAIN Tail(pending[l]) : Tail(pending[l])[i] # Head(pending[l])
    BY <1>3, <1>4
<1>6. \A m \in Msg : st[m] = "lane" /\ to[m] = owner[l] => InSeq(m, pending[l])
    BY <1>1, <1>2 DEF Staffed
<1> QED BY <1>1, <1>2, <1>3, <1>5, <1>6

LEMMA StageStep ==
    ASSUME IInv, Next
    PROVE  to' = to /\ (st' = st \/ \E m \in Msg : OnlyChange(m))
<1>0. TypeOK /\ ReadInv /\ PromptInv
    BY DEF IInv
<1>1. CASE ReadMessage
    <2>1. lastRead + 1 \in Msg /\ st[lastRead + 1] = "unread"
        <3>1. lastRead + 1 \in Msg /\ lastRead + 1 > lastRead
            BY <1>0, <1>1, InboundAssumption DEF ReadMessage, TypeOK, Msg
        <3> QED BY <1>0, <3>1 DEF ReadInv
    <2> QED BY <1>0, <1>1, <2>1, MoveOnly DEF ReadMessage, OnlyChange, Change
<1>2. CASE Offer \/ Retry \/ ReaderReturns
    <2>1. lastRead \in Msg /\ st[lastRead] = "offered" /\ (Retry => HasRoom)
        BY <1>0, <1>2 DEF Offer, Retry, ReaderReturns, ReadInv
    <2>2. Move(lastRead, "queued") \/ Move(lastRead, "lost")
        BY <1>2, <2>1 DEF Offer, Retry, ReaderReturns
    <2>3. OnlyChange(lastRead)
        BY <1>0, <2>1, <2>2, MoveOnly DEF OnlyChange, Change
    <2> QED BY <1>2, <2>1, <2>3 DEF Offer, Retry, ReaderReturns
<1>3. CASE OfferFull \/ DrainNothing \/ Restart \/ WorkerStops \/ Stop
    BY <1>3 DEF OfferFull, DrainNothing, Restart, WorkerStops, Stop
<1>4. CASE DrainOldest \/ Take
    <2>1. queue # <<>> /\ (Move(Head(queue), "dropped") \/ Move(Head(queue), "handling"))
        BY <1>4 DEF DrainOldest, Take
    <2>2. OnlyChange(Head(queue)) /\ Head(queue) \in Msg
        BY <1>0, <2>1, MoveOnly, QueueHead DEF OnlyChange, Change
    <2> QED BY <1>4, <2>2 DEF DrainOldest, Take
<1>5. ASSUME NEW m \in Msg, Handle(m) \/ Panic(m) PROVE OnlyChange(m) /\ to' = to
    BY <1>0, <1>5, MoveOnly DEF Handle, Panic, OnlyChange, Change
<1>6. ASSUME NEW m \in Msg, EnqueuePrompt(m) PROVE OnlyChange(m) /\ to' = to
    BY <1>0, <1>6, MoveOnly DEF EnqueuePrompt, OnlyChange, Change
<1>7. ASSUME NEW l \in Lane, Run(l) PROVE (\E m \in Msg : OnlyChange(m)) /\ to' = to
    <2>1. pending[l] # <<>> /\ Move(Head(pending[l]), "running")
        BY <1>7 DEF Run
    <2>2. OnlyChange(Head(pending[l])) /\ Head(pending[l]) \in Msg
        BY <1>0, <2>1, MoveOnly, LaneHead DEF OnlyChange, Change
    <2> QED BY <1>7, <2>2 DEF Run
<1>8. ASSUME NEW l \in Lane, Retire(l) PROVE st' = st /\ to' = to
    BY <1>8 DEF Retire
<1>9. ASSUME NEW l \in Lane, NEW m \in Msg, Return(l, m) PROVE OnlyChange(m) /\ to' = to
    <2>1. st[m] = "running" /\ Move(m, "done")
        BY <1>0, <1>9 DEF Return, PromptInv
    <2> QED BY <1>0, <1>9, <2>1, MoveOnly DEF Return, OnlyChange, Change
<1> QED BY <1>1, <1>2, <1>3, <1>4, <1>5, <1>6, <1>7, <1>8, <1>9
        DEF Next, Enqueue, WorkerStep, LaneStep

LEMMA OrderStep == ASSUME IInv, Next PROVE OrderInv'
<1>0. TypeOK /\ ReadInv /\ WorkerInv /\ OrderInv /\ PromptInv
    BY DEF IInv
<1>1. to' = to /\ (st' = st \/ \E m \in Msg : OnlyChange(m))
    BY StageStep
<1>2. CASE st' = st
    BY <1>0, <1>1, <1>2 DEF OrderInv
<1>3. ASSUME NEW k \in Msg, OnlyChange(k),
             NEW m \in Msg, NEW n \in Msg, m < n
      PROVE  /\ st'[n] \in {"handling", "lane", "running", "done", "dropped"} => st'[m] # "queued"
             /\ st'[n] \in {"lane", "running", "done"} => st'[m] # "handling"
             /\ to'[m] = to'[n] /\ st'[n] \in {"running", "done"} => st'[m] # "lane"
    <2>1. m # n /\ ~(n <= m) /\ lastRead \in Nat /\ m \in Nat /\ n \in Nat
        BY <1>0, <1>3 DEF TypeOK, Msg
    <2>2. CASE k # m /\ k # n
        BY <1>0, <1>1, <1>3, <2>1, <2>2 DEF OrderInv, OnlyChange
    <2>3. CASE k = m
        <3>1. st'[n] = st[n]
            BY <1>3, <2>1, <2>3 DEF OnlyChange
        <3>2. st[m] = "offered" => st[n] = "unread"
            BY <1>0, <2>1, <1>3 DEF ReadInv
        <3> QED BY <1>0, <1>1, <1>3, <2>3, <3>1, <3>2 DEF OrderInv, OnlyChange, Change
    <2>4. CASE k = n
        <3>1. st'[m] = st[m]
            BY <1>3, <2>1, <2>4 DEF OnlyChange
        <3>2. st[m] = "handling" => st[n] # "handling"
            BY <1>0, <2>1 DEF WorkerInv
        <3>3. st[m] = "lane" => to[m] # Worker
            BY <1>0, InboundAssumption DEF PromptInv
        <3> QED BY <1>0, <1>1, <1>3, <2>1, <2>4, <3>1, <3>2, <3>3
                DEF OrderInv, OnlyChange, Change
    <2> QED BY <2>2, <2>3, <2>4
<1> QED BY <1>1, <1>2, <1>3 DEF OrderInv

LEMMA ReadStep == ASSUME IInv, Next PROVE ReadInv'
<1>0. TypeOK /\ ReadInv /\ lastRead \in Nat
    BY DEF IInv, TypeOK
<1>1. CASE ReadMessage
    <2>1. lastRead + 1 \in Msg /\ lastRead' = lastRead + 1 /\ reader' = "offer"
        BY <1>0, <1>1, InboundAssumption DEF ReadMessage, TypeOK, Msg
    <2>2. st'[lastRead + 1] = "offered" /\ \A n \in Msg \ {lastRead + 1} : st'[n] = st[n]
        BY <1>0, <1>1, <2>1, MoveOnly DEF ReadMessage
    <2>3. \A n \in Msg : n \in Nat
        BY DEF Msg
    <2>4. \A n \in Msg : st[n] # "offered" /\ st[n] # "lost"
        BY <1>0, <1>1 DEF ReadInv, ReadMessage
    <2> QED BY <1>0, <2>1, <2>2, <2>3, <2>4 DEF ReadInv
<1>2. CASE Enqueue
    <2>1. CASE Offer \/ Retry \/ ReaderReturns
        <3>1. lastRead \in Msg /\ st[lastRead] = "offered" /\ (Retry => HasRoom)
            BY <1>0, <2>1 DEF Offer, Retry, ReaderReturns, ReadInv
        <3>2. /\ st'[lastRead] \in {"queued", "lost"}
              /\ \A n \in Msg \ {lastRead} : st'[n] = st[n]
              /\ st'[lastRead] = "lost" => ReaderReturns
            BY <1>0, <2>1, <3>1, MoveOnly DEF Offer, Retry, ReaderReturns
        <3>3. /\ lastRead' = lastRead /\ reader' \in {"reading", "returned"}
              /\ ReaderReturns => reader' = "returned"
            BY <2>1 DEF Offer, Retry, ReaderReturns
        <3> QED BY <1>0, <3>1, <3>2, <3>3 DEF ReadInv
    <2>2. CASE OfferFull \/ DrainNothing
        <3>1. DrainNothing => HasRoom'
            BY InboundAssumption DEF DrainNothing, HasRoom
        <3> QED BY <1>0, <2>2, <3>1 DEF OfferFull, DrainNothing, ReadInv
    <2>3. CASE DrainOldest
        <3>1. /\ Head(queue) \in Msg /\ st[Head(queue)] = "queued" /\ HasRoom'
            BY <2>3, QueueHead DEF DrainOldest, HasRoom
        <3>2. st'[Head(queue)] = "dropped" /\ \A n \in Msg \ {Head(queue)} : st'[n] = st[n]
            BY <1>0, <2>3, <3>1, MoveOnly DEF DrainOldest
        <3>3. lastRead \in Msg /\ st[lastRead] = "offered" /\ lastRead' = lastRead
            BY <1>0, <2>3 DEF DrainOldest, ReadInv
        <3> QED BY <1>0, <2>3, <3>1, <3>2, <3>3 DEF DrainOldest, ReadInv
    <2> QED BY <1>2, <2>1, <2>2, <2>3 DEF Enqueue
<1>3. CASE WorkerStep \/ LaneStep \/ Stop
    <2>1. lastRead' = lastRead /\ reader' = reader /\ (HasRoom => HasRoom')
        <3>1. Take => HasRoom'
            BY QueueHead DEF Take, HasRoom
        <3> QED BY <1>3, <3>1
                DEF WorkerStep, LaneStep, Stop, Take, Handle, Panic, Restart, WorkerStops,
                    EnqueuePrompt, Run, Retire, Return, HasRoom
    <2>2. st' = st \/ \E m \in Msg : /\ \A n \in Msg \ {m} : st'[n] = st[n]
                                     /\ st[m] \in {"queued", "handling", "lane", "running"}
                                     /\ st'[m] \in {"handling", "lane", "running", "done"}
        <3>1. CASE Take
            BY <1>0, <3>1, MoveOnly, QueueHead DEF Take
        <3>2. CASE Restart \/ WorkerStops \/ Stop
            BY <3>2 DEF Restart, WorkerStops, Stop
        <3>3. ASSUME NEW m \in Msg, Handle(m) \/ Panic(m) \/ EnqueuePrompt(m)
              PROVE  /\ \A n \in Msg \ {m} : st'[n] = st[n]
                     /\ st[m] = "handling" /\ st'[m] \in {"lane", "done"}
            BY <1>0, <3>3, MoveOnly DEF Handle, Panic, EnqueuePrompt
        <3>4. ASSUME NEW l \in Lane, Run(l)
              PROVE  /\ Head(pending[l]) \in Msg
                     /\ \A n \in Msg \ {Head(pending[l])} : st'[n] = st[n]
                     /\ st[Head(pending[l])] = "lane" /\ st'[Head(pending[l])] = "running"
            BY <1>0, <3>4, MoveOnly, LaneHead DEF Run
        <3>5. ASSUME NEW l \in Lane, NEW m \in Msg, Return(l, m)
              PROVE  /\ \A n \in Msg \ {m} : st'[n] = st[n]
                     /\ st[m] = "running" /\ st'[m] = "done"
            BY <1>0, <3>5, MoveOnly DEF Return, IInv, PromptInv
        <3>6. ASSUME NEW l \in Lane, Retire(l) PROVE st' = st
            BY <3>6 DEF Retire
        <3> QED BY <1>3, <3>1, <3>2, <3>3, <3>4, <3>5, <3>6 DEF WorkerStep, LaneStep
    <2> QED BY <1>0, <2>1, <2>2 DEF ReadInv
<1> QED BY <1>1, <1>2, <1>3 DEF Next

LEMMA QueueStep == ASSUME IInv, Next PROVE QueueInv'
<1>0. TypeOK /\ ReadInv /\ QueueInv /\ PromptInv
    BY DEF IInv
<1>1. \A i \in DOMAIN queue : queue[i] \in Msg
    BY <1>0 DEF TypeOK
<1>2. ASSUME queue' = queue, NEW m \in Msg, st[m] # "queued", st'[m] # "queued",
             \A n \in Msg \ {m} : st'[n] = st[n]
      PROVE  QueueInv'
    BY <1>0, <1>1, <1>2 DEF QueueInv
<1>3. CASE queue' = queue /\ st' = st
    BY <1>0, <1>3 DEF QueueInv
<1>4. CASE ReadMessage
    <2>1. lastRead + 1 \in Msg /\ lastRead + 1 > lastRead
        BY <1>0, <1>4, InboundAssumption DEF ReadMessage, TypeOK, Msg
    <2>2. st[lastRead + 1] = "unread"
        BY <1>0, <2>1 DEF ReadInv
    <2> QED BY <1>0, <1>2, <1>4, <2>1, <2>2, MoveOnly DEF ReadMessage
<1>5. CASE Offer \/ Retry
    <2>1. lastRead \in Msg /\ st[lastRead] = "offered" /\ (Retry => HasRoom)
        BY <1>0, <1>5 DEF Offer, Retry, ReadInv
    <2>2. queue' = Append(queue, lastRead) /\ Move(lastRead, "queued")
        BY <1>5, <2>1 DEF Offer, Retry
    <2>3. \A i \in DOMAIN queue : queue[i] < lastRead
        <3>1. \A i \in DOMAIN queue : queue[i] # lastRead /\ st[queue[i]] # "unread"
            BY <1>0, <2>1 DEF QueueInv
        <3>2. \A i \in DOMAIN queue : queue[i] \in Nat /\ lastRead \in Nat
            BY <1>1, <2>1 DEF Msg
        <3> QED BY <1>0, <1>1, <3>1, <3>2 DEF ReadInv
    <2>4. queue \in Seq(Msg) /\ Sorted(queue)
        BY <1>0 DEF TypeOK, QueueInv
    <2>5. /\ Sorted(Append(queue, lastRead))
          /\ \A i \in DOMAIN Append(queue, lastRead) :
                 Append(queue, lastRead)[i] = lastRead
                 \/ (i \in DOMAIN queue /\ Append(queue, lastRead)[i] = queue[i])
          /\ InSeq(lastRead, Append(queue, lastRead))
          /\ \A n : InSeq(n, queue) => InSeq(n, Append(queue, lastRead))
        BY <2>1, <2>3, <2>4, AppendSorted
    <2>6. st'[lastRead] = "queued" /\ \A n \in Msg \ {lastRead} : st'[n] = st[n]
        BY <1>0, <2>1, <2>2, MoveOnly
    <2> QED BY <1>0, <1>1, <2>1, <2>2, <2>5, <2>6 DEF QueueInv
<1>6. CASE ReaderReturns
    <2>1. lastRead \in Msg /\ st[lastRead] = "offered"
        BY <1>0, <1>6 DEF ReaderReturns, ReadInv
    <2> QED BY <1>0, <1>2, <1>6, <2>1, MoveOnly DEF ReaderReturns
<1>7. CASE DrainOldest \/ Take
    <2>1. queue # <<>> /\ queue' = Tail(queue)
          /\ (Move(Head(queue), "dropped") \/ Move(Head(queue), "handling"))
        BY <1>7 DEF DrainOldest, Take
    <2>2. /\ st'[Head(queue)] # "queued" /\ Head(queue) \in Msg
          /\ \A n \in Msg \ {Head(queue)} : st'[n] = st[n]
        BY <1>0, <2>1, QueueHead, MoveOnly
    <2>3. \A i \in DOMAIN Tail(queue) : Tail(queue)[i] \in Msg
        BY <2>1, QueueHead
    <2> QED BY <2>1, <2>2, <2>3, QueueHead DEF QueueInv
<1>8. ASSUME NEW m \in Msg, Handle(m) \/ Panic(m) \/ EnqueuePrompt(m) PROVE QueueInv'
    BY <1>0, <1>2, <1>8, MoveOnly DEF Handle, Panic, EnqueuePrompt
<1>9. ASSUME NEW l \in Lane, Run(l) PROVE QueueInv'
    BY <1>0, <1>2, <1>9, MoveOnly, LaneHead DEF Run
<1>10. ASSUME NEW l \in Lane, NEW m \in Msg, Return(l, m) PROVE QueueInv'
    BY <1>0, <1>2, <1>10, MoveOnly DEF Return, PromptInv
<1>11. CASE OfferFull \/ DrainNothing \/ Restart \/ WorkerStops \/ Stop
    BY <1>3, <1>11 DEF OfferFull, DrainNothing, Restart, WorkerStops, Stop
<1>12. ASSUME NEW l \in Lane, Retire(l) PROVE QueueInv'
    BY <1>3, <1>12 DEF Retire
<1> QED BY <1>4, <1>5, <1>6, <1>7, <1>8, <1>9, <1>10, <1>11, <1>12
        DEF Next, Enqueue, WorkerStep, LaneStep

LEMMA WorkerInvStep == ASSUME IInv, Next PROVE WorkerInv'
<1>0. TypeOK /\ ReadInv /\ WorkerInv /\ PromptInv
    BY DEF IInv
<1>1. ASSUME worker' = worker, NEW m \in Msg, st'[m] # "handling",
             \A n \in Msg \ {m} : st'[n] = st[n]
      PROVE  WorkerInv'
    BY <1>0, <1>1 DEF WorkerInv
<1>2. CASE ReadMessage
    <2>1. lastRead + 1 \in Msg
        BY <1>0, <1>2, InboundAssumption DEF ReadMessage, TypeOK, Msg
    <2> QED BY <1>0, <1>1, <1>2, <2>1, MoveOnly DEF ReadMessage
<1>3. CASE Offer \/ Retry \/ ReaderReturns
    <2>1. lastRead \in Msg
        BY <1>0, <1>3 DEF Offer, Retry, ReaderReturns, ReadInv
    <2>2. \E s \in {"queued", "dropped", "lost"} : Move(lastRead, s)
        BY <1>3 DEF Offer, Retry, ReaderReturns
    <2>3. worker' = worker
        BY <1>3 DEF Offer, Retry, ReaderReturns
    <2> QED BY <1>0, <1>1, <2>1, <2>2, <2>3, MoveOnly
<1>4. CASE DrainOldest
    BY <1>0, <1>1, <1>4, MoveOnly, QueueHead DEF DrainOldest
<1>5. CASE Take
    <2>1. /\ worker = "idle" /\ worker' = "handling" /\ Head(queue) \in Msg
          /\ \A n \in Msg \ {Head(queue)} : st'[n] = st[n]
        BY <1>0, <1>5, MoveOnly, QueueHead DEF Take
    <2> QED BY <1>0, <2>1 DEF WorkerInv
<1>6. ASSUME NEW m \in Msg, Handle(m) \/ Panic(m) \/ EnqueuePrompt(m) PROVE WorkerInv'
    <2>1. /\ st[m] = "handling" /\ st'[m] # "handling"
          /\ \A n \in Msg \ {m} : st'[n] = st[n]
        BY <1>0, <1>6, MoveOnly DEF Handle, Panic, EnqueuePrompt
    <2>2. \A n \in Msg : st'[n] # "handling"
        BY <1>0, <2>1 DEF WorkerInv
    <2> QED BY <2>2 DEF WorkerInv
<1>7. CASE Restart \/ WorkerStops
    BY <1>0, <1>7 DEF Restart, WorkerStops, WorkerInv
<1>8. CASE OfferFull \/ DrainNothing \/ Stop
    BY <1>0, <1>8 DEF OfferFull, DrainNothing, Stop, WorkerInv
<1>9. ASSUME NEW l \in Lane, Run(l) PROVE WorkerInv'
    BY <1>0, <1>1, <1>9, MoveOnly, LaneHead DEF Run
<1>10. ASSUME NEW l \in Lane, NEW m \in Msg, Return(l, m) PROVE WorkerInv'
    BY <1>0, <1>1, <1>10, MoveOnly DEF Return
<1>11. ASSUME NEW l \in Lane, Retire(l) PROVE WorkerInv'
    BY <1>0, <1>11 DEF Retire, WorkerInv
<1> QED BY <1>2, <1>3, <1>4, <1>5, <1>6, <1>7, <1>8, <1>9, <1>10, <1>11
        DEF Next, Enqueue, WorkerStep, LaneStep

-----------------------------------------------------------------------------
(* Lanes.                                                                   *)

LEMMA LaneStepInv == ASSUME IInv, Next PROVE LaneInv'
<1>0. TypeOK /\ LaneInv
    BY DEF IInv
<1>1. CASE UNCHANGED lanevars
    BY <1>0, <1>1 DEF lanevars, LaneInv, Staffed, Vacant, OneGoroutine
<1>2. ASSUME NEW m \in Msg, EnqueuePrompt(m), lanes[to[m]] # NoLane PROVE LaneInv'
    <2>1. PICK l \in Lane : Join(l, m) /\ to[m] \in Session /\ l = lanes[to[m]] /\ busy' = busy
        BY <1>0, <1>2 DEF EnqueuePrompt, TypeOK
    <2>2. Staffed(l)
        BY <1>0, <2>1 DEF LaneInv, Vacant
    <2>3. /\ lanes' = lanes /\ owner' = owner
          /\ \A k \in Lane : k # l => pending'[k] = pending[k]
          /\ \A k \in Lane : loops'[k] = loops[k]
          /\ active' = [active EXCEPT ![l] = TRUE]
        <3>1. active[l]
            BY <2>2 DEF Staffed
        <3> QED BY <1>0, <2>1, <3>1 DEF Join, TypeOK
    <2>4. \A k \in Lane : k # l => active'[k] = active[k]
        BY <1>0, <2>1, <2>3 DEF TypeOK
    <2>5. active'[l]
        BY <1>0, <2>1, <2>3 DEF TypeOK
    <2>6. Staffed(l)'
        BY <2>1, <2>2, <2>3, <2>5 DEF Staffed, OneGoroutine
    <2>7. \A k \in Lane : k # l => Staffed(k)' \/ Vacant(k)'
        BY <1>0, <2>1, <2>3, <2>4 DEF LaneInv, Staffed, Vacant, OneGoroutine
    <2>8. \A s \in Session : lanes'[s] # NoLane => owner'[lanes'[s]] = s
        BY <1>0, <2>3 DEF LaneInv
    <2> QED BY <2>6, <2>7, <2>8 DEF LaneInv
<1>3. ASSUME NEW m \in Msg, EnqueuePrompt(m), lanes[to[m]] = NoLane PROVE LaneInv'
    <2>1. PICK l \in Lane : Open(l, m)
        BY <1>3 DEF EnqueuePrompt
    <2>2. to[m] \in Session /\ busy' = busy /\ busy[l] = {} /\ \A s \in Session : lanes[s] # l
        BY <1>3, <2>1 DEF EnqueuePrompt, Open, FreeLane
    <2>3. /\ lanes'[to[m]] = l /\ \A s \in Session : s # to[m] => lanes'[s] = lanes[s]
          /\ owner'[l] = to[m] /\ \A k \in Lane : k # l => owner'[k] = owner[k]
          /\ loops'[l] = 1 /\ \A k \in Lane : k # l => loops'[k] = loops[k]
          /\ \A k \in Lane : k # l => pending'[k] = pending[k]
        BY <1>0, <2>1, <2>2 DEF TypeOK, Open
    <2>4. active'[l] /\ \A k \in Lane : k # l => active'[k] = active[k]
        BY <1>0, <2>1 DEF TypeOK, Open
    <2>5. Staffed(l)'
        BY <2>2, <2>3, <2>4 DEF Staffed, OneGoroutine
    <2>6. ASSUME NEW k \in Lane, k # l PROVE Staffed(k)' \/ Vacant(k)'
        <3>1. CASE Staffed(k)
            <4>1. owner[k] \in Session /\ lanes[owner[k]] = k /\ active[k] /\ OneGoroutine(k)
                BY <3>1 DEF Staffed
            <4>2. owner[k] # to[m]
                BY <1>3, <4>1, InboundAssumption
            <4>3. OneGoroutine(k)'
                BY <2>2, <2>3, <2>6, <4>1 DEF OneGoroutine
            <4> QED BY <2>3, <2>4, <2>6, <4>1, <4>2, <4>3 DEF Staffed
        <3>2. CASE Vacant(k)
            BY <2>2, <2>3, <2>4, <2>6, <3>2 DEF Vacant
        <3> QED BY <1>0, <3>1, <3>2 DEF LaneInv
    <2>7. \A s \in Session : lanes'[s] # NoLane => owner'[lanes'[s]] = s
        <3>1. \A s \in Session : lanes[s] \in Lane \cup {NoLane}
            BY <1>0 DEF TypeOK
        <3> QED BY <1>0, <2>2, <2>3, <3>1 DEF LaneInv
    <2> QED BY <2>5, <2>6, <2>7 DEF LaneInv
<1>4. ASSUME NEW l \in Lane, Run(l) PROVE LaneInv'
    <2>1. Staffed(l) /\ Head(pending[l]) \in Msg
        BY <1>4, LaneHead DEF Run
    <2>2. loops[l] = 1 /\ busy[l] = {}
        BY <1>4, <2>1 DEF Run, Staffed, OneGoroutine
    <2>3. /\ lanes' = lanes /\ owner' = owner /\ active' = active
          /\ loops'[l] = 0 /\ busy'[l] = {Head(pending[l])}
          /\ \A k \in Lane : k # l => loops'[k] = loops[k] /\ busy'[k] = busy[k]
                                      /\ pending'[k] = pending[k]
        BY <1>0, <1>4, <2>2 DEF Run, TypeOK
    <2>4. Staffed(l)'
        BY <2>1, <2>3 DEF Staffed, OneGoroutine
    <2>5. \A k \in Lane : k # l => Staffed(k)' \/ Vacant(k)'
        BY <1>0, <2>3 DEF LaneInv, Staffed, Vacant, OneGoroutine
    <2> QED BY <1>0, <2>3, <2>4, <2>5 DEF LaneInv
<1>5. ASSUME NEW l \in Lane, NEW m \in Msg, Return(l, m) PROVE LaneInv'
    <2>1. m \in busy[l] /\ Staffed(l)
        BY <1>0, <1>5 DEF Return, LaneInv, Vacant
    <2>2. loops[l] = 0 /\ busy[l] = {m}
        BY <2>1 DEF Staffed, OneGoroutine
    <2>3. /\ lanes' = lanes /\ owner' = owner /\ active' = active /\ pending' = pending
          /\ loops'[l] = 1 /\ busy'[l] = {}
          /\ \A k \in Lane : k # l => loops'[k] = loops[k] /\ busy'[k] = busy[k]
        BY <1>0, <1>5, <2>2 DEF Return, TypeOK
    <2>4. Staffed(l)'
        BY <2>1, <2>3 DEF Staffed, OneGoroutine
    <2>5. \A k \in Lane : k # l => Staffed(k)' \/ Vacant(k)'
        BY <1>0, <2>3 DEF LaneInv, Staffed, Vacant, OneGoroutine
    <2> QED BY <1>0, <2>3, <2>4, <2>5 DEF LaneInv
<1>6. ASSUME NEW l \in Lane, Retire(l) PROVE LaneInv'
    <2>1. Staffed(l)
        BY <1>0, <1>6 DEF Retire, LaneInv, Vacant
    <2>2. /\ owner[l] \in Session /\ lanes[owner[l]] = l
          /\ loops[l] = 1 /\ busy[l] = {} /\ pending[l] = <<>>
        BY <1>6, <2>1 DEF Retire, Staffed, OneGoroutine
    <2>3. /\ owner' = owner /\ pending' = pending /\ busy' = busy
          /\ lanes'[owner[l]] = NoLane /\ loops'[l] = 0
          /\ \A s \in Session : s # owner[l] => lanes'[s] = lanes[s]
          /\ \A k \in Lane : k # l => loops'[k] = loops[k]
        BY <1>0, <1>6, <2>2 DEF Retire, TypeOK
    <2>4. ~active'[l] /\ \A k \in Lane : k # l => active'[k] = active[k]
        BY <1>0, <1>6 DEF Retire, TypeOK
    <2>5. Vacant(l)'
        <3>1. \A s \in Session : lanes[s] = l => s = owner[l]
            BY <1>0, InboundAssumption DEF LaneInv
        <3> QED BY <2>2, <2>3, <2>4, <3>1, InboundAssumption DEF Vacant
    <2>6. ASSUME NEW k \in Lane, k # l PROVE Staffed(k)' \/ Vacant(k)'
        <3>1. CASE Staffed(k)
            <4>1. owner[k] # owner[l]
                BY <2>2, <2>6, <3>1 DEF Staffed
            <4> QED BY <2>3, <2>4, <2>6, <3>1, <4>1 DEF Staffed, OneGoroutine
        <3>2. CASE Vacant(k)
            BY <2>3, <2>4, <2>6, <3>2, InboundAssumption DEF Vacant
        <3> QED BY <1>0, <3>1, <3>2 DEF LaneInv
    <2>7. \A s \in Session : lanes'[s] # NoLane => owner'[lanes'[s]] = s
        BY <1>0, <2>3 DEF LaneInv
    <2> QED BY <2>5, <2>6, <2>7 DEF LaneInv
<1>7. ReadMessage \/ Enqueue \/ Take \/ Restart \/ WorkerStops \/ Stop => UNCHANGED lanevars
    BY DEF ReadMessage, Enqueue, Offer, OfferFull, DrainOldest, DrainNothing, Retry,
           ReaderReturns, Take, Restart, WorkerStops, Stop
<1>8. ASSUME NEW m \in Msg, Handle(m) \/ Panic(m) PROVE UNCHANGED lanevars
    BY <1>8 DEF Handle, Panic
<1> QED BY <1>1, <1>2, <1>3, <1>4, <1>5, <1>6, <1>7, <1>8 DEF Next, WorkerStep, LaneStep

\* A step of a message that is not in a lane and does not enter one.
LEMMA PromptFrame ==
    ASSUME TypeOK, PromptInv, UNCHANGED <<to, lanes, owner, pending, busy>>,
           NEW m \in Msg, st[m] \notin {"lane", "running"}, st'[m] \notin {"lane", "running"},
           \A n \in Msg \ {m} : st'[n] = st[n]
    PROVE  PromptInv'
<1>1. \A l \in Lane : \A i \in DOMAIN pending[l] : pending[l][i] \in Msg
    BY DEF TypeOK
<1>2. \A l \in Lane : \A n \in busy[l] : n \in Msg
    BY DEF TypeOK
<1> QED BY <1>1, <1>2 DEF PromptInv

LEMMA PromptJoin ==
    ASSUME IInv, NEW m \in Msg, EnqueuePrompt(m), lanes[to[m]] # NoLane
    PROVE  PromptInv'
<1>0. TypeOK /\ LaneInv /\ PromptInv /\ OrderInv
    BY DEF IInv
<1>1. PICK l \in Lane : /\ l = lanes[to[m]] /\ to[m] \in Session
                        /\ Join(l, m) /\ busy' = busy /\ to' = to
    BY <1>0 DEF EnqueuePrompt, TypeOK
<1>2. owner[l] = to[m]
    BY <1>0, <1>1 DEF LaneInv
<1>3. /\ lanes' = lanes /\ owner' = owner
      /\ pending'[l] = Append(pending[l], m)
      /\ \A k \in Lane : k # l => pending'[k] = pending[k]
    BY <1>0, <1>1 DEF Join, TypeOK
<1>4. st[m] = "handling" /\ st'[m] = "lane" /\ \A n \in Msg \ {m} : st'[n] = st[n]
    BY <1>0, MoveOnly DEF EnqueuePrompt
<1>5. \A k \in Lane : /\ pending[k] \in Seq(Msg) /\ busy[k] \subseteq Msg
                      /\ \A i \in DOMAIN pending[k] : pending[k][i] \in Msg
    BY <1>0 DEF TypeOK
<1>6. \A i \in DOMAIN pending[l] : pending[l][i] < m
    <2>1. ASSUME NEW i \in DOMAIN pending[l] PROVE pending[l][i] < m
        <3>1. pending[l][i] \in Msg /\ st[pending[l][i]] = "lane"
            BY <1>0, <1>5 DEF PromptInv
        <3>2. ~(m < pending[l][i]) /\ m # pending[l][i]
            BY <1>0, <1>4, <3>1 DEF OrderInv
        <3>3. m \in Nat /\ pending[l][i] \in Nat
            BY <3>1 DEF Msg
        <3> QED BY <3>2, <3>3
    <2> QED BY <2>1
<1>7. /\ Sorted(Append(pending[l], m)) /\ InSeq(m, Append(pending[l], m))
      /\ \A i \in DOMAIN Append(pending[l], m) :
             Append(pending[l], m)[i] = m
             \/ (i \in DOMAIN pending[l] /\ Append(pending[l], m)[i] = pending[l][i])
      /\ \A n : InSeq(n, pending[l]) => InSeq(n, Append(pending[l], m))
    <2> DEFINE q == pending[l]
    <2>1. q \in Seq(Msg) /\ Sorted(q) /\ m \in Msg /\ \A i \in DOMAIN q : q[i] < m
        BY <1>0, <1>5, <1>6 DEF PromptInv
    <2> HIDE DEF q
    <2>2. /\ Sorted(Append(q, m)) /\ InSeq(m, Append(q, m))
          /\ \A i \in DOMAIN Append(q, m) : Append(q, m)[i] = m \/ (i \in DOMAIN q /\ Append(q, m)[i] = q[i])
          /\ \A n : InSeq(n, q) => InSeq(n, Append(q, m))
        BY ONLY <2>1, AppendSorted
    <2> QED BY <2>2 DEF q
<1>8. \A k \in Lane : Sorted(pending'[k])
    <2>1. ASSUME NEW k \in Lane, k # l PROVE Sorted(pending'[k])
        <3>1. pending'[k] = pending[k] /\ Sorted(pending[k])
            BY <1>0, <1>3, <2>1 DEF PromptInv
        <3> QED BY ONLY <3>1
    <2>2. Sorted(pending'[l])
        BY ONLY <1>3, <1>7
    <2> QED BY <2>1, <2>2
<1>9. \A k \in Lane : \A i \in DOMAIN pending'[k] :
          st'[pending'[k][i]] = "lane" /\ to'[pending'[k][i]] = owner'[k]
    <2>1. ASSUME NEW k \in Lane, k # l, NEW i \in DOMAIN pending'[k]
          PROVE  st'[pending'[k][i]] = "lane" /\ to'[pending'[k][i]] = owner'[k]
        <3>1. /\ pending[k][i] \in Msg /\ st[pending[k][i]] = "lane"
              /\ to[pending[k][i]] = owner[k] /\ pending'[k] = pending[k]
            BY <1>0, <1>3, <1>5, <2>1 DEF PromptInv
        <3> QED BY <1>1, <1>3, <1>4, <3>1
    <2>2. ASSUME NEW i \in DOMAIN Append(pending[l], m)
          PROVE  /\ st'[Append(pending[l], m)[i]] = "lane"
                 /\ to'[Append(pending[l], m)[i]] = owner'[l]
        <3>1. CASE Append(pending[l], m)[i] = m
            BY <1>1, <1>2, <1>3, <1>4, <3>1
        <3>2. CASE i \in DOMAIN pending[l] /\ Append(pending[l], m)[i] = pending[l][i]
            <4>1. /\ pending[l][i] \in Msg /\ st[pending[l][i]] = "lane"
                  /\ to[pending[l][i]] = owner[l]
                BY <1>0, <1>5, <3>2 DEF PromptInv
            <4> QED BY <1>1, <1>3, <1>4, <3>2, <4>1
        <3> QED BY <1>7, <2>2, <3>1, <3>2
    <2> QED BY <1>3, <2>1, <2>2
<1>10. \A k \in Lane : \A n \in busy'[k] : st'[n] = "running" /\ to'[n] = owner'[k]
    BY <1>0, <1>1, <1>3, <1>4, <1>5 DEF PromptInv
<1>11. \A n \in Msg : st'[n] \in {"lane", "running"} =>
           to'[n] \in Session /\ lanes'[to'[n]] # NoLane
    BY <1>0, <1>1, <1>3, <1>4 DEF PromptInv
<1>12. \A n \in Msg : st'[n] = "lane" => InSeq(n, pending'[lanes'[to'[n]]])
    <2>1. ASSUME NEW n \in Msg, st'[n] = "lane" PROVE InSeq(n, pending'[lanes'[to'[n]]])
        <3>1. CASE n = m
            BY <1>1, <1>3, <1>7, <3>1
        <3>2. CASE n # m
            <4>1. st[n] = "lane"
                BY <1>4, <2>1, <3>2
            <4>2. InSeq(n, pending[lanes[to[n]]]) /\ lanes[to[n]] \in Lane
                BY <1>0, <4>1 DEF PromptInv, TypeOK
            <4> QED BY <1>1, <1>3, <1>7, <4>2
        <3> QED BY <3>1, <3>2
    <2> QED BY <2>1
<1>13. \A n \in Msg : st'[n] = "running" => n \in busy'[lanes'[to'[n]]]
    BY <1>0, <1>1, <1>3, <1>4 DEF PromptInv
<1> QED BY <1>8, <1>9, <1>10, <1>11, <1>12, <1>13 DEF PromptInv

LEMMA PromptOpen ==
    ASSUME IInv, NEW m \in Msg, EnqueuePrompt(m), lanes[to[m]] = NoLane
    PROVE  PromptInv'
<1>0. TypeOK /\ LaneInv /\ PromptInv
    BY DEF IInv
<1>1. PICK l \in Lane : Open(l, m)
    BY DEF EnqueuePrompt
<1>2. /\ to[m] \in Session /\ busy' = busy /\ busy[l] = {} /\ to' = to
      /\ \A s \in Session : lanes[s] # l
    BY <1>1 DEF EnqueuePrompt, Open, FreeLane
<1>3. /\ lanes'[to[m]] = l /\ \A s \in Session : s # to[m] => lanes'[s] = lanes[s]
      /\ owner'[l] = to[m] /\ \A k \in Lane : k # l => owner'[k] = owner[k]
      /\ pending'[l] = <<m>> /\ \A k \in Lane : k # l => pending'[k] = pending[k]
    BY <1>0, <1>1, <1>2 DEF TypeOK, Open
<1>4. st[m] = "handling" /\ st'[m] = "lane" /\ \A n \in Msg \ {m} : st'[n] = st[n]
    BY <1>0, MoveOnly DEF EnqueuePrompt
<1>5. \A k \in Lane : /\ pending[k] \in Seq(Msg) /\ busy[k] \subseteq Msg
                      /\ \A i \in DOMAIN pending[k] : pending[k][i] \in Msg
    BY <1>0 DEF TypeOK
<1>6. DOMAIN <<m>> = {1} /\ <<m>>[1] = m /\ Sorted(<<m>>) /\ InSeq(m, <<m>>)
    BY DEF Sorted, InSeq
<1>7. \A k \in Lane : Sorted(pending'[k])
    BY <1>0, <1>3, <1>6 DEF PromptInv
<1>8. \A k \in Lane : \A i \in DOMAIN pending'[k] :
          st'[pending'[k][i]] = "lane" /\ to'[pending'[k][i]] = owner'[k]
    <2>1. ASSUME NEW k \in Lane, k # l, NEW i \in DOMAIN pending'[k]
          PROVE  st'[pending'[k][i]] = "lane" /\ to'[pending'[k][i]] = owner'[k]
        <3>1. /\ pending[k][i] \in Msg /\ st[pending[k][i]] = "lane"
              /\ to[pending[k][i]] = owner[k] /\ pending'[k] = pending[k]
            BY <1>0, <1>3, <1>5, <2>1 DEF PromptInv
        <3> QED BY <1>2, <1>3, <1>4, <2>1, <3>1
    <2> QED BY <1>2, <1>3, <1>4, <1>6, <2>1
<1>9. \A k \in Lane : \A n \in busy'[k] : st'[n] = "running" /\ to'[n] = owner'[k]
    BY <1>0, <1>2, <1>3, <1>4, <1>5 DEF PromptInv
<1>10. ASSUME NEW n \in Msg, n # m, st'[n] \in {"lane", "running"}
       PROVE  /\ st[n] = st'[n] /\ to'[n] = to[n] /\ to[n] \in Session
              /\ lanes[to[n]] \in Lane /\ lanes[to[n]] # l
              /\ lanes'[to[n]] = lanes[to[n]]
    <2>1. st[n] = st'[n] /\ to'[n] = to[n]
        BY <1>2, <1>4, <1>10
    <2>2. to[n] \in Session /\ lanes[to[n]] # NoLane
        BY <1>0, <1>10, <2>1 DEF PromptInv
    <2> QED BY <1>0, <1>2, <1>3, <2>1, <2>2 DEF TypeOK
<1>11. \A n \in Msg : st'[n] \in {"lane", "running"} =>
           to'[n] \in Session /\ lanes'[to'[n]] # NoLane
    BY <1>2, <1>3, <1>4, <1>10, InboundAssumption
<1>12. \A n \in Msg : st'[n] = "lane" => InSeq(n, pending'[lanes'[to'[n]]])
    <2>1. ASSUME NEW n \in Msg, n # m, st'[n] = "lane"
          PROVE  InSeq(n, pending'[lanes'[to'[n]]])
        <3>1. InSeq(n, pending[lanes[to[n]]])
            BY <1>0, <1>10, <2>1 DEF PromptInv
        <3> QED BY <1>3, <1>10, <2>1, <3>1
    <2>2. InSeq(m, pending'[lanes'[to'[m]]])
        BY <1>2, <1>3, <1>6
    <2> QED BY <2>1, <2>2
<1>13. \A n \in Msg : st'[n] = "running" => n \in busy'[lanes'[to'[n]]]
    BY <1>0, <1>2, <1>4, <1>10 DEF PromptInv
<1> QED BY <1>7, <1>8, <1>9, <1>11, <1>12, <1>13 DEF PromptInv

LEMMA PromptRun ==
    ASSUME IInv, NEW l \in Lane, Run(l)
    PROVE  PromptInv'
<1>0. TypeOK /\ LaneInv /\ PromptInv /\ pending[l] # <<>>
    BY DEF IInv, Run
<1>1. PICK h \in Msg : /\ h = Head(pending[l]) /\ st[h] = "lane" /\ to[h] = owner[l]
                       /\ Staffed(l)
    BY <1>0, LaneHead
<1>2. busy[l] = {} /\ lanes[owner[l]] = l /\ owner[l] \in Session
    BY <1>1 DEF Run, Staffed, OneGoroutine
<1>3. /\ lanes' = lanes /\ owner' = owner /\ to' = to
      /\ pending'[l] = Tail(pending[l]) /\ busy'[l] = {h}
      /\ \A k \in Lane : k # l => pending'[k] = pending[k] /\ busy'[k] = busy[k]
    BY <1>0, <1>1, <1>2 DEF Run, TypeOK
<1>4. st'[h] = "running" /\ \A n \in Msg \ {h} : st'[n] = st[n]
    BY <1>0, <1>1, MoveOnly DEF Run
<1>5. \A k \in Lane : busy[k] \subseteq Msg /\ \A i \in DOMAIN pending[k] : pending[k][i] \in Msg
    BY <1>0 DEF TypeOK
<1>6. /\ Sorted(Tail(pending[l]))
      /\ \A i \in DOMAIN Tail(pending[l]) :
             /\ Tail(pending[l])[i] \in Msg /\ Tail(pending[l])[i] # h
             /\ st[Tail(pending[l])[i]] = "lane" /\ to[Tail(pending[l])[i]] = owner[l]
      /\ \A n \in Msg : st[n] = "lane" /\ to[n] = owner[l] => n = h \/ InSeq(n, Tail(pending[l]))
    <2>1. Tail(pending[l]) \in Seq(Msg)
        BY <1>0, LaneHead
    <2> QED BY <1>0, <1>1, <2>1, LaneHead
<1>7. \A k \in Lane : Sorted(pending'[k])
    BY <1>0, <1>3, <1>6 DEF PromptInv
<1>8. ASSUME NEW k \in Lane, NEW i \in DOMAIN pending'[k]
      PROVE  st'[pending'[k][i]] = "lane" /\ to'[pending'[k][i]] = owner'[k]
    <2>1. CASE k = l
        <3>1. pending'[k] = Tail(pending[l]) /\ i \in DOMAIN Tail(pending[l])
            BY <1>3, <1>8, <2>1
        <3>2. /\ Tail(pending[l])[i] \in Msg \ {h} /\ st[Tail(pending[l])[i]] = "lane"
              /\ to[Tail(pending[l])[i]] = owner[l]
            BY <1>6, <3>1
        <3>3. st'[Tail(pending[l])[i]] = "lane"
            BY <1>4, <3>2
        <3> QED BY <1>3, <2>1, <3>1, <3>2, <3>3
    <2>2. CASE k # l
        <3>1. /\ pending[k][i] \in Msg /\ st[pending[k][i]] = "lane"
              /\ to[pending[k][i]] = owner[k] /\ pending'[k] = pending[k]
            BY <1>0, <1>3, <1>5, <1>8, <2>2 DEF PromptInv
        <3>2. owner[k] # owner[l]
            <4>1. pending[k] # <<>>
                BY <1>3, <1>8, <2>2
            <4>2. Staffed(k)
                BY <4>1, LaneHead
            <4> QED BY <1>2, <2>2, <4>2 DEF Staffed
        <3> QED BY <1>1, <1>3, <1>4, <3>1, <3>2
    <2> QED BY <2>1, <2>2
<1>9. \A k \in Lane : \A n \in busy'[k] : st'[n] = "running" /\ to'[n] = owner'[k]
    BY <1>0, <1>1, <1>3, <1>4, <1>5 DEF PromptInv
<1>10. \A n \in Msg : st'[n] \in {"lane", "running"} =>
           to'[n] \in Session /\ lanes'[to'[n]] # NoLane
    BY <1>0, <1>1, <1>3, <1>4 DEF PromptInv
<1>11. ASSUME NEW n \in Msg, st'[n] = "lane" PROVE InSeq(n, pending'[lanes'[to'[n]]])
    <2>1. n # h /\ st[n] = "lane"
        BY <1>4, <1>11
    <2>2. to[n] \in Session /\ lanes[to[n]] \in Lane /\ InSeq(n, pending[lanes[to[n]]])
          /\ owner[lanes[to[n]]] = to[n]
        BY <1>0, <2>1 DEF PromptInv, TypeOK, LaneInv
    <2>3. CASE lanes[to[n]] = l
        BY <1>3, <1>6, <2>1, <2>2, <2>3
    <2>4. CASE lanes[to[n]] # l
        BY <1>3, <2>2, <2>4
    <2> QED BY <2>3, <2>4
<1>12. \A n \in Msg : st'[n] = "running" => n \in busy'[lanes'[to'[n]]]
    <2>1. ASSUME NEW n \in Msg, n # h, st'[n] = "running"
          PROVE  n \in busy'[lanes'[to'[n]]]
        <3>1. n \in busy[lanes[to[n]]] /\ lanes[to[n]] \in Lane
            BY <1>0, <1>4, <2>1 DEF PromptInv, TypeOK
        <3> QED BY <1>2, <1>3, <3>1
    <2> QED BY <1>1, <1>2, <1>3, <2>1
<1> QED BY <1>7, <1>8, <1>9, <1>10, <1>11, <1>12 DEF PromptInv

LEMMA PromptReturn ==
    ASSUME IInv, NEW l \in Lane, NEW m \in Msg, Return(l, m)
    PROVE  PromptInv'
<1>0. TypeOK /\ PromptInv /\ m \in busy[l] /\ st[m] = "running"
    BY DEF IInv, Return, PromptInv
<1>1. /\ UNCHANGED <<to, lanes, owner, pending>>
      /\ busy'[l] = busy[l] \ {m} /\ \A k \in Lane : k # l => busy'[k] = busy[k]
    BY <1>0 DEF Return, TypeOK
<1>2. st'[m] = "done" /\ \A n \in Msg \ {m} : st'[n] = st[n]
    BY <1>0, MoveOnly DEF Return
<1>3. \A k \in Lane : busy[k] \subseteq Msg /\ \A i \in DOMAIN pending[k] : pending[k][i] \in Msg
    BY <1>0 DEF TypeOK
<1>4. lanes[to[m]] = l
    <2>1. Staffed(l)
        BY <1>0 DEF IInv, LaneInv, Vacant
    <2> QED BY <1>0, <2>1 DEF PromptInv, Staffed
<1>5. \A k \in Lane : \A n \in busy'[k] : st'[n] = "running" /\ to'[n] = owner'[k]
    <2>1. ASSUME NEW k \in Lane, NEW n \in busy'[k] PROVE n # m /\ n \in busy[k] /\ n \in Msg
        <3>1. CASE k = l
            BY <1>1, <1>3, <2>1, <3>1
        <3>2. CASE k # l
            <4>1. n \in busy[k] /\ n \in Msg
                BY <1>1, <1>3, <2>1, <3>2
            <4>2. m \notin busy[k]
                <5>1. SUFFICES ASSUME m \in busy[k] PROVE FALSE
                    OBVIOUS
                <5>2. to[m] = owner[k] /\ Staffed(k)
                    BY <1>0, <5>1 DEF PromptInv, IInv, LaneInv, Vacant
                <5> QED BY <1>4, <3>2, <5>2 DEF Staffed
            <4> QED BY <4>1, <4>2
        <3> QED BY <3>1, <3>2
    <2> QED BY <1>0, <1>1, <1>2, <2>1 DEF PromptInv
<1>6. \A k \in Lane : \A i \in DOMAIN pending'[k] :
          st'[pending'[k][i]] = "lane" /\ to'[pending'[k][i]] = owner'[k]
    BY <1>0, <1>1, <1>2, <1>3 DEF PromptInv
<1>7. \A n \in Msg : st'[n] = "running" => n \in busy'[lanes'[to'[n]]]
    <2>1. ASSUME NEW n \in Msg, st'[n] = "running" PROVE n \in busy'[lanes'[to'[n]]]
        <3>1. n # m /\ n \in busy[lanes[to[n]]] /\ lanes[to[n]] \in Lane
            BY <1>0, <1>2, <2>1 DEF PromptInv, TypeOK
        <3> QED BY <1>1, <3>1
    <2> QED BY <2>1
<1>8. \A n \in Msg : st'[n] \in {"lane", "running"} => st[n] = st'[n] /\ to'[n] = to[n]
    BY <1>0, <1>1, <1>2
<1> QED BY <1>0, <1>1, <1>5, <1>6, <1>7, <1>8 DEF PromptInv

LEMMA PromptRetire ==
    ASSUME IInv, NEW l \in Lane, Retire(l)
    PROVE  PromptInv'
<1>0. TypeOK /\ PromptInv
    BY DEF IInv
<1>1. Staffed(l)
    BY DEF IInv, LaneInv, Vacant, Retire
<1>2. /\ owner[l] \in Session /\ lanes[owner[l]] = l /\ busy[l] = {} /\ pending[l] = <<>>
    BY <1>1 DEF Retire, Staffed, OneGoroutine
<1>3. /\ UNCHANGED <<to, st, owner, pending, busy>>
      /\ \A s \in Session : s # owner[l] => lanes'[s] = lanes[s]
    BY <1>0, <1>2 DEF Retire, TypeOK
<1>4. \A n \in Msg : st[n] \in {"lane", "running"} => to[n] # owner[l]
    <2>1. DOMAIN <<>> = {}
        OBVIOUS
    <2> QED BY <1>0, <1>2, <2>1 DEF PromptInv, InSeq
<1> QED BY <1>0, <1>3, <1>4 DEF PromptInv

LEMMA PromptStep == ASSUME IInv, Next PROVE PromptInv'
<1>0. TypeOK /\ ReadInv /\ PromptInv
    BY DEF IInv
<1>1. CASE ReadMessage \/ Enqueue \/ Take \/ Restart \/ WorkerStops \/ Stop
    <2>1. UNCHANGED <<to, lanes, owner, pending, busy>>
        BY <1>1 DEF ReadMessage, Enqueue, Offer, OfferFull, DrainOldest, DrainNothing, Retry,
               ReaderReturns, Take, Restart, WorkerStops, Stop, lanevars
    <2>2. CASE st' = st
        BY <1>0, <2>1, <2>2 DEF PromptInv
    <2>3. CASE \E m \in Msg : OnlyChange(m)
        <3>1. PICK m \in Msg : OnlyChange(m)
            BY <2>3
        <3>2. st'[m] \in {"offered", "queued", "lost", "dropped", "handling"} \/ st' = st
            <4>1. CASE ReadMessage
                <5>1. lastRead + 1 \in Msg
                    BY <1>0, <4>1, InboundAssumption DEF ReadMessage, TypeOK, Msg
                <5> QED BY <1>0, <3>1, <4>1, <5>1, MoveOnly DEF ReadMessage, OnlyChange, Change
            <4>2. CASE Offer \/ Retry \/ ReaderReturns
                <5>1. lastRead \in Msg
                    BY <1>0, <4>2 DEF Offer, Retry, ReaderReturns, ReadInv
                <5>2. \E s \in {"queued", "dropped", "lost"} : Move(lastRead, s)
                    BY <4>2 DEF Offer, Retry, ReaderReturns
                <5> QED BY <1>0, <3>1, <5>1, <5>2, MoveOnly DEF OnlyChange, Change
            <4>3. CASE DrainOldest \/ Take
                <5>1. /\ queue # <<>>
                      /\ Move(Head(queue), "dropped") \/ Move(Head(queue), "handling")
                    BY <4>3 DEF DrainOldest, Take
                <5>2. Head(queue) \in Msg
                    BY <5>1, QueueHead
                <5> QED BY <1>0, <3>1, <5>1, <5>2, MoveOnly DEF OnlyChange, Change
            <4>4. CASE OfferFull \/ DrainNothing \/ Restart \/ WorkerStops \/ Stop
                BY <4>4 DEF OfferFull, DrainNothing, Restart, WorkerStops, Stop
            <4> QED BY <1>1, <4>1, <4>2, <4>3, <4>4 DEF Enqueue
        <3>3. CASE st' = st
            BY <2>2, <3>3
        <3>4. CASE st'[m] \in {"offered", "queued", "lost", "dropped", "handling"}
            <4>1. st[m] \notin {"lane", "running"}
                BY <3>1, <3>4 DEF OnlyChange, Change
            <4> QED BY <1>0, <2>1, <3>1, <3>4, <4>1, PromptFrame DEF OnlyChange
        <3> QED BY <3>2, <3>3, <3>4
    <2> QED BY <2>2, <2>3, StageStep
<1>2. ASSUME NEW m \in Msg, Handle(m) \/ Panic(m) PROVE PromptInv'
    BY <1>0, <1>2, MoveOnly, PromptFrame DEF Handle, Panic, lanevars
<1>3. ASSUME NEW m \in Msg, EnqueuePrompt(m) PROVE PromptInv'
    BY <1>3, PromptJoin, PromptOpen
<1> QED BY <1>1, <1>2, <1>3, PromptRun, PromptReturn, PromptRetire
        DEF Next, WorkerStep, LaneStep

-----------------------------------------------------------------------------

LEMMA IInvStep == IInv /\ [Next]_vars => IInv'
<1>1. ASSUME IInv, Next PROVE IInv'
    BY <1>1, TypeStep, ReadStep, QueueStep, WorkerInvStep, OrderStep, LaneStepInv, PromptStep
       DEF IInv
<1>2. ASSUME IInv, UNCHANGED vars PROVE IInv'
    <2>1. TypeOK' /\ ReadInv' /\ QueueInv' /\ WorkerInv' /\ OrderInv'
        BY <1>2 DEF IInv, vars, lanevars, TypeOK, ReadInv, HasRoom, QueueInv, WorkerInv, OrderInv
    <2>2. LaneInv' /\ PromptInv'
        BY <1>2 DEF IInv, vars, lanevars, LaneInv, Staffed, Vacant, OneGoroutine, PromptInv
    <2> QED BY <2>1, <2>2 DEF IInv
<1> QED BY <1>1, <1>2

\* The parts of the invariant hold together in every state: what the queue, the
\* worker and the lanes hold is what was read and not yet handled.
THEOREM IInvHolds == Spec => []IInv
BY InitIInv, IInvStep, PTL DEF Spec

\* Every variable has its type; messageQueue never exceeds its capacity.
THEOREM TypeCorrect == Spec => []TypeOK
<1>1. IInv => TypeOK
    BY DEF IInv
<1> QED BY <1>1, IInvHolds, PTL

\* Once a prompt has been started, no earlier one of its session is still on
\* its way: readLoop, messageWorker and the lanes keep the arrival order.
THEOREM PromptOrderHolds == Spec => []PromptOrder
<1>1. ASSUME IInv, NEW m \in Msg, NEW n \in Msg, m < n, to[m] = to[n],
             to[m] \in Session, st[n] \in {"running", "done"}
      PROVE  st[m] \in {"running", "done", "dropped"}
    <2>0. m \in Nat /\ n \in Nat
        BY DEF Msg
    <2>1. st[m] \in Stage /\ lastRead \in Nat
        BY <1>1 DEF IInv, TypeOK
    <2>2. st[m] # "queued" /\ st[m] # "handling" /\ st[m] # "lane"
        BY <1>1 DEF IInv, OrderInv
    <2>3. st[m] # "unread" /\ st[m] # "offered" /\ st[m] # "lost"
        BY <1>1, <2>0, <2>1 DEF IInv, ReadInv
    <2> QED BY <2>1, <2>2, <2>3 DEF Stage
<1>2. IInv => PromptOrder
    BY <1>1 DEF PromptOrder
<1> QED BY <1>2, IInvHolds, PTL

\* One session never has two prompt handlers at once, whatever lanes come and
\* go (enqueuePrompt, drainPromptLane).
THEOREM OneAtATimeHolds == Spec => []OneAtATime
<1>1. ASSUME IInv, NEW m \in Msg, NEW n \in Msg,
             st[m] = "running", st[n] = "running", to[m] = to[n]
      PROVE  m = n
    <2>1. /\ m \in busy[lanes[to[m]]] /\ n \in busy[lanes[to[m]]]
          /\ lanes[to[m]] \in Lane
        BY <1>1 DEF IInv, TypeOK, PromptInv
    <2>2. OneGoroutine(lanes[to[m]])
        BY <1>1, <2>1 DEF IInv, LaneInv, Staffed, Vacant
    <2> QED BY <2>1, <2>2 DEF OneGoroutine
<1>2. IInv => OneAtATime
    BY <1>1 DEF OneAtATime
<1> QED BY <1>2, IInvHolds, PTL

\* A prompt is never left in a lane without a goroutine: enqueuePrompt cannot
\* append to a lane whose goroutine has decided to retire.
THEOREM NoStrandedPromptHolds == Spec => []NoStrandedPrompt
<1>1. ASSUME IInv, NEW l \in Lane, pending[l] # <<>>
      PROVE  /\ lanes[owner[l]] = l
             /\ \/ loops[l] = 1 /\ busy[l] = {}
                \/ loops[l] = 0 /\ Cardinality(busy[l]) = 1
    <2>1. lanes[owner[l]] = l /\ OneGoroutine(l)
        BY <1>1 DEF IInv, LaneInv, Staffed, Vacant
    <2>2. \A m : Cardinality({m}) = 1
        BY FS_Singleton
    <2> QED BY <2>1, <2>2 DEF OneGoroutine
<1>2. IInv => NoStrandedPrompt
    BY <1>1 DEF NoStrandedPrompt
<1> QED BY <1>2, IInvHolds, PTL

\* The full queue loses its oldest messages, never the one just read.
THEOREM DropsOldestHolds == Spec => []DropsOldest
<1>1. ASSUME IInv, NEW m \in Msg, st[m] = "dropped", NEW n \in Msg, st[n] = "queued"
      PROVE  m < n
    <2>1. ~(n < m) /\ n # m
        BY <1>1 DEF IInv, OrderInv
    <2>2. m \in Nat /\ n \in Nat
        BY DEF Msg
    <2> QED BY <2>1, <2>2
<1>2. IInv => DropsOldest
    BY <1>1 DEF DropsOldest, IInv, ReadInv
<1> QED BY <1>2, IInvHolds, PTL

-----------------------------------------------------------------------------
(* Refinement of SessionPrompts.                                            *)

OnItsWay == {"offered", "queued", "handling", "lane"}

Waiting == {m \in Msg : to[m] \in Session /\ st[m] \in OnItsWay}
Running == {m \in Msg : st[m] = "running"}

LEMMA InitImplements == Init => Prompts!InitPrompts
<1> SUFFICES ASSUME Init PROVE Prompts!InitPrompts
    OBVIOUS
<1>1. \A m \in Msg : st[m] = "unread"
    BY DEF Init
<1>2. 1..lastRead = {}
    BY DEF Init
<1> QED BY <1>1, <1>2 DEF Prompts!InitPrompts

\* Only readLoop reads.
LEMMA LastReadStep ==
    ASSUME IInv, Next, ~ReadMessage
    PROVE  lastRead' = lastRead
BY DEF Next, Enqueue, WorkerStep, LaneStep, Offer, OfferFull, DrainOldest, DrainNothing,
       Retry, ReaderReturns, Take, Handle, Panic, EnqueuePrompt, Restart, WorkerStops,
       Run, Retire, Return, Stop

LEMMA ReadImplements ==
    ASSUME IInv, ReadMessage
    PROVE  \E m \in Msg : Prompts!Arrive(m)
<1>0. TypeOK /\ ReadInv /\ lastRead \in Nat
    BY DEF IInv, TypeOK
<1>1. PICK k \in Msg : k = lastRead + 1
    BY <1>0, InboundAssumption DEF ReadMessage, TypeOK, Msg
<1>2. /\ lastRead' = k /\ to' = to
      /\ st'[k] = "offered" /\ \A n \in Msg \ {k} : st'[n] = st[n]
    BY <1>0, <1>1, MoveOnly DEF ReadMessage
<1>3. st[k] = "unread"
    BY <1>0, <1>1 DEF ReadInv
<1>4. /\ k \notin 1..lastRead /\ \A n \in 1..lastRead : n < k
      /\ 1..lastRead' = (1..lastRead) \cup {k}
    BY <1>0, <1>1, <1>2
<1>5. Waiting' = IF to[k] \in Session THEN Waiting \cup {k} ELSE Waiting
    BY <1>2, <1>3 DEF Waiting, OnItsWay
<1>6. Running' = Running
    BY <1>2, <1>3 DEF Running
<1>7. Prompts!Arrive(k)
    BY <1>2, <1>4, <1>5, <1>6 DEF Prompts!Arrive, Waiting, Running, OnItsWay
<1> QED BY <1>7

LEMMA ChangeImplements ==
    ASSUME IInv, Next, ~ReadMessage, NEW m \in Msg, OnlyChange(m)
    PROVE  \/ Prompts!Lose(m) \/ Prompts!Begin(m) \/ Prompts!End(m)
           \/ UNCHANGED Prompts!pvars
<1>0. TypeOK /\ ReadInv /\ WorkerInv /\ OrderInv /\ PromptInv
    BY DEF IInv
<1>1. lastRead' = lastRead /\ to' = to
    BY LastReadStep, StageStep
<1>2. \A n \in Msg \ {m} : st'[n] = st[n]
    BY DEF OnlyChange
<1>3. TypeOK' /\ ReadInv' /\ LaneInv' /\ PromptInv'
    BY TypeStep, ReadStep, LaneStepInv, PromptStep
<1>4. st[m] # "unread"
    <2>1. m > lastRead => st'[m] = "unread"
        BY <1>1, <1>3 DEF ReadInv
    <2> QED BY <1>0, <2>1 DEF ReadInv, OnlyChange, Change
<1>5. CASE /\ st[m] \in OnItsWay => st'[m] \in OnItsWay \/ to[m] \notin Session
           /\ st'[m] \in OnItsWay => st[m] \in OnItsWay
           /\ st[m] # "running" /\ st'[m] # "running"
    <2>1. Waiting' = Waiting /\ Running' = Running
        BY <1>1, <1>2, <1>5 DEF Waiting, Running
    <2> QED BY <1>1, <2>1 DEF Prompts!pvars, Waiting, Running, OnItsWay
<1>6. CASE st[m] \in OnItsWay /\ st'[m] \in {"dropped", "lost"} /\ to[m] \in Session
    <2>1. m \in Waiting /\ Waiting' = Waiting \ {m} /\ Running' = Running
        BY <1>1, <1>2, <1>6 DEF Waiting, Running, OnItsWay
    <2> QED BY <1>1, <2>1 DEF Prompts!Lose, Waiting, Running, OnItsWay
<1>7. CASE st[m] = "running" /\ st'[m] = "done"
    <2>1. m \in Running /\ Running' = Running \ {m} /\ Waiting' = Waiting
        BY <1>1, <1>2, <1>7 DEF Waiting, Running, OnItsWay
    <2> QED BY <1>1, <2>1 DEF Prompts!End, Waiting, Running, OnItsWay
<1>8. CASE st[m] = "lane" /\ st'[m] = "running"
    <2>1. to[m] \in Session
        BY <1>0, <1>8 DEF PromptInv
    <2>2. /\ m \in Waiting /\ Waiting' = Waiting \ {m} /\ Running' = Running \cup {m}
        BY <1>1, <1>2, <1>8, <2>1 DEF Waiting, Running, OnItsWay
    <2>3. ASSUME NEW n \in Waiting, to[n] = to[m] PROVE m <= n
        <3>1. n \in Msg /\ st[n] \in OnItsWay
            BY <2>3 DEF Waiting
        <3>2. m \in Nat /\ n \in Nat /\ lastRead \in Nat
            BY <1>0, <3>1 DEF Msg, TypeOK
        <3>3. CASE st[n] = "lane"
            BY <1>8, <2>3, <3>1, <3>3 DEF OnlyChange, Change
        <3>4. CASE st[n] \in {"queued", "handling"}
            BY <1>0, <1>8, <3>1, <3>2, <3>4 DEF OrderInv
        <3>5. CASE st[n] = "offered"
            <4>1. n = lastRead /\ ~(m > lastRead)
                BY <1>0, <1>8, <3>1, <3>5 DEF ReadInv
            <4> QED BY <3>2, <4>1
        <3> QED BY <3>1, <3>3, <3>4, <3>5 DEF OnItsWay
    <2>4. ASSUME NEW n \in Running, to[n] = to[m] PROVE FALSE
        <3>1. n \in Msg /\ n # m /\ st'[n] = "running" /\ st'[m] = "running" /\ to'[n] = to'[m]
            BY <1>1, <1>2, <1>8, <2>4 DEF Running
        <3>2. PICK l \in Lane : m \in busy'[l] /\ n \in busy'[l]
            BY <1>3, <3>1 DEF PromptInv, TypeOK
        <3>3. OneGoroutine(l)'
            BY <1>3, <3>2 DEF LaneInv, Staffed, Vacant
        <3> QED BY <3>1, <3>2, <3>3 DEF OneGoroutine
    <2> QED BY <1>1, <2>2, <2>3, <2>4 DEF Prompts!Begin, Waiting, Running, OnItsWay
<1> QED BY <1>4, <1>5, <1>6, <1>7, <1>8, InboundAssumption DEF OnlyChange, Change, OnItsWay

\* readLoop, messageWorker and the lanes together do to the prompts what
\* SessionPrompts allows: a lost prompt aside, one at a time and in order.
THEOREM InboundImplements == Spec => ImplementsSessionPrompts
<1>1. ASSUME IInv, Next PROVE [Prompts!NextPrompts]_(Prompts!pvars)
    <2>1. CASE ReadMessage
        BY <1>1, <2>1, ReadImplements DEF Prompts!NextPrompts
    <2>2. CASE ~ReadMessage /\ \E m \in Msg : OnlyChange(m)
        BY <1>1, <2>2, ChangeImplements DEF Prompts!NextPrompts
    <2>3. CASE ~ReadMessage /\ st' = st
        BY <1>1, <2>3, LastReadStep, StageStep DEF Prompts!pvars
    <2> QED BY <1>1, <2>1, <2>2, <2>3, StageStep
<1>2. ASSUME UNCHANGED vars PROVE UNCHANGED Prompts!pvars
    BY <1>2 DEF vars, Prompts!pvars
<1>3. IInv /\ [Next]_vars => [Prompts!NextPrompts]_(Prompts!pvars)
    BY <1>1, <1>2
<1> QED BY <1>3, InitImplements, IInvHolds, PTL DEF Spec, ImplementsSessionPrompts, Prompts!PromptSpec

=============================================================================
