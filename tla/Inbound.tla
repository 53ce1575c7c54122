------------------------------ MODULE Inbound -------------------------------
(***************************************************************************)
(* Messages from the server on their way to a handler: readLoop puts each  *)
(* one into the bounded messageQueue, one messageWorker takes them out and *)
(* handles them, except that a prompt (session:send, chat:send) is handed  *)
(* to the lane of its session, where a goroutine runs the prompts of that  *)
(* session one by one (internal/bridge/bridge.go, prompt_lane.go).         *)
(*                                                                         *)
(* A message is its number in the order in which readLoop reads it, and    *)
(* st[m] is how far it got.                                                *)
(***************************************************************************)
EXTENDS Naturals, Sequences, FiniteSets

CONSTANTS
    Session,    \* session ids a prompt may carry
    Worker,     \* "not a prompt": handled by the messageWorker itself
    Lane,       \* promptLane objects
    NoLane,     \* no entry in b.promptLanes
    MsgCount,   \* bound: messages read in a behaviour
    QueueCap    \* capacity of messageQueue (100)

ASSUME InboundAssumption ==
    /\ Worker \notin Session /\ NoLane \notin Lane
    /\ MsgCount \in Nat /\ QueueCap \in Nat \ {0}

Msg == 1..MsgCount

Stage == {"unread", "offered", "queued", "handling", "lane", "running",
          "done", "dropped", "lost"}

VARIABLES
    to,        \* to[m]: the session whose prompt m is, or Worker
    st,        \* st[m]: how far message m got
    lastRead,  \* messages readLoop has read
    reader,    \* readLoop: reading, or at which select of the enqueue
    queue,     \* b.messageQueue
    worker,    \* messageWorker: in its select, handling, restarting, gone
    lanes,     \* b.promptLanes
    owner,     \* owner[l]: the session lane l was made for, Worker if none yet
    pending,   \* pending[l]: lane.pending
    active,    \* active[l]: lane.running
    loops,     \* goroutines of lane l at the head of drainPromptLane
    busy,      \* busy[l]: prompts that goroutines of lane l are running
    done       \* b.done is closed

lanevars == <<lanes, owner, pending, active, loops, busy>>
vars == <<to, st, lastRead, reader, queue, worker, lanevars, done>>

Move(m, stage) == st' = [st EXCEPT ![m] = stage]

InSeq(m, q) == \E i \in DOMAIN q : q[i] = m

-----------------------------------------------------------------------------
(* readLoop: a message that does not fit replaces the oldest queued one.    *)

ReadMessage ==
    /\ reader = "reading" /\ lastRead < MsgCount
    /\ lastRead' = lastRead + 1
    /\ Move(lastRead + 1, "offered")
    /\ reader' = "offer"
    /\ UNCHANGED <<to, queue, worker, lanevars, done>>

\* Mutant: one element more than the channel holds.
OneTooMany == Len(queue) <= QueueCap

HasRoom == Len(queue) < QueueCap

Offer ==
    /\ reader = "offer" /\ HasRoom
    /\ queue' = Append(queue, lastRead)
    /\ Move(lastRead, "queued")
    /\ reader' = "reading"
    /\ UNCHANGED <<to, lastRead, worker, lanevars, done>>

OfferFull ==
    /\ reader = "offer" /\ ~HasRoom /\ ~done
    /\ reader' = "drain"
    /\ UNCHANGED <<to, st, lastRead, queue, worker, lanevars, done>>

\* The worker may have taken a message since the queue was seen full: the
\* next one is dropped all the same.
DrainOldest ==
    /\ reader = "drain" /\ queue # <<>>
    /\ queue' = Tail(queue)
    /\ Move(Head(queue), "dropped")
    /\ reader' = "retry"
    /\ UNCHANGED <<to, lastRead, worker, lanevars, done>>

DrainNothing ==
    /\ reader = "drain" /\ queue = <<>>
    /\ reader' = "retry"
    /\ UNCHANGED <<to, st, lastRead, queue, worker, lanevars, done>>

Retry ==
    /\ reader = "retry"
    /\ IF HasRoom
         THEN queue' = Append(queue, lastRead) /\ Move(lastRead, "queued")
         ELSE ~done /\ Move(lastRead, "dropped") /\ UNCHANGED queue
    /\ reader' = "reading"
    /\ UNCHANGED <<to, lastRead, worker, lanevars, done>>

\* Both selects may see b.done instead; the message is lost with the bridge.
ReaderReturns ==
    /\ reader \in {"offer", "retry"} /\ done
    /\ Move(lastRead, "lost")
    /\ reader' = "returned"
    /\ UNCHANGED <<to, lastRead, queue, worker, lanevars, done>>

-----------------------------------------------------------------------------
(* messageWorker and handleMessage.                                         *)

Take ==
    /\ worker = "idle" /\ queue # <<>>
    /\ queue' = Tail(queue)
    /\ Move(Head(queue), "handling")
    /\ worker' = "handling"
    /\ UNCHANGED <<to, lastRead, reader, lanevars, done>>

Handle(m) ==
    /\ st[m] = "handling" /\ to[m] = Worker
    /\ Move(m, "done")
    /\ worker' = "idle"
    /\ UNCHANGED <<to, lastRead, reader, queue, lanevars, done>>

\* A handler panics: the worker ends after the deferred restart is arranged.
Panic(m) ==
    /\ st[m] = "handling" /\ to[m] = Worker
    /\ Move(m, "done")
    /\ worker' = "restarting"
    /\ UNCHANGED <<to, lastRead, reader, queue, lanevars, done>>

Restart ==
    /\ worker = "restarting"
    /\ worker' = "idle"
    /\ UNCHANGED <<to, st, lastRead, reader, queue, lanevars, done>>

WorkerStops ==
    /\ worker = "idle" /\ done
    /\ worker' = "stopped"
    /\ UNCHANGED <<to, st, lastRead, reader, queue, lanevars, done>>

-----------------------------------------------------------------------------
(* Prompt lanes: the critical sections of promptLanesMu.                    *)

FreeLane(l) ==
    /\ \A s \in Session : lanes[s] # l
    /\ loops[l] = 0 /\ busy[l] = {}

\* Mutant: every prompt starts a goroutine.
JoinAlwaysStarts(l, m) ==
    /\ pending' = [pending EXCEPT ![l] = Append(@, m)]
    /\ active' = [active EXCEPT ![l] = TRUE]
    /\ loops' = [loops EXCEPT ![l] = @ + 1]
    /\ UNCHANGED <<lanes, owner>>

\* The lane of the session is there: append, start a goroutine if none runs.
Join(l, m) ==
    /\ pending' = [pending EXCEPT ![l] = Append(@, m)]
    /\ active' = [active EXCEPT ![l] = TRUE]
    /\ loops' = [loops EXCEPT ![l] = IF active[l] THEN @ ELSE @ + 1]
    /\ UNCHANGED <<lanes, owner>>

Open(l, m) ==
    /\ FreeLane(l)
    /\ lanes' = [lanes EXCEPT ![to[m]] = l]
    /\ owner' = [owner EXCEPT ![l] = to[m]]
    /\ pending' = [pending EXCEPT ![l] = <<m>>]
    /\ active' = [active EXCEPT ![l] = TRUE]
    /\ loops' = [loops EXCEPT ![l] = 1]

EnqueuePrompt(m) ==
    /\ st[m] = "handling" /\ to[m] \in Session
    /\ IF lanes[to[m]] # NoLane
         THEN Join(lanes[to[m]], m)
         ELSE \E l \in Lane : Open(l, m)
    /\ Move(m, "lane")
    /\ worker' = "idle"
    /\ UNCHANGED <<to, lastRead, reader, queue, busy, done>>

\* Mutant: the newest prompt is run first.
RunNewest(l) ==
    /\ loops[l] > 0 /\ pending[l] # <<>>
    /\ Move(pending[l][Len(pending[l])], "running")
    /\ busy' = [busy EXCEPT ![l] = @ \cup {pending[l][Len(pending[l])]}]
    /\ pending' = [pending EXCEPT ![l] = SubSeq(@, 1, Len(@) - 1)]
    /\ loops' = [loops EXCEPT ![l] = @ - 1]
    /\ UNCHANGED <<to, lastRead, reader, queue, worker, lanes, owner, active, done>>

Run(l) ==
    /\ loops[l] > 0 /\ pending[l] # <<>>
    /\ Move(Head(pending[l]), "running")
    /\ busy' = [busy EXCEPT ![l] = @ \cup {Head(pending[l])}]
    /\ pending' = [pending EXCEPT ![l] = Tail(@)]
    /\ loops' = [loops EXCEPT ![l] = @ - 1]
    /\ UNCHANGED <<to, lastRead, reader, queue, worker, lanes, owner, active, done>>

\* Mutant: a prompt handler that panics takes the goroutine with it.
ReturnPanics(l, m) ==
    /\ m \in busy[l]
    /\ Move(m, "done")
    /\ busy' = [busy EXCEPT ![l] = @ \ {m}]
    /\ UNCHANGED <<to, lastRead, reader, queue, worker, lanes, owner, pending,
                   active, loops, done>>

\* The handler returns or panics; runPromptJob recovers, the loop goes on.
Return(l, m) ==
    /\ m \in busy[l]
    /\ Move(m, "done")
    /\ busy' = [busy EXCEPT ![l] = @ \ {m}]
    /\ loops' = [loops EXCEPT ![l] = @ + 1]
    /\ UNCHANGED <<to, lastRead, reader, queue, worker, lanes, owner, pending,
                   active, done>>

Retire(l) ==
    /\ loops[l] > 0 /\ pending[l] = <<>>
    /\ active' = [active EXCEPT ![l] = FALSE]
    /\ lanes' = [lanes EXCEPT ![owner[l]] = NoLane]
    /\ loops' = [loops EXCEPT ![l] = @ - 1]
    /\ UNCHANGED <<to, st, lastRead, reader, queue, worker, owner, pending,
                   busy, done>>

Stop ==
    /\ ~done
    /\ done' = TRUE
    /\ UNCHANGED <<to, st, lastRead, reader, queue, worker, lanevars>>

-----------------------------------------------------------------------------

Init ==
    /\ to \in [Msg -> Session \cup {Worker}]
    /\ st = [m \in Msg |-> "unread"]
    /\ lastRead = 0 /\ reader = "reading"
    /\ queue = <<>> /\ worker = "idle"
    /\ lanes = [s \in Session |-> NoLane]
    /\ owner = [l \in Lane |-> Worker]
    /\ pending = [l \in Lane |-> <<>>]
    /\ active = [l \in Lane |-> FALSE]
    /\ loops = [l \in Lane |-> 0]
    /\ busy = [l \in Lane |-> {}]
    /\ done = FALSE

Enqueue == Offer \/ OfferFull \/ DrainOldest \/ DrainNothing \/ Retry \/ ReaderReturns

WorkerStep ==
    \/ Take \/ Restart \/ WorkerStops
    \/ \E m \in Msg : Handle(m) \/ Panic(m) \/ EnqueuePrompt(m)

LaneStep == \E l \in Lane : Run(l) \/ Retire(l) \/ \E m \in Msg : Return(l, m)

Next == ReadMessage \/ Enqueue \/ WorkerStep \/ LaneStep \/ Stop

Spec == Init /\ [][Next]_vars

\* The goroutines run.  Nothing is assumed of Return: a prompt handler waits
\* for the engine, and may wait for ever.
Fairness ==
    /\ WF_vars(Enqueue)
    /\ WF_vars(WorkerStep)
    /\ \A l \in Lane : WF_vars(Run(l))

FairSpec == Spec /\ Fairness

-----------------------------------------------------------------------------
(* Properties. *)

TypeOK ==
    /\ to \in [Msg -> Session \cup {Worker}]
    /\ st \in [Msg -> Stage]
    /\ lastRead \in 0..MsgCount
    /\ reader \in {"reading", "offer", "drain", "retry", "returned"}
    /\ queue \in Seq(Msg) /\ Len(queue) <= QueueCap
    /\ worker \in {"idle", "handling", "restarting", "stopped"}
    /\ lanes \in [Session -> Lane \cup {NoLane}]
    /\ owner \in [Lane -> Session \cup {Worker}]
    /\ pending \in [Lane -> Seq(Msg)]
    /\ active \in [Lane -> BOOLEAN]
    /\ loops \in [Lane -> Nat]
    /\ busy \in [Lane -> SUBSET Msg]
    /\ done \in BOOLEAN

\* "Prompts of one session keep their arrival order": once a prompt has been
\* started, no earlier prompt of its session is still on its way.
PromptOrder ==
    \A m, n \in Msg :
        /\ m < n /\ to[m] = to[n] /\ to[m] \in Session
        /\ st[n] \in {"running", "done"}
        => st[m] \in {"running", "done", "dropped"}

\* A session's prompts are handled one at a time: the engine never gets two
\* turns at once, although lanes come and go with their goroutines.
OneAtATime ==
    \A m, n \in Msg :
        st[m] = "running" /\ st[n] = "running" /\ to[m] = to[n] => m = n

\* No lost wakeup between enqueuePrompt and a goroutine about to retire: a
\* lane with pending prompts is its session's lane and has one goroutine.
NoStrandedPrompt ==
    \A l \in Lane : pending[l] # <<>> =>
        /\ lanes[owner[l]] = l
        /\ \/ loops[l] = 1 /\ busy[l] = {}
           \/ loops[l] = 0 /\ Cardinality(busy[l]) = 1

\* A full queue loses its oldest messages: the message read last is never
\* dropped, and no dropped one is newer than a queued one.
DropsOldest ==
    \A m \in Msg : st[m] = "dropped" =>
        /\ m # lastRead
        /\ \A n \in Msg : st[n] = "queued" => m < n

\* "Nothing else waits on them": a message for the worker that was queued is
\* handled, or displaced, even if no prompt handler ever returns.
WorkerNeverBlocked ==
    \A m \in Msg : st[m] = "queued" ~> st[m] \in {"lane", "running", "done", "dropped"} \/ done

\* A prompt in a lane is started if the handlers of its session keep
\* returning, whatever the handlers of other sessions do.
PromptStarts ==
    \A m \in Msg :
        ([]<>(\A n \in Msg : st[n] = "running" => to[n] # to[m]))
        => (st[m] = "lane" ~> st[m] \in {"running", "done"})

\* Every message is handled: those of the worker, and those in the lanes.
MessagesAreHandled == WorkerNeverBlocked /\ PromptStarts

\* The path implements SessionPrompts: a prompt waits from the moment it is
\* read until its handler is started or it is dropped.
Prompts == INSTANCE SessionPrompts WITH
    Prompt <- Msg,
    addressee <- to,
    arrived <- 1..lastRead,
    waiting <- {m \in Msg : to[m] \in Session
                            /\ st[m] \in {"offered", "queued", "handling", "lane"}},
    running <- {m \in Msg : st[m] = "running"}

ImplementsSessionPrompts == Prompts!PromptSpec

=============================================================================
