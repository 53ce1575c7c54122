------------------------------- MODULE Uplink -------------------------------
(***************************************************************************)
(* The WebSocket to the server: the one goroutine that dials and reads     *)
(* (readLoop), the heartbeat goroutines that may tear the connection down, *)
(* every goroutine that sends a message, and the offline buffer between    *)
(* them (internal/bridge/bridge.go, instance_conflict.go,                  *)
(* internal/reconnect/strategy.go).                                        *)
(*                                                                         *)
(* A connection is named by a member of Conn and its name is used again    *)
(* once the socket is closed.  Time is one action: the reconnect budget of *)
(* ten minutes may be spent at any moment after it was last reset.         *)
(***************************************************************************)
EXTENDS Naturals, Sequences, FiniteSets

CONSTANTS
    Conn,             \* names of WebSocket connections
    NoConn,           \* b.conn == nil
    MsgCount,         \* bound: messages sent in a behaviour
    OfflineMax,       \* offlineMaxMessages
    ConflictRetries,  \* maxInstanceConflictRetries
    FailLimit,        \* heartbeat failures that trigger a reconnect
    ReadLoop,         \* the readLoop goroutine
    Beat              \* the heartbeat goroutine and its updateLastSeen calls

ASSUME UplinkAssumption ==
    /\ NoConn \notin Conn /\ ReadLoop \notin Beat
    /\ MsgCount \in Nat
    /\ OfflineMax \in Nat /\ OfflineMax >= 2
    /\ ConflictRetries \in Nat /\ FailLimit \in Nat \ {0}

\* Messages are numbered in the order in which they enter sendMessage.
Msg == 1..MsgCount
Reconnector == {ReadLoop} \cup Beat

LinkState == {"open", "broken", "closed"}
ReadLoopPc == {"top", "dial", "welcome", "flush", "notify", "read", "reading",
               "standby", "returned", "panic"}
ReconnectPc == {"drop", "reset"}

VARIABLES
    conn,       \* b.conn
    link,       \* link[c]: the socket; "broken" means the peer is gone
    pc,         \* control point of readLoop and of each heartbeat goroutine
    reading,    \* the connection readLoop reads from
    flushing,   \* what flushOffline took from the buffer and has not sent
    conflicts,  \* b.conflictCount
    standby,    \* b.standby
    slow,       \* b.slowRetry
    budget,     \* the reconnect time budget: "fresh" or "spent"
    hbFail,     \* b.heartbeatFailures
    st,         \* st[m]: how far the sender of m is
    offline,    \* b.offlineBuf
    sent,       \* ghost: how often m was written to a socket
    evicted,    \* ghost: messages pushed out of the full buffer or too old
    abandoned,  \* ghost: messages a failed flush did not put back
    outage      \* ghost: the disconnect reset the budget / was a conflict

msgvars == <<st, offline, sent, evicted, abandoned, flushing>>
vars == <<conn, link, pc, reading, conflicts, standby, slow, budget,
          hbFail, outage, msgvars>>

InSeq(m, q) == \E i \in DOMAIN q : q[i] = m

Goto(r, p) == pc' = [pc EXCEPT ![r] = p]

-----------------------------------------------------------------------------
(* Writing: the connMu section of sendMessage.  A write to a connection     *)
(* whose peer is gone may still succeed into the socket's buffer.           *)

Written == conn # NoConn /\ link[conn] # "closed" /\ UNCHANGED <<conn, link>>

\* Mutant: a failed write forgets the connection but does not close it.
WriteFailedLeaks ==
    /\ conn # NoConn /\ link[conn] # "open"
    /\ conn' = NoConn
    /\ UNCHANGED link

WriteFailed ==
    /\ conn # NoConn /\ link[conn] # "open"
    /\ link' = [link EXCEPT ![conn] = "closed"]
    /\ conn' = NoConn

\* bufferOffline: a full buffer gives up its oldest half first.
Pushed(m) ==
    IF Len(offline) >= OfflineMax
    THEN Append(SubSeq(offline, OfflineMax \div 2 + 1, Len(offline)), m)
    ELSE Append(offline, m)

Lost(q) == {m \in Msg : InSeq(m, offline) /\ ~InSeq(m, q)}

-----------------------------------------------------------------------------
(* sendMessage, on any goroutine. *)

\* A type in noBufferTypes is skipped when there is no connection.
SendMessage(m) ==
    /\ st[m] = "new" /\ \A k \in 1..(m - 1) : st[k] # "new"
    /\ \/ /\ Written
          /\ sent' = [sent EXCEPT ![m] = @ + 1]
          /\ st' = [st EXCEPT ![m] = "returned"]
          /\ UNCHANGED outage
       \/ /\ WriteFailed
          /\ st' = [st EXCEPT ![m] = "returned"]
          /\ outage' = [fresh |-> FALSE, conflict |-> FALSE]
          /\ UNCHANGED sent
       \/ /\ conn = NoConn
          /\ \E s \in {"returned", "holding"} : st' = [st EXCEPT ![m] = s]
          /\ UNCHANGED <<conn, link, sent, outage>>
    /\ UNCHANGED <<pc, reading, conflicts, standby, slow, budget, hbFail,
                   offline, evicted, abandoned, flushing>>

\* The buffer has its own lock: readLoop may connect and flush between the
\* nil check and the append.
BufferOffline(m) ==
    /\ st[m] = "holding"
    /\ st' = [st EXCEPT ![m] = "kept"]
    /\ offline' = Pushed(m)
    /\ evicted' = evicted \cup Lost(offline')
    /\ UNCHANGED <<conn, link, pc, reading, conflicts, standby, slow,
                   budget, hbFail, outage, sent, abandoned,
                   flushing>>

-----------------------------------------------------------------------------
(* readLoop. *)

\* Mutant: with the budget spent, readLoop returns.
TopGivesUp ==
    /\ pc[ReadLoop] = "top"
    /\ IF conn # NoConn
       THEN Goto(ReadLoop, "read") /\ UNCHANGED slow
       ELSE /\ Goto(ReadLoop, IF budget = "spent" THEN "gone" ELSE "dial")
            /\ UNCHANGED slow
    /\ UNCHANGED <<conn, link, reading, conflicts, standby, budget,
                   hbFail, outage, msgvars>>

\* With no connection it dials; a spent budget is announced once and then
\* paces the attempts, it never stops them (known issue #22).
Top ==
    /\ pc[ReadLoop] = "top"
    /\ IF conn # NoConn
       THEN Goto(ReadLoop, "read") /\ UNCHANGED slow
       ELSE Goto(ReadLoop, "dial") /\ slow' = (slow \/ budget = "spent")
    /\ UNCHANGED <<conn, link, reading, conflicts, standby, budget,
                   hbFail, outage, msgvars>>

DialFails ==
    /\ pc[ReadLoop] = "dial"
    /\ Goto(ReadLoop, "top")
    /\ UNCHANGED <<conn, link, reading, conflicts, standby, slow, budget,
                   hbFail, outage, msgvars>>

Dial(c) ==
    /\ pc[ReadLoop] = "dial"
    /\ link[c] = "closed"
    /\ link' = [link EXCEPT ![c] = "open"]
    /\ conn' = c
    /\ hbFail' = 0
    /\ Goto(ReadLoop, "welcome")
    /\ UNCHANGED <<reading, conflicts, standby, slow, budget,
                   outage, msgvars>>

\* Strategy.Reset, exitSlowRetry, and the buffer taken as a whole.
Welcome ==
    /\ pc[ReadLoop] = "welcome"
    /\ budget' = "fresh" /\ slow' = FALSE
    /\ outage' = [fresh |-> TRUE, conflict |-> FALSE]
    /\ flushing' = offline /\ offline' = <<>>
    /\ Goto(ReadLoop, "flush")
    /\ UNCHANGED <<conn, link, reading, conflicts, standby, hbFail,
                   st, sent, evicted, abandoned>>

\* Mutant: the message in hand is sent again with the next flush as well.
FlushOneKeeps ==
    /\ pc[ReadLoop] = "flush" /\ flushing # <<>>
    /\ Written
    /\ sent' = [sent EXCEPT ![Head(flushing)] = @ + 1]
    /\ flushing' = Tail(flushing)
    /\ offline' = Append(offline, Head(flushing))
    /\ UNCHANGED <<pc, reading, conflicts, standby, slow, budget, hbFail,
                   outage, st, evicted, abandoned>>

\* One message of the flush is written ...
FlushOne ==
    /\ pc[ReadLoop] = "flush" /\ flushing # <<>>
    /\ Written
    /\ sent' = [sent EXCEPT ![Head(flushing)] = @ + 1]
    /\ flushing' = Tail(flushing)
    /\ UNCHANGED <<pc, reading, conflicts, standby, slow, budget, hbFail,
                   outage, st, offline, evicted, abandoned>>

\* ... or finds the connection gone and is buffered again, unless it is by
\* now older than sixty seconds ...
FlushBack ==
    /\ pc[ReadLoop] = "flush" /\ flushing # <<>>
    /\ conn = NoConn
    /\ flushing' = Tail(flushing)
    /\ \/ offline' = Pushed(Head(flushing)) /\ evicted' = evicted \cup Lost(offline')
       \/ UNCHANGED offline /\ evicted' = evicted \cup {Head(flushing)}
    /\ UNCHANGED <<conn, link, pc, reading, conflicts, standby, slow,
                   budget, hbFail, outage, st, sent,
                   abandoned>>

\* ... or fails: it goes back to the buffer and the flush returns without the
\* messages behind it.
FlushFails ==
    /\ pc[ReadLoop] = "flush" /\ flushing # <<>>
    /\ WriteFailed
    /\ outage' = [fresh |-> FALSE, conflict |-> FALSE]
    /\ offline' = Append(offline, Head(flushing))
    /\ abandoned' = abandoned \cup {m \in Msg : InSeq(m, Tail(flushing))}
    /\ flushing' = <<>>
    /\ UNCHANGED <<pc, reading, conflicts, standby, slow, budget, hbFail,
                   st, sent, evicted>>

\* Mutant: the buffer is emptied when the flush is done, not when it starts.
FlushEndClears ==
    /\ pc[ReadLoop] = "flush" /\ flushing = <<>>
    /\ Goto(ReadLoop, "notify")
    /\ offline' = <<>>
    /\ UNCHANGED <<conn, link, reading, conflicts, standby, slow, budget,
                   hbFail, outage, st, sent, evicted,
                   abandoned, flushing>>

FlushEnd ==
    /\ pc[ReadLoop] = "flush" /\ flushing = <<>>
    /\ Goto(ReadLoop, "notify")
    /\ UNCHANGED <<conn, link, reading, conflicts, standby, slow, budget,
                   hbFail, outage, msgvars>>

\* notifyStaleSessionsStopped: what it sends is never buffered; any of its
\* writes may be the one that fails.
Notify ==
    /\ pc[ReadLoop] = "notify"
    /\ \/ UNCHANGED <<conn, link, outage>>
       \/ WriteFailed /\ outage' = [fresh |-> FALSE, conflict |-> FALSE]
    /\ Goto(ReadLoop, "read")
    /\ UNCHANGED <<reading, conflicts, standby, slow, budget, hbFail, msgvars>>

\* b.conn.ReadMessage(): a write that failed since the check above has left
\* b.conn nil, and the call on it takes the process down.
Read ==
    /\ pc[ReadLoop] = "read"
    /\ IF conn = NoConn
       THEN Goto(ReadLoop, "panic") /\ UNCHANGED reading
       ELSE Goto(ReadLoop, "reading") /\ reading' = conn
    /\ UNCHANGED <<conn, link, conflicts, standby, slow, budget, hbFail,
                   outage, msgvars>>

\* A frame arrives (what becomes of it is the subject of module Inbound).
Frame ==
    /\ pc[ReadLoop] = "reading" /\ link[reading] = "open"
    /\ conflicts' = 0
    /\ Goto(ReadLoop, "top")
    /\ UNCHANGED <<conn, link, reading, standby, slow, budget, hbFail,
                   outage, msgvars>>

\* A read error that is neither a conflict nor permanent: reconnect().
ReadFails ==
    /\ pc[ReadLoop] = "reading" /\ link[reading] # "open"
    /\ Goto(ReadLoop, "drop")
    /\ UNCHANGED <<conn, link, reading, conflicts, standby, slow, budget,
                   hbFail, outage, msgvars>>

\* Mutant: one retry too many.
ReadConflictLate ==
    /\ pc[ReadLoop] = "reading" /\ link[reading] = "broken"
    /\ link' = [link EXCEPT ![reading] = "closed"]
    /\ conn' = NoConn
    /\ outage' = [fresh |-> FALSE, conflict |-> TRUE]
    /\ IF conflicts <= ConflictRetries
       THEN /\ conflicts' = conflicts + 1
            /\ Goto(ReadLoop, "top")
            /\ UNCHANGED standby
       ELSE /\ standby' = TRUE
            /\ Goto(ReadLoop, "standby")
            /\ UNCHANGED conflicts
    /\ UNCHANGED <<reading, slow, budget, hbFail, msgvars>>

\* Close code 4009, onInstanceConflict: some retries, then standby.
ReadConflict ==
    /\ pc[ReadLoop] = "reading" /\ link[reading] = "broken"
    /\ link' = [link EXCEPT ![reading] = "closed"]
    /\ conn' = NoConn
    /\ outage' = [fresh |-> FALSE, conflict |-> TRUE]
    /\ IF conflicts < ConflictRetries
       THEN /\ conflicts' = conflicts + 1
            /\ Goto(ReadLoop, "top")
            /\ UNCHANGED standby
       ELSE /\ standby' = TRUE
            /\ Goto(ReadLoop, "standby")
            /\ UNCHANGED conflicts
    /\ UNCHANGED <<reading, slow, budget, hbFail, msgvars>>

\* Close codes 1002, 1008, 4001, 4003: readLoop returns.
ReadPermanent ==
    /\ pc[ReadLoop] = "reading" /\ link[reading] = "broken"
    /\ Goto(ReadLoop, "returned")
    /\ UNCHANGED <<conn, link, reading, conflicts, standby, slow, budget,
                   hbFail, outage, msgvars>>

-----------------------------------------------------------------------------
(* reconnect(), called by readLoop and by the heartbeat goroutines. *)

DropConn(r) ==
    /\ pc[r] = "drop"
    /\ IF conn = NoConn
       THEN UNCHANGED <<conn, link, outage>>
       ELSE /\ link' = [link EXCEPT ![conn] = "closed"]
            /\ conn' = NoConn
            /\ outage' = [fresh |-> FALSE, conflict |-> FALSE]
    /\ Goto(r, "reset")
    /\ UNCHANGED <<reading, conflicts, standby, slow, budget, hbFail,
                   msgvars>>

\* The dead sessions are dropped in between (see module TaskPool).
ResetBudget(r) ==
    /\ pc[r] = "reset"
    /\ budget' = "fresh"
    /\ outage' = [outage EXCEPT !.fresh = TRUE]
    /\ Goto(r, IF r = ReadLoop THEN "top" ELSE "idle")
    /\ UNCHANGED <<conn, link, reading, conflicts, standby, slow, hbFail,
                   msgvars>>

Reconnect(r) == DropConn(r) \/ ResetBudget(r)

-----------------------------------------------------------------------------
(* The heartbeat ticker and the updateLastSeen calls it starts. *)

\* A gap between two ticks, the machine was asleep: a fresh budget, and at
\* once reconnect().
Suspended(b) ==
    /\ pc[b] = "idle" /\ ~standby
    /\ budget' = "fresh"
    /\ IF conn = NoConn
       THEN UNCHANGED <<conn, link, outage>>
       ELSE /\ link' = [link EXCEPT ![conn] = "closed"]
            /\ conn' = NoConn
            /\ outage' = [fresh |-> TRUE, conflict |-> FALSE]
    /\ Goto(b, "reset")
    /\ UNCHANGED <<reading, conflicts, standby, slow, hbFail, msgvars>>

BeatStart(b) ==
    /\ pc[b] = "idle" /\ ~standby /\ conn # NoConn
    /\ Goto(b, "posting")
    /\ UNCHANGED <<conn, link, reading, conflicts, standby, slow, budget,
                   hbFail, outage, msgvars>>

BeatOk(b) ==
    /\ pc[b] = "posting"
    /\ hbFail' = 0
    /\ Goto(b, "idle")
    /\ UNCHANGED <<conn, link, reading, conflicts, standby, slow, budget,
                   outage, msgvars>>

\* heartbeatFailures is not synchronised: an increment may be lost.
BeatFails(b) ==
    /\ pc[b] = "posting"
    /\ hbFail' \in {hbFail, hbFail + 1}
    /\ Goto(b, IF hbFail' >= FailLimit THEN "drop" ELSE "idle")
    /\ UNCHANGED <<conn, link, reading, conflicts, standby, slow, budget,
                   outage, msgvars>>

-----------------------------------------------------------------------------
(* The environment. *)

Break(c) ==
    /\ link[c] = "open"
    /\ link' = [link EXCEPT ![c] = "broken"]
    /\ UNCHANGED <<conn, pc, reading, conflicts, standby, slow, budget,
                   hbFail, outage, msgvars>>

BudgetRunsOut ==
    /\ budget = "fresh"
    /\ budget' = "spent"
    /\ UNCHANGED <<conn, link, pc, reading, conflicts, standby, slow,
                   hbFail, outage, msgvars>>

-----------------------------------------------------------------------------

\* Start has connected before it starts the goroutines.
Init ==
    /\ conn \in Conn
    /\ link = [c \in Conn |-> IF c = conn THEN "open" ELSE "closed"]
    /\ pc = [r \in Reconnector |-> IF r = ReadLoop THEN "top" ELSE "idle"]
    /\ reading = conn
    /\ flushing = <<>>
    /\ conflicts = 0 /\ standby = FALSE /\ slow = FALSE
    /\ budget = "fresh" /\ hbFail = 0
    /\ st = [m \in Msg |-> "new"]
    /\ offline = <<>>
    /\ sent = [m \in Msg |-> 0]
    /\ evicted = {} /\ abandoned = {}
    /\ outage = [fresh |-> TRUE, conflict |-> FALSE]

Running == pc[ReadLoop] # "panic"

ReadLoopStep ==
    \/ Top \/ DialFails \/ (\E c \in Conn : Dial(c)) \/ Welcome
    \/ FlushOne \/ FlushBack \/ FlushFails \/ FlushEnd
    \/ Notify \/ Read \/ Frame \/ ReadFails \/ ReadConflict \/ ReadPermanent
    \/ Reconnect(ReadLoop)

BeatStep(b) ==
    Suspended(b) \/ BeatStart(b) \/ BeatOk(b) \/ BeatFails(b) \/ Reconnect(b)

Next ==
    /\ Running
    /\ \/ ReadLoopStep
       \/ \E b \in Beat : BeatStep(b)
       \/ \E m \in Msg : SendMessage(m) \/ BufferOffline(m)
       \/ \E c \in Conn : Break(c)
       \/ BudgetRunsOut

Spec == Init /\ [][Next]_vars

\* readLoop and a heartbeat goroutine inside reconnect() are runnable Go code;
\* a server that stays reachable accepts a dial that is tried for ever.
Fairness ==
    /\ WF_vars(Running /\ ReadLoopStep)
    /\ SF_vars(Running /\ \E c \in Conn : Dial(c))
    /\ \A b \in Beat : WF_vars(Running /\ Reconnect(b))

FairSpec == Spec /\ Fairness

-----------------------------------------------------------------------------
(* Properties. *)

LinkTypes ==
    /\ conn \in Conn \cup {NoConn} /\ link \in [Conn -> LinkState] /\ reading \in Conn
    /\ pc \in [Reconnector -> ReadLoopPc \cup ReconnectPc \cup {"idle", "posting"}]
    /\ budget \in {"fresh", "spent"} /\ hbFail \in Nat /\ conflicts \in 0..ConflictRetries
StateFlags == standby \in BOOLEAN /\ slow \in BOOLEAN
OutageTypes == outage \in [fresh : BOOLEAN, conflict : BOOLEAN]
MessageTypes ==
    /\ flushing \in Seq(Msg) /\ offline \in Seq(Msg)
    /\ st \in [Msg -> {"new", "holding", "kept", "returned"}] /\ sent \in [Msg -> Nat]
    /\ evicted \subseteq Msg /\ abandoned \subseteq Msg

TypeOK == LinkTypes /\ StateFlags /\ OutageTypes /\ MessageTypes

\* A message is written to a socket at most once, and one that was written is
\* neither in the buffer nor in a flush: a flush that fails half way does not
\* put back what it sent (flushOffline).
AtMostOnce ==
    \A m \in Msg :
        /\ sent[m] <= 1
        /\ sent[m] = 1 => ~InSeq(m, offline) /\ ~InSeq(m, flushing)

\* A message sendMessage took charge of while the connection was down is in
\* the buffer, in the flush, or written; it disappears only when the buffer
\* overflows, when it is too old, or behind the failed write of a flush.
NoSilentLoss ==
    \A m \in Msg : st[m] = "kept" =>
        \/ InSeq(m, offline) \/ InSeq(m, flushing) \/ sent[m] = 1
        \/ m \in evicted \/ m \in abandoned

\* There is at most one live socket, b.conn: every path that lets go of a
\* connection closes it, so a readLoop blocked on an old one wakes up, and no
\* second socket keeps the machine's slot at the server.
OneConnection ==
    /\ \A c \in Conn : link[c] # "closed" => c = conn
    /\ pc[ReadLoop] = "reading" /\ link[reading] = "open" => conn = reading

\* Slow retry is entered only after the ten minutes of this outage: every
\* disconnect but a 4009 conflict passes through reconnect(), which gives the
\* outage a fresh budget.
FreshWindow == slow => outage.fresh \/ outage.conflict

\* readLoop has stopped for good, by design or by the nil dereference.
Stopped == pc[ReadLoop] \in {"standby", "returned", "panic"}

\* The bridge does not become a zombie (known issue #22): as long as readLoop
\* has not stopped, a lost connection is followed by a new one, with the
\* budget spent or not, and whatever the heartbeat goroutines tear down.
Recovers == conn = NoConn ~> conn # NoConn \/ Stopped

\* flushOffline: "Put remaining messages back into buffer".
FlushKeepsRemaining == abandoned = {}

=============================================================================
