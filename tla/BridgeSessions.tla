---------------------------- MODULE BridgeSessions ----------------------------
(***************************************************************************)
(* The bridge between its sessions' engines and the page                   *)
(* (internal/bridge/bridge.go): what an engine says goes through the       *)
(* session's output channel and worker to the uplink, text in batches; its *)
(* questions are registered, shown, re-sent after a reconnect or a resume, *)
(* and the user's answer is routed back by the id of the question alone.   *)
(*                                                                         *)
(* The handlers of the page's messages run one after another on the        *)
(* message worker; the output workers, the flush timer, the goroutines     *)
(* that stop a session or re-send its questions run beside them.           *)
(***************************************************************************)
EXTENDS Naturals, Sequences, Functions

CONSTANTS
    Session,
    Id,            \* ids of questions: counters of the engines, so shared by sessions
    NoSession,
    ChannelCap,    \* 256 in the code
    MaxEmits       \* bound: frames of all engines and restarts of sessions

ASSUME BridgeSessionsAssumption ==
    /\ NoSession \notin Session
    /\ ChannelCap \in Nat \ {0} /\ MaxEmits \in Nat

VARIABLES
    live,            \* sessions in the registry
    running,         \* sessions whose engine runs
    chan,            \* chan[s]: the channel in sessionDisp
    worker,          \* worker[s]: "none", "serving", or "leaving": it found the session gone
    stray,           \* stray[s]: what a worker that took its channel out still drains
    loose,           \* frames in goroutines of their own, for which the channel was full
    batch,           \* batchBuf[s]: text that waits for the flush
    sent,            \* sent[s]: text handed to the uplink
    ending,          \* goroutines that will stop a session whose engine exited
    permSessionMap,
    permPending,     \* questions to be re-sent
    open,            \* questions an engine waits on
    web,             \* questions the page shows
    resend,          \* sessions whose questions a goroutine is about to re-send
    link,            \* the WebSocket is up
    answer,          \* the answer handlePermissionResponse works on
    spent, said,     \* frames emitted; said[s]: chunks of text among them
    asked,           \* ghost: questions ever asked
    cut,             \* ghost: sessions stopped by the user: their unread text is dropped
    reordered        \* ghost: sessions whose frames left the channel's order

outVars   == <<chan, worker, stray, loose>>
textVars  == <<batch, sent>>
permVars  == <<permSessionMap, permPending>>
lifeVars  == <<live, running, ending>>
pageVars  == <<web, resend, link>>
countVars == <<spent, said, asked, cut>>
sessionVars == <<outVars, textVars, permVars, lifeVars, pageVars, countVars, open, answer, reordered>>

Text(n) == [kind |-> "text", what |-> n]
Ask(id) == [kind |-> "ask", what |-> id]
TurnIdle == [kind |-> "idle", what |-> 0]
Exit == [kind |-> "exit", what |-> 0]
NoAnswer == [asker |-> NoSession, id |-> 0, to |-> NoSession]
Of(s, questions) == {q \in questions : q[1] = s}

-----------------------------------------------------------------------------
(* Engines.                                                                 *)

\* dispatchSessionOutput: into the channel, or past it when it is full.
DispatchSessionOutput(s, f) ==
    /\ worker' = [worker EXCEPT ![s] = IF @ = "none" THEN "serving" ELSE @]
    /\ IF Len(chan[s]) < ChannelCap
         THEN chan' = [chan EXCEPT ![s] = Append(@, f)] /\ UNCHANGED loose
         ELSE loose' = loose \cup {<<s, f>>} /\ UNCHANGED chan
    /\ reordered' = IF Len(chan[s]) >= ChannelCap \/ (worker[s] = "none" /\ stray[s] # <<>>)
                    THEN reordered \cup {s} ELSE reordered
    /\ UNCHANGED stray

Emit(s, f) ==
    /\ s \in running /\ spent < MaxEmits
    /\ spent' = spent + 1
    /\ DispatchSessionOutput(s, f)
    /\ UNCHANGED <<textVars, permVars, live, ending, pageVars, cut, answer>>

EngineSays(s) ==
    /\ Emit(s, Text(said[s] + 1))
    /\ said' = [said EXCEPT ![s] = @ + 1]
    /\ UNCHANGED <<running, open, asked>>

EngineAsks(s, id) ==
    /\ <<s, id>> \notin asked
    /\ Emit(s, Ask(id))
    /\ open' = open \cup {<<s, id>>} /\ asked' = asked \cup {<<s, id>>}
    /\ UNCHANGED <<running, said>>

\* TURN_IDLE_TIMEOUT: the adapter's watchdog, which no open question holds up.
EngineIdles(s) ==
    /\ Of(s, open) = {}
    /\ Emit(s, TurnIdle)
    /\ UNCHANGED <<running, open, said, asked>>

EngineExits(s) ==
    /\ Emit(s, Exit)
    /\ running' = running \ {s} /\ open' = open \ Of(s, open)
    /\ UNCHANGED <<said, asked>>

-----------------------------------------------------------------------------
(* The output worker.                                                       *)

\* forgetSessionPermissions
ForgetSessionPermissions(s) ==
    /\ permPending' = permPending \ Of(s, permPending)
    /\ permSessionMap' = [id \in Id |-> IF <<s, id>> \in permPending /\ permSessionMap[id] = s
                                          THEN NoSession ELSE permSessionMap[id]]

\* Mutant: new text goes before what waits.
BatchContentFront(s, f) == batch' = [batch EXCEPT ![s] = <<f>> \o @]

\* batchContent
BatchContent(s, f) == batch' = [batch EXCEPT ![s] = Append(@, f)]

\* Mutant: a question that is not kept for later.
ShowPermission(s, id) ==
    /\ permSessionMap' = [permSessionMap EXCEPT ![id] = s]
    /\ web' = IF link THEN web \cup {<<s, id>>} ELSE web
    /\ UNCHANGED permPending

RegisterPermission(s, id) ==
    /\ permSessionMap' = [permSessionMap EXCEPT ![id] = s]
    /\ permPending' = permPending \cup {<<s, id>>}
    /\ web' = IF link THEN web \cup {<<s, id>>} ELSE web

\* forwardSessionOutput: nothing of a session that is gone; text is batched,
\* everything else leaves at once.
ForwardSessionOutput(s, f) ==
    /\ \/ /\ s \notin live
          /\ UNCHANGED <<batch, permVars, ending, web>>
       \/ /\ s \in live /\ f.kind = "text" /\ BatchContent(s, f)
          /\ UNCHANGED <<permVars, ending, web>>
       \/ /\ s \in live /\ f.kind = "ask" /\ RegisterPermission(s, f.what)
          /\ UNCHANGED <<batch, ending>>
       \/ /\ s \in live /\ f.kind = "idle" /\ ForgetSessionPermissions(s)
          /\ UNCHANGED <<batch, ending, web>>
       \/ /\ s \in live /\ f.kind = "exit" /\ ending' = ending \cup {s}
          /\ UNCHANGED <<batch, permVars, web>>
    /\ UNCHANGED <<sent, live, running, resend, link, countVars, open, answer, reordered>>

WorkerForwards(s) ==
    /\ worker[s] = "serving" /\ chan[s] # <<>>
    /\ chan' = [chan EXCEPT ![s] = Tail(@)]
    /\ ForwardSessionOutput(s, Head(chan[s]))
    /\ UNCHANGED <<worker, stray, loose>>

\* The worker finds its channel empty and its session gone ...
WorkerLeaves(s) ==
    /\ worker[s] = "serving" /\ chan[s] = <<>> /\ s \notin live
    /\ worker' = [worker EXCEPT ![s] = "leaving"]
    /\ UNCHANGED <<chan, stray, loose, textVars, permVars, lifeVars, pageVars, countVars, open, answer, reordered>>

\* Mutant: the worker does not drain.
WorkerRetiresAtOnce(s) ==
    /\ worker[s] = "leaving"
    /\ worker' = [worker EXCEPT ![s] = "none"] /\ chan' = [chan EXCEPT ![s] = <<>>]
    /\ UNCHANGED <<stray, loose, textVars, permVars, lifeVars, pageVars, countVars, open, answer, reordered>>

\* ... takes the channel out of the map, and drains what came in between.
WorkerRetires(s) ==
    /\ worker[s] = "leaving"
    /\ worker' = [worker EXCEPT ![s] = "none"]
    /\ stray' = [stray EXCEPT ![s] = @ \o chan[s]] /\ chan' = [chan EXCEPT ![s] = <<>>]
    /\ UNCHANGED <<loose, textVars, permVars, lifeVars, pageVars, countVars, open, answer, reordered>>

StrayForwards(s) ==
    /\ stray[s] # <<>>
    /\ stray' = [stray EXCEPT ![s] = Tail(@)]
    /\ ForwardSessionOutput(s, Head(stray[s]))
    /\ UNCHANGED <<chan, worker, loose>>

LooseForwards(s, f) ==
    /\ <<s, f>> \in loose
    /\ loose' = loose \ {<<s, f>>}
    /\ ForwardSessionOutput(s, f)
    /\ UNCHANGED <<chan, worker, stray>>

\* doFlushLocked: up to a boundary where markdown may be cut; the rest waits.
DoFlush(s, n) ==
    /\ n \in 1..Len(batch[s])
    /\ sent' = [sent EXCEPT ![s] = @ \o SubSeq(batch[s], 1, n)]
    /\ batch' = [batch EXCEPT ![s] = SubSeq(@, n + 1, Len(@))]
    /\ UNCHANGED <<outVars, permVars, lifeVars, pageVars, countVars, open, answer, reordered>>

-----------------------------------------------------------------------------
(* Sessions.                                                                *)

\* Mutant: the session is dropped and an engine that still runs is left alone.
DropExited(s) ==
    /\ s \in ending
    /\ ending' = ending \ {s}
    /\ live' = live \ {s}
    /\ UNCHANGED <<running, open, cut, outVars, textVars, permVars, pageVars, spent, said, asked, answer, reordered>>

\* StopWithExitCode in a goroutine, for the engine that exited.
StopExited(s) ==
    /\ s \in ending
    /\ ending' = ending \ {s}
    /\ cut' = IF s \in running THEN cut \cup {s} ELSE cut
    /\ live' = live \ {s} /\ running' = running \ {s} /\ open' = open \ Of(s, open)
    /\ UNCHANGED <<outVars, textVars, permVars, pageVars, spent, said, asked, answer, reordered>>

\* handleSessionStop
HandleSessionStop(s) ==
    /\ answer = NoAnswer /\ s \in live
    /\ live' = live \ {s} /\ running' = running \ {s} /\ open' = open \ Of(s, open)
    /\ cut' = cut \cup {s}
    /\ ForgetSessionPermissions(s)
    /\ UNCHANGED <<outVars, textVars, ending, pageVars, spent, said, asked, answer, reordered>>

\* handleSessionCancel: the engine drops what it waits on.
HandleSessionCancel(s) ==
    /\ answer = NoAnswer /\ s \in live
    /\ open' = open \ Of(s, open)
    /\ ForgetSessionPermissions(s)
    /\ UNCHANGED <<outVars, textVars, lifeVars, pageVars, countVars, answer, reordered>>

\* handleSessionStart, and a resume or a prompt that re-creates the session.
HandleSessionStart(s) ==
    /\ answer = NoAnswer /\ s \notin live /\ spent < MaxEmits
    /\ spent' = spent + 1
    /\ live' = live \cup {s} /\ running' = running \cup {s}
    /\ resend' = resend \cup {s}
    /\ UNCHANGED <<outVars, textVars, permVars, ending, web, link, said, asked, cut, open, answer, reordered>>

\* handleSessionResume, and a start of a session that is there: a new page.
HandleSessionResume(s) ==
    /\ answer = NoAnswer /\ s \in live /\ link
    /\ web' = web \ Of(s, web) /\ resend' = resend \cup {s}
    /\ UNCHANGED <<outVars, textVars, permVars, lifeVars, link, countVars, open, answer, reordered>>

\* resendPendingPermissions: entries of sessions that are gone are dropped.
ResendPendingPermissions(s) ==
    /\ s \in resend
    /\ resend' = resend \ {s}
    /\ permPending' = {q \in permPending : q[1] \in live}
    /\ permSessionMap' = [id \in Id |-> IF \E t \in Session \ live : permSessionMap[id] = t /\ <<t, id>> \in permPending
                                          THEN NoSession ELSE permSessionMap[id]]
    /\ web' = IF link THEN web \cup {q \in permPending : q[1] = s /\ s \in live} ELSE web
    /\ UNCHANGED <<outVars, textVars, lifeVars, link, countVars, open, answer, reordered>>

\* Mutant: after a reconnect nothing is sent again.
LinkReturnsQuietly == link' = TRUE /\ UNCHANGED resend

\* readLoop, once the connection is back.
LinkReturns == link' = TRUE /\ resend' = Session

LinkChanges ==
    /\ IF link THEN link' = FALSE /\ spent < MaxEmits /\ spent' = spent + 1 /\ UNCHANGED resend
       ELSE LinkReturns /\ UNCHANGED spent
    /\ UNCHANGED <<outVars, textVars, permVars, lifeVars, web, said, asked, cut, open, answer, reordered>>

-----------------------------------------------------------------------------
(* An answer of the user: handlePermissionResponse.                          *)

\* forgetPendingPermission: the entry of the session that asked last under
\* this id, or every entry with this id.
ForgetPendingPermission(id) ==
    permPending' = {q \in permPending :
                      q[2] # id \/ (permSessionMap[id] # NoSession /\ q[1] # permSessionMap[id])}

UserAnswers(s, id) ==
    /\ answer = NoAnswer /\ <<s, id>> \in web /\ link
    /\ web' = web \ {<<s, id>>}
    /\ ForgetPendingPermission(id)
    /\ answer' = [asker |-> s, id |-> id, to |-> permSessionMap[id]]
    /\ UNCHANGED <<outVars, textVars, permSessionMap, lifeVars, resend, link, countVars, open, reordered>>

\* The session on record, or all of them; the record is dropped either way.
AnswerIsDelivered ==
    /\ answer # NoAnswer
    /\ answer' = NoAnswer
    /\ LET targets == IF answer.to = NoSession THEN live ELSE {answer.to} \cap live
       IN  open' = open \ {<<t, answer.id>> : t \in targets}
    /\ permSessionMap' = [permSessionMap EXCEPT ![answer.id] = IF answer.to = NoSession THEN @ ELSE NoSession]
    /\ UNCHANGED <<outVars, textVars, permPending, lifeVars, pageVars, countVars, reordered>>

-----------------------------------------------------------------------------

SessionInit ==
    /\ live = Session /\ running = Session /\ ending = {}
    /\ chan = [s \in Session |-> <<>>] /\ stray = chan /\ batch = chan /\ sent = chan
    /\ worker = [s \in Session |-> "none"] /\ loose = {}
    /\ permSessionMap = [id \in Id |-> NoSession] /\ permPending = {} /\ open = {}
    /\ web = {} /\ resend = {} /\ link = TRUE /\ answer = NoAnswer
    /\ spent = 0 /\ said = [s \in Session |-> 0]
    /\ asked = {} /\ cut = {} /\ reordered = {}

EngineStep(s) ==
    \/ EngineSays(s) \/ EngineIdles(s) \/ EngineExits(s) \/ \E id \in Id : EngineAsks(s, id)

OutputStep(s) ==
    \/ WorkerForwards(s) \/ WorkerLeaves(s) \/ WorkerRetires(s) \/ StrayForwards(s)
    \/ \E f \in {l[2] : l \in loose} : LooseForwards(s, f)
    \/ \E n \in 1..Len(batch[s]) : DoFlush(s, n)

HandlerStep(s) ==
    \/ StopExited(s) \/ HandleSessionStop(s) \/ HandleSessionCancel(s) \/ HandleSessionStart(s)
    \/ HandleSessionResume(s) \/ ResendPendingPermissions(s) \/ \E id \in Id : UserAnswers(s, id)

SessionNext ==
    \/ \E s \in Session : EngineStep(s) \/ OutputStep(s) \/ HandlerStep(s)
    \/ LinkChanges \/ AnswerIsDelivered

SessionSpec == SessionInit /\ [][SessionNext]_sessionVars

-----------------------------------------------------------------------------
(* Properties.                                                              *)

Frames == {Text(n) : n \in 1..MaxEmits} \cup {Ask(id) : id \in Id} \cup {TurnIdle, Exit}

SessionTypeOK ==
    /\ live \subseteq Session /\ running \subseteq live /\ ending \subseteq Session
    /\ \A s \in Session : /\ Range(chan[s]) \cup Range(stray[s]) \subseteq Frames
                          /\ Len(chan[s]) <= ChannelCap
                          /\ Range(batch[s]) \cup Range(sent[s]) \subseteq {Text(n) : n \in 1..MaxEmits}
    /\ worker \in [Session -> {"none", "serving", "leaving"}]
    /\ loose \subseteq Session \X Frames
    /\ permSessionMap \in [Id -> Session \cup {NoSession}]
    /\ permPending \cup open \cup web \cup asked \subseteq Session \X Id
    /\ resend \cup cut \cup reordered \subseteq Session
    /\ link \in BOOLEAN /\ answer.to \in Session \cup {NoSession}
    /\ spent \in 0..MaxEmits /\ said \in [Session -> 0..MaxEmits]

\* What a session's engine says reaches the uplink whole and in the order it
\* was said, through the channel, the worker that retires and its batch, and
\* what it said before it exited is not lost with it.  Excused: frames that
\* left the channel's order (a full channel, a session re-created while its old
\* worker drains), and what was unread when the user stopped the session.
OutputInOrder ==
    \A s \in Session \ reordered :
        LET path == sent[s] \o batch[s] \o stray[s] \o chan[s]
        IN  /\ \A i, j \in DOMAIN path :
                 i < j /\ path[i].kind = "text" /\ path[j].kind = "text" => path[i].what < path[j].what
            /\ s \notin cut => \A n \in 1..said[s] : Text(n) \in Range(path)

UnderWay(s, id) == \/ Ask(id) \in Range(chan[s]) \cup Range(stray[s]) \/ <<s, Ask(id)>> \in loose
                   \/ (answer.asker = s /\ answer.id = id)

\* A question an engine waits on is on the page, or its answer is under way:
\* otherwise the turn hangs and nobody knows.  Excused: while the link is down
\* or a re-send is owed, and a question whose id another session used too: the
\* answer is routed to whoever asked last (bridge.go 2487).
QuestionStaysVisible ==
    \A s \in live \ reordered, id \in Id :
        (<<s, id>> \in open /\ link /\ s \notin resend /\ ~UnderWay(s, id)
           /\ \A t \in Session : <<t, id>> \in asked => t = s)
        => <<s, id>> \in web

=============================================================================
