------------------------------ MODULE TaskPool ------------------------------
(***************************************************************************)
(* Admission and life of workflow task sessions: the bridge's single       *)
(* message worker handles workflow:task_assign, goroutines started by      *)
(* every session close drain the queue of waiting tasks, and both launch   *)
(* sessions through the session manager (internal/bridge/bridge.go,        *)
(* internal/session/manager.go and manager_new.go).                        *)
(*                                                                         *)
(* The session id of a task is the task id.  A dispatch generation         *)
(* ("attempt") creates at most one session object, so the object is named  *)
(* by the attempt that created it: sess[t] = a says the session manager's  *)
(* map holds, under id t, the object created by attempt a.                 *)
(***************************************************************************)
EXTENDS Naturals, Sequences, FiniteSets

CONSTANTS
    Task,           \* task ids
    MaxConcurrent,  \* Manager.maxConcurrent, the size of the task pool
    MaxAttempt,     \* bound: dispatch generations per task
    MaxDispatch,    \* bound: assignments dispatched in a behaviour
    MaxEarly,       \* bound: attempts per task of an impatient orchestrator
    Worker,         \* the messageWorker goroutine
    Drain,          \* bound: drainTaskQueue goroutines running at one time
    Orchestrators,  \* subset of {"waits", "impatient"}, see Dispatch
    NoTask          \* the task of a launcher that holds none

ASSUME PoolAssumption ==
    /\ IsFiniteSet(Task) /\ Task # {} /\ NoTask \notin Task
    /\ MaxConcurrent \in Nat \ {0}
    /\ MaxAttempt \in Nat \ {0}
    /\ MaxDispatch \in Nat /\ MaxEarly \in Nat
    /\ Worker \notin Drain
    /\ Orchestrators \subseteq {"waits", "impatient"}

Attempt == 1..MaxAttempt
Launcher == {Worker} \cup Drain
Assignment == Task \X Attempt

EngineState == {"none", "connecting", "failed", "up", "working", "dead", "closed"}

LauncherPc == {"idle", "check", "assign", "full", "register", "reconnect",
               "connecting", "started", "send", "abort"}

VARIABLES
    orch,        \* how the orchestrator re-dispatches; fixed in a behaviour
    dispatched,  \* dispatched[t]: the last attempt the orchestrator sent
    assigns,     \* task_assign messages not yet taken by the worker
    queue,       \* Manager.queue: assignments waiting for a pool slot
    sess,        \* Manager.sessions: object registered per task id, 0 = none
    eng,         \* engine process and adapter behind each session object
    meta,        \* Bridge.taskMeta: the attempt stored per task id, 0 = none
    pc,          \* control point of each launcher
    job,         \* the assignment, and session object, a launcher holds
    drains,      \* capacity callbacks started and not yet scheduled
    stops,       \* pending `go StopWithExitCode(id, code)`
    deaths,      \* engines gone, exit_code status message not yet emitted
    exits,       \* pending handleSessionExit goroutines (by: ghost, whose end it was)
    answered,    \* ghost: assignments answered by task_started / task_error
    reports      \* ghost: terminal reports sent, with the object's creator

vars == <<orch, dispatched, assigns, queue, sess, eng, meta, pc, job,
          drains, stops, deaths, exits, answered, reports>>

Holding(t, a, o) == [task |-> t, attempt |-> a, obj |-> o]
Idle == Holding(NoTask, 0, 0)

Report(t, a, s, b, c) == [task |-> t, attempt |-> a, started |-> s, by |-> b, code |-> c]

Up(t, a) == eng[<<t, a>>] \in {"up", "working"}

\* Only sessions in the map with task metadata occupy the pool; every session
\* of this model is one, and its status is "active" as long as it is mapped.
ActiveSessions == {t \in Task : sess[t] # 0}
PoolFull == Cardinality(ActiveSessions) >= MaxConcurrent

-----------------------------------------------------------------------------
(* The orchestrator (external).  A patient one dispatches the next attempt   *)
(* of a task only after a terminal report for the previous one; an impatient *)
(* one may time out and re-dispatch at any moment.                           *)

Dispatch(t) ==
    /\ dispatched[t] < MaxAttempt /\ (orch = "impatient" => dispatched[t] < MaxEarly)
    /\ Cardinality({o \in Assignment : o[2] <= dispatched[o[1]]}) < MaxDispatch
    /\ orch = "waits" /\ dispatched[t] # 0 =>
           \E r \in reports : r.task = t /\ r.attempt = dispatched[t]
    /\ dispatched' = [dispatched EXCEPT ![t] = @ + 1]
    /\ assigns' = Append(assigns, <<t, dispatched[t] + 1>>)
    /\ UNCHANGED <<orch, queue, sess, eng, meta, pc, job, drains, stops,
                   deaths, exits, answered, reports>>

-----------------------------------------------------------------------------
(* handleWorkflowTaskAssign, on the worker. *)

\* The live-session guard of known issue #20, then the worktree: an
\* unreachable base or a project that is no repository fails the task here.
HandleAssign ==
    /\ pc[Worker] = "idle"
    /\ assigns # <<>>
    /\ assigns' = Tail(assigns)
    /\ LET t == Head(assigns)[1]
           a == Head(assigns)[2]
       IN \/ /\ sess[t] # 0 /\ Up(t, sess[t])
             /\ answered' = answered \cup {<<t, a>>}
             /\ UNCHANGED <<pc, job, reports>>
          \/ /\ ~(sess[t] # 0 /\ Up(t, sess[t]))
             /\ answered' = answered \cup {<<t, a>>}
             /\ reports' = reports \cup {Report(t, a, a, a, 1)}
             /\ UNCHANGED <<pc, job>>
          \/ /\ ~(sess[t] # 0 /\ Up(t, sess[t]))
             /\ pc' = [pc EXCEPT ![Worker] = "assign"]
             /\ job' = [job EXCEPT ![Worker] = Holding(t, a, 0)]
             /\ UNCHANGED <<answered, reports>>
    /\ UNCHANGED <<orch, dispatched, queue, sess, eng, meta, drains, stops,
                   deaths, exits>>

\* ActiveTaskCount() >= MaxConcurrent(): the count is only a snapshot.
AssignCheck ==
    /\ pc[Worker] = "assign"
    /\ pc' = [pc EXCEPT ![Worker] = IF PoolFull THEN "full" ELSE "register"]
    /\ UNCHANGED <<orch, dispatched, assigns, queue, sess, eng, meta, job,
                   drains, stops, deaths, exits, answered, reports>>

\* Mutant: a drain that loses the race for the slot just returns.
EnqueueFullWorkerOnly(l) ==
    /\ pc[l] = "full"
    /\ queue' = IF l = Worker
                THEN Append(queue, <<job[l].task, job[l].attempt>>) ELSE queue
    /\ pc' = [pc EXCEPT ![l] = "idle"]
    /\ job' = [job EXCEPT ![l] = Idle]
    /\ UNCHANGED <<orch, dispatched, assigns, sess, eng, meta, drains, stops,
                   deaths, exits, answered, reports>>

\* Enqueue, after the caller saw a full pool or StartTaskSession returned
\* ErrTaskPoolFull; a drain that re-queues returns.
EnqueueFull(l) ==
    /\ pc[l] = "full"
    /\ queue' = Append(queue, <<job[l].task, job[l].attempt>>)
    /\ pc' = [pc EXCEPT ![l] = "idle"]
    /\ job' = [job EXCEPT ![l] = Idle]
    /\ UNCHANGED <<orch, dispatched, assigns, sess, eng, meta, drains, stops,
                   deaths, exits, answered, reports>>

-----------------------------------------------------------------------------
(* drainTaskQueue, one goroutine per capacity callback. *)

\* Mutant: a drain goroutine runs without a capacity callback behind it.
DrainStartUncalled(d) ==
    /\ pc[d] = "idle"
    /\ drains' = drains - 1
    /\ pc' = [pc EXCEPT ![d] = "check"]
    /\ UNCHANGED <<orch, dispatched, assigns, queue, sess, eng, meta, job,
                   stops, deaths, exits, answered, reports>>

DrainStart(d) ==
    /\ drains > 0
    /\ pc[d] = "idle"
    /\ drains' = drains - 1
    /\ pc' = [pc EXCEPT ![d] = "check"]
    /\ UNCHANGED <<orch, dispatched, assigns, queue, sess, eng, meta, job,
                   stops, deaths, exits, answered, reports>>

\* Mutant: DequeueNext reads the head of the queue and forgets to cut it off.
DrainNextKeepsHead(d) ==
    /\ pc[d] = "check"
    /\ UNCHANGED queue
    /\ \/ /\ PoolFull \/ queue = <<>>
          /\ pc' = [pc EXCEPT ![d] = "idle"]
          /\ UNCHANGED job
       \/ /\ ~PoolFull /\ queue # <<>>
          /\ pc' = [pc EXCEPT ![d] = "register"]
          /\ job' = [job EXCEPT ![d] = Holding(Head(queue)[1], Head(queue)[2], 0)]
    /\ UNCHANGED <<orch, dispatched, assigns, sess, eng, meta, drains, stops,
                   deaths, exits, answered, reports>>

\* The count is taken before DequeueNext, each under its own lock; nothing
\* that happens between the two changes what the drain does next.
DrainNext(d) ==
    /\ pc[d] = "check"
    /\ \/ /\ PoolFull \/ queue = <<>>
          /\ pc' = [pc EXCEPT ![d] = "idle"]
          /\ UNCHANGED <<queue, job>>
       \/ /\ ~PoolFull /\ queue # <<>>
          /\ queue' = Tail(queue)
          /\ pc' = [pc EXCEPT ![d] = "register"]
          /\ job' = [job EXCEPT ![d] = Holding(Head(queue)[1], Head(queue)[2], 0)]
    /\ UNCHANGED <<orch, dispatched, assigns, sess, eng, meta, drains, stops,
                   deaths, exits, answered, reports>>

-----------------------------------------------------------------------------
(* launchTaskSession and Manager.createSession, on any launcher. *)

\* After a launch the worker takes its next message, a drain its next item.
Relaunch(l) == IF l = Worker THEN "idle" ELSE "check"

\* Mutant: registration trusts the caller's snapshot of the count.
AdmitUnchecked(l, t, a) ==
    /\ sess' = [sess EXCEPT ![t] = a]
    /\ pc' = [pc EXCEPT ![l] = "connecting"]
    /\ job' = [job EXCEPT ![l] = Holding(t, a, a)]

\* The pool check excluding the id itself, and the early registration: one
\* critical section of Manager.mu, entered with `others` registered.
Admit(l, t, a) ==
    IF Cardinality(ActiveSessions \ {t}) >= MaxConcurrent
    THEN /\ sess' = [sess EXCEPT ![t] = 0]
         /\ pc' = [pc EXCEPT ![l] = "full"]
         /\ UNCHANGED job
    ELSE /\ sess' = [sess EXCEPT ![t] = a]
         /\ pc' = [pc EXCEPT ![l] = "connecting"]
         /\ job' = [job EXCEPT ![l] = Holding(t, a, a)]

Registering(e, t, a) ==
    IF Cardinality(ActiveSessions \ {t}) >= MaxConcurrent
    THEN e ELSE [e EXCEPT ![<<t, a>>] = "connecting"]

\* Mutant: no canResumeSession, a live session is replaced.
RegisterReplaces(l) ==
    LET t == job[l].task
        a == job[l].attempt
    IN /\ pc[l] = "register"
       /\ \/ /\ sess[t] # 0
             /\ Admit(l, t, a)
             /\ eng' = Registering([eng EXCEPT ![<<t, sess[t]>>] = "closed"], t, a)
          \/ /\ sess[t] = 0
             /\ Admit(l, t, a)
             /\ eng' = Registering(eng, t, a)
       /\ UNCHANGED <<orch, dispatched, assigns, queue, meta, drains, stops,
                      deaths, exits, answered, reports>>

Register(l) ==
    LET t == job[l].task
        a == job[l].attempt
    IN /\ pc[l] = "register"
       /\ \/ /\ sess[t] # 0 /\ Up(t, sess[t])         \* canResumeSession
             /\ pc' = [pc EXCEPT ![l] = "started"]
             /\ job' = [job EXCEPT ![l] = Holding(t, a, sess[t])]
             /\ UNCHANGED <<sess, eng>>
          \/ /\ sess[t] # 0 /\ ~Up(t, sess[t])        \* unlock, Reconnect
             /\ pc' = [pc EXCEPT ![l] = "reconnect"]
             /\ job' = [job EXCEPT ![l] = Holding(t, a, sess[t])]
             /\ UNCHANGED <<sess, eng>>
          \/ /\ sess[t] = 0
             /\ Admit(l, t, a)
             /\ eng' = Registering(eng, t, a)
       /\ UNCHANGED <<orch, dispatched, assigns, queue, meta, drains, stops,
                      deaths, exits, answered, reports>>

\* The checks before the lock (work dir gone while the task was queued): no
\* session was touched, the attempt is reported.
RejectLaunch(l) ==
    LET t == job[l].task
        a == job[l].attempt
    IN /\ pc[l] = "register"
       /\ pc' = [pc EXCEPT ![l] = Relaunch(l)]
       /\ job' = [job EXCEPT ![l] = Idle]
       /\ answered' = answered \cup {<<t, a>>}
       /\ reports' = reports \cup {Report(t, a, a, a, 1)}
       /\ UNCHANGED <<orch, dispatched, assigns, queue, sess, eng, meta, drains,
                      stops, deaths, exits>>

Disconnected(e) == IF e \in {"up", "working", "dead"} THEN "closed" ELSE e

\* Reconnect runs without the lock, on the object read under it.  It cannot
\* succeed on an object whose Connect has not stored a Config yet.  On
\* failure the old object is disconnected and whatever the map holds under
\* this id is dropped: no exit callback, no capacity callback.
Reconnect(l) ==
    LET t == job[l].task
        a == job[l].attempt
        o == job[l].obj
    IN /\ pc[l] = "reconnect"
       /\ \/ /\ eng[<<t, o>>] \in {"up", "working", "dead", "closed"}
             /\ eng' = [eng EXCEPT ![<<t, o>>] =
                          IF @ \in {"dead", "closed"} THEN "up" ELSE @]
             /\ pc' = [pc EXCEPT ![l] = "started"]
             /\ UNCHANGED <<sess, job>>
          \/ /\ eng[<<t, o>>] \notin {"up", "working"}
             /\ Admit(l, t, a)
             /\ eng' = Registering([eng EXCEPT ![<<t, o>>] = Disconnected(@)], t, a)
       /\ UNCHANGED <<orch, dispatched, assigns, queue, meta, drains, stops,
                      deaths, exits, answered, reports>>

\* The handshake outside the lock.  It does not notice that the object was
\* unregistered meanwhile; a failure drops whatever the id maps to now and
\* reports the attempt that tried.
Connect(l) ==
    LET t == job[l].task
        a == job[l].attempt
    IN /\ pc[l] = "connecting"
       /\ \/ /\ eng' = [eng EXCEPT ![<<t, a>>] = "up"]
             /\ pc' = [pc EXCEPT ![l] = "started"]
             /\ UNCHANGED <<sess, job, answered, reports>>
          \/ /\ eng' = [eng EXCEPT ![<<t, a>>] = "failed"]
             /\ sess' = [sess EXCEPT ![t] = 0]
             /\ pc' = [pc EXCEPT ![l] = Relaunch(l)]
             /\ job' = [job EXCEPT ![l] = Idle]
             /\ answered' = answered \cup {<<t, a>>}
             /\ reports' = reports \cup {Report(t, a, a, a, 1)}
       /\ UNCHANGED <<orch, dispatched, assigns, queue, meta, drains, stops,
                      deaths, exits>>

\* task_started and task_progress go out, then the task meta is stored.
StoreMeta(l) ==
    LET t == job[l].task
        a == job[l].attempt
    IN /\ pc[l] = "started"
       /\ meta' = [meta EXCEPT ![t] = a]
       /\ answered' = answered \cup {<<t, a>>}
       /\ pc' = [pc EXCEPT ![l] = "send"]
       /\ UNCHANGED <<orch, dispatched, assigns, queue, sess, eng, job, drains,
                      stops, deaths, exits, reports>>

\* sess.Send(prompt) on the object the launcher holds.
SendPrompt(l) ==
    LET t == job[l].task
        o == job[l].obj
    IN /\ pc[l] = "send"
       /\ \/ /\ Up(t, o)
             /\ eng' = [eng EXCEPT ![<<t, o>>] = "working"]
             /\ pc' = [pc EXCEPT ![l] = Relaunch(l)]
             /\ job' = [job EXCEPT ![l] = Idle]
          \/ /\ pc' = [pc EXCEPT ![l] = "abort"]
             /\ UNCHANGED <<eng, job>>
       /\ UNCHANGED <<orch, dispatched, assigns, queue, sess, meta, drains,
                      stops, deaths, exits, answered, reports>>

-----------------------------------------------------------------------------
(* Session close and the report. *)

\* Manager.StopWithExitCode: by id, under Manager.mu.
StopWithExitCode(t, by, code) ==
    IF sess[t] = 0
    THEN UNCHANGED <<sess, eng, drains, exits>>
    ELSE /\ eng' = [eng EXCEPT ![<<t, sess[t]>>] = Disconnected(@)]
         /\ sess' = [sess EXCEPT ![t] = 0]
         /\ drains' = drains + 1
         /\ exits' = exits \cup
               {[task |-> t, started |-> sess[t], by |-> by, code |-> code, seen |-> 0]}

\* A failed prompt send stops the session inline, with exit code 1.
AbortLaunch(l) ==
    /\ pc[l] = "abort"
    /\ StopWithExitCode(job[l].task, job[l].obj, 1)
    /\ pc' = [pc EXCEPT ![l] = Relaunch(l)]
    /\ job' = [job EXCEPT ![l] = Idle]
    /\ UNCHANGED <<orch, dispatched, assigns, queue, meta, stops, deaths,
                   answered, reports>>

\* forwardSessionOutput looks the session up by id; a terminal status of any
\* object of that id starts a stop goroutine for the id.
Terminal(t, a, code) ==
    stops' = IF sess[t] = 0 THEN stops
             ELSE stops \cup {[task |-> t, by |-> a, code |-> code]}

\* The turn of an engine ends: end_turn maps to 0, max_tokens to 1.
EndTurn(t, a) ==
    /\ eng[<<t, a>>] = "working"
    /\ eng' = [eng EXCEPT ![<<t, a>>] = "up"]
    /\ \E code \in {0, 1} : Terminal(t, a, code)
    /\ UNCHANGED <<orch, dispatched, assigns, queue, sess, meta, pc, job,
                   drains, deaths, exits, answered, reports>>

\* The engine's stdout closes: connected turns false at once, the exit_code
\* status follows up to two seconds later.
Crash(t, a) ==
    /\ Up(t, a)
    /\ eng' = [eng EXCEPT ![<<t, a>>] = "dead"]
    /\ deaths' = deaths \cup {<<t, a>>}
    /\ UNCHANGED <<orch, dispatched, assigns, queue, sess, meta, pc, job,
                   drains, stops, exits, answered, reports>>

EmitDeath(t, a) ==
    /\ <<t, a>> \in deaths
    /\ deaths' = deaths \ {<<t, a>>}
    /\ Terminal(t, a, 1)
    /\ UNCHANGED <<orch, dispatched, assigns, queue, sess, eng, meta, pc, job,
                   drains, exits, answered, reports>>

RunStop(s) ==
    /\ s \in stops
    /\ stops' = stops \ {s}
    /\ StopWithExitCode(s.task, s.by, s.code)
    /\ UNCHANGED <<orch, dispatched, assigns, queue, meta, pc, job, deaths,
                   answered, reports>>

\* Manager.StopDead on a WebSocket reconnect: sessions that are neither
\* connecting nor connected are dropped, without any callback.
StopDead ==
    /\ \E t \in Task : sess[t] # 0 /\ eng[<<t, sess[t]>>] = "dead"
    /\ sess' = [t \in Task |->
          IF sess[t] # 0 /\ eng[<<t, sess[t]>>] = "dead" THEN 0 ELSE sess[t]]
    /\ eng' = [o \in Assignment |->
          IF sess[o[1]] = o[2] /\ eng[o] = "dead" THEN "closed" ELSE eng[o]]
    /\ UNCHANGED <<orch, dispatched, assigns, queue, meta, pc, job, drains,
                   stops, deaths, exits, answered, reports>>

\* handleSessionExit, read part: the task meta of this id, if any.
ReadMeta(e) ==
    /\ e \in exits
    /\ e.seen = 0
    /\ exits' = (exits \ {e}) \cup
                  IF meta[e.task] = 0 THEN {}
                  ELSE {[e EXCEPT !.seen = meta[e.task]]}
    /\ UNCHANGED <<orch, dispatched, assigns, queue, sess, eng, meta, pc, job,
                   drains, stops, deaths, answered, reports>>

\* Mutant: the task meta survives the report.
ReportExitKeepsMeta(e) ==
    /\ e \in exits
    /\ e.seen # 0
    /\ exits' = exits \ {e}
    /\ reports' = reports \cup {Report(e.task, e.seen, e.started, e.by, e.code)}
    /\ UNCHANGED <<orch, dispatched, assigns, queue, sess, eng, meta, pc, job,
                   drains, stops, deaths, answered>>

\* ... and the rest of it: the meta is deleted whatever it is by now, and the
\* result or error goes out with the attempt that was read.
ReportExit(e) ==
    /\ e \in exits
    /\ e.seen # 0
    /\ exits' = exits \ {e}
    /\ meta' = [meta EXCEPT ![e.task] = 0]
    /\ reports' = reports \cup {Report(e.task, e.seen, e.started, e.by, e.code)}
    /\ UNCHANGED <<orch, dispatched, assigns, queue, sess, eng, pc, job,
                   drains, stops, deaths, answered>>

-----------------------------------------------------------------------------

Init ==
    /\ orch \in Orchestrators
    /\ dispatched = [t \in Task |-> 0]
    /\ assigns = <<>>
    /\ queue = <<>>
    /\ sess = [t \in Task |-> 0]
    /\ eng = [o \in Assignment |-> "none"]
    /\ meta = [t \in Task |-> 0]
    /\ pc = [l \in Launcher |-> "idle"]
    /\ job = [l \in Launcher |-> Idle]
    /\ drains = 0
    /\ stops = {} /\ deaths = {} /\ exits = {}
    /\ answered = {} /\ reports = {}

Launch(l) ==
    \/ EnqueueFull(l) \/ RejectLaunch(l) \/ Register(l) \/ Reconnect(l)
    \/ Connect(l) \/ StoreMeta(l) \/ SendPrompt(l) \/ AbortLaunch(l)

WorkerStep == HandleAssign \/ AssignCheck \/ Launch(Worker)
DrainStep(d) == DrainStart(d) \/ DrainNext(d) \/ Launch(d)
ExitStep(e) == ReadMeta(e) \/ ReportExit(e)

Next ==
    \/ \E t \in Task : Dispatch(t)
    \/ WorkerStep
    \/ \E d \in Drain : DrainStep(d)
    \/ \E t \in Task, a \in Attempt :
          EndTurn(t, a) \/ Crash(t, a) \/ EmitDeath(t, a)
    \/ \E s \in stops : RunStop(s)
    \/ StopDead
    \/ \E e \in exits : ExitStep(e)

Spec == Init /\ [][Next]_vars

\* Go schedules every runnable goroutine, and an engine with a prompt ends
\* its turn (the idle watchdog stops the session otherwise).  Nothing makes
\* the orchestrator dispatch, an engine crash or the WebSocket reconnect.
Fairness ==
    /\ WF_vars(WorkerStep)
    /\ \A d \in Drain : WF_vars(DrainStep(d))
    /\ WF_vars(\E s \in stops : RunStop(s))
    /\ WF_vars(\E e \in exits : ExitStep(e))
    /\ \A t \in Task, a \in Attempt :
          WF_vars(EndTurn(t, a)) /\ WF_vars(EmitDeath(t, a))

FairSpec == Spec /\ Fairness

-----------------------------------------------------------------------------
(* Properties. *)

JobType == [task : Task \cup {NoTask}, attempt : 0..MaxAttempt,
            obj : 0..MaxAttempt]
ExitType == [task : Task, started : Attempt, by : Attempt, code : {0, 1},
             seen : 0..MaxAttempt]
ReportType == [task : Task, attempt : Attempt, started : Attempt, by : Attempt,
               code : {0, 1}]

\* Every variable has its type: launchers are at a control point of the code
\* and hold an assignment exactly when that point needs one.
TypeOK ==
    /\ orch \in Orchestrators
    /\ dispatched \in [Task -> 0..MaxAttempt]
    /\ assigns \in Seq(Assignment)
    /\ queue \in Seq(Assignment)
    /\ sess \in [Task -> 0..MaxAttempt]
    /\ eng \in [Assignment -> EngineState]
    /\ meta \in [Task -> 0..MaxAttempt]
    /\ pc \in [Launcher -> LauncherPc]
    /\ job \in [Launcher -> JobType]
    /\ drains \in Nat
    /\ stops \subseteq [task : Task, by : Attempt, code : {0, 1}]
    /\ deaths \subseteq Assignment
    /\ exits \subseteq ExitType
    /\ answered \subseteq Assignment
    /\ reports \subseteq ReportType

\* The pool check is only atomic with the registration inside createSession;
\* the worker's and the drains' own counts are snapshots.  However they
\* interleave, never more than MaxConcurrent task sessions are registered
\* (Manager.createSession, "the pool check is atomic with registration").
PoolBound == Cardinality(ActiveSessions) <= MaxConcurrent

Holds(l, t, a) == job[l].task = t /\ job[l].attempt = a

\* An assignment the orchestrator sent is in the message queue, in a
\* launcher's hands or in the waiting queue until it is answered by
\* task_started or task_error: losing the race for the last slot re-queues it
\* and no drain that returns takes one with it.
NoAssignmentLost ==
    \A t \in Task : \A a \in 1..dispatched[t] :
        \/ <<t, a>> \in answered
        \/ \E i \in DOMAIN assigns : assigns[i] = <<t, a>>
        \/ \E i \in DOMAIN queue : queue[i] = <<t, a>>
        \/ \E l \in Launcher : Holds(l, t, a)

\* The promise of taskMeta (bridge.go:308-311): the terminal callback echoes
\* the generation that started the run, "not whatever is current when the
\* session ends".  Not so for an orchestrator that re-dispatches early ...
AttemptEcho == \A r \in reports : r.attempt = r.started

\* ... and an attempt is reported once: a turn end, a crash and a failed send
\* of the same session do not add up.
SingleReport ==
    \A r, s \in reports :
        r.task = s.task /\ r.attempt = s.attempt => r = s

\* A patient orchestrator can match reports to attempts: one for each, of its
\* session.  Excused, because a stop goes by the task id, is the session that
\* was stopped for the end of an earlier one of its task.
ReportsMatchAttempts ==
    orch = "waits" /\ (\A r \in reports : r.by = r.started) => AttemptEcho /\ SingleReport

\* A session whose engine is connected leaves the map only through
\* StopWithExitCode, which starts its exit report.  A launch that finds the
\* session live resumes it (known issue #20); the one exception is a launch
\* still holding an older object of the same task, whose late failure drops
\* whatever the id maps to by then.
LiveSessionKept ==
    [][\A t \in Task :
         sess[t] # 0 /\ Up(t, sess[t]) /\ sess'[t] # sess[t] =>
            \/ \E e \in exits' \ exits : e.task = t /\ e.started = sess[t]
            \/ \E l \in Launcher : /\ pc[l] \in {"connecting", "reconnect"}
                                   /\ job[l].task = t
                                   /\ job[l].obj # sess[t]]_vars

Queued(t) == \E i \in DOMAIN queue : queue[i][1] = t

\* "drainTaskQueue starts queued tasks as pool capacity frees": a task that
\* waits in the queue leaves it.
QueuedTaskStarts == \A t \in Task : Queued(t) ~> ~Queued(t)

=============================================================================
