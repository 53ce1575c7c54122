--------------------------- MODULE SessionCommands ----------------------------
(***************************************************************************)
(* The life of one interactive session: the commands of the page            *)
(* (internal/bridge/bridge.go, spec_status.go), the session registry they    *)
(* share (internal/session) and the engine behind the session's protocol    *)
(* manager (internal/protocol).                                            *)
(*                                                                         *)
(* Start, resume, stop, change of directory and change of mode are handled  *)
(* one after another on the message worker, prompts on the session's lane;   *)
(* both may create the session.  The clean-up of a reconnect, the fallback   *)
(* of an output worker and the engine run beside them.  A session object is  *)
(* named by the order in which createSession made it.                       *)
(***************************************************************************)
EXTENDS Naturals, Sequences

CONSTANTS
    Dir, Mode,    \* project directories; permission modes, "default" among them
    MaxObjects,   \* bound: session objects
    MaxCommands   \* bound: commands, and changes of mode by engines

ASSUME SessionCommandsAssumption ==
    /\ "default" \in Mode /\ "unset" \notin Mode /\ Dir # {}
    /\ MaxObjects \in Nat /\ MaxCommands \in Nat

Object == 1..MaxObjects
Kind == {"acp", "pty"}
Thread == {"worker", "lane"}

VARIABLES
    registered,  \* the object under the session's id in Manager.sessions, or 0
    obj,         \* obj[o]: a Session and its engine
    made,        \* objects made
    place,       \* place[t]: where a thread is: "idle", "create", "reconnect", "connect", "record"
    want,        \* want[t]: the parameters it creates a session with, the object it holds
    modeReports, \* mode changes in the session's output channel, with their object
    falling,     \* an output worker is about to fall back from a dead engine
    commands,
    raced,       \* ghost: objects unregistered while the id was being connected
    doubtful     \* ghost: objects with overlapping or unanswered changes of mode

registry == <<registered, obj, made>>
threads == <<place, want>>
commandGhosts == <<raced, doubtful>>
commandVars == <<registry, threads, modeReports, falling, commands, commandGhosts>>

NoWish == [kind |-> "acp", dir |-> CHOOSE d \in Dir : TRUE, mode |-> "default", obj |-> 0]
NoObject == [kind |-> "acp", dir |-> NoWish.dir, mode |-> "default", engine |-> "none",
             runs |-> "default", config |-> "unset", warned |-> FALSE]

Connected(o) == obj[o].engine \in {"setup", "ready", "stuck"}
Connecting(o) == obj[o].config = "unset"
Closed(o) == [obj EXCEPT ![o].engine = IF Connected(o) THEN "closed" ELSE @]

\* Directories differ only from one another: the first one asked for is NoWish's.
Dirs == IF made = 0 /\ \A t \in Thread : place[t] = "idle" THEN {NoWish.dir} ELSE Dir

Command == commands < MaxCommands /\ commands' = commands + 1
Moves(t, there, wish) == place' = [place EXCEPT ![t] = there] /\ want' = [want EXCEPT ![t] = wish]
Rest(t) == Moves(t, "idle", NoWish)

\* What removing an object from the registry leaves behind.
Removed(others) ==
    raced' = IF registered # 0 /\ \E t \in others : place[t] \in {"connect", "reconnect"}
             THEN raced \cup {registered} ELSE raced

-----------------------------------------------------------------------------
(* Commands.                                                                *)

\* handleSessionStart; handleSessionResume of a session that is not there.  A
\* terminal has no modes.
HandleSessionStart ==
    /\ place["worker"] = "idle" /\ Command
    /\ \E k \in Kind, d \in Dirs, m \in Mode :
         /\ k = "pty" => m = "default"
         /\ Moves("worker", "create", [kind |-> k, dir |-> d, mode |-> m, obj |-> 0])
    /\ UNCHANGED <<registry, modeReports, falling, commandGhosts>>

\* handleSessionSend, of a session that is not there: in the default mode.
AutoCreate ==
    /\ place["lane"] = "idle" /\ registered = 0 /\ Command
    /\ \E k \in Kind, d \in Dirs :
         Moves("lane", "create", [kind |-> k, dir |-> d, mode |-> "default", obj |-> 0])
    /\ UNCHANGED <<registry, modeReports, falling, commandGhosts>>

\* handleSessionStop, StopWithExitCode: an engine that is still connecting is
\* not known to its protocol manager yet.
HandleSessionStop ==
    /\ place["worker"] = "idle" /\ registered # 0 /\ Command
    /\ obj' = Closed(registered) /\ registered' = 0
    /\ Removed(Thread)
    /\ UNCHANGED <<made, threads, modeReports, falling, doubtful>>

\* handleSessionChangeDir: only a terminal can be sent somewhere else.
HandleSessionChangeDir ==
    /\ place["worker"] = "idle" /\ registered # 0 /\ obj[registered].kind = "pty" /\ Connected(registered)
    /\ Command
    /\ \E d \in Dir \ {obj[registered].dir} : obj' = [obj EXCEPT ![registered].dir = d]
    /\ UNCHANGED <<registered, made, threads, modeReports, falling, commandGhosts>>

\* A change of mode the engine answers, one whose answer does not come in
\* time, and one it refuses; the thread records it next.
Change(o, m) ==
    doubtful' = IF modeReports # <<>> \/ \E t \in Thread : place[t] = "record" THEN doubtful \cup {o} ELSE doubtful
SetMode(t, o, m) ==
    \/ /\ obj[o].engine = "ready" /\ obj' = [obj EXCEPT ![o].runs = m]
       /\ Moves(t, "record", [NoWish EXCEPT !.mode = m, !.obj = o])
       /\ Change(o, m)
    \/ /\ obj[o].engine = "ready" /\ obj' = [obj EXCEPT ![o].runs = m]
       /\ doubtful' = doubtful \cup {o} /\ Rest(t)
    \/ UNCHANGED <<obj, doubtful>> /\ Rest(t)

\* handleSessionSpecUpdate: an older version only has the mode restated.
HandleSessionSpecUpdate(m) ==
    /\ place["worker"] = "idle" /\ registered # 0 /\ Command
    /\ m # obj[registered].mode /\ obj[registered].kind = "acp"
    /\ SetMode("worker", registered, m)
    /\ UNCHANGED <<registered, made, modeReports, falling, raced>>

\* sess.PermissionMode = mode
RecordMode(t) ==
    /\ place[t] = "record"
    /\ obj' = [obj EXCEPT ![want[t].obj].mode = want[t].mode]
    /\ Rest(t)
    /\ UNCHANGED <<registered, made, modeReports, falling, commands, commandGhosts>>

-----------------------------------------------------------------------------
(* createSession.                                                           *)

CanResume(o, w) == obj[o].kind = w.kind /\ obj[o].dir = w.dir /\ Connected(o)

\* Mutant: the engine of a session that is replaced is left alone.
ReplacedOpen(o) == obj

\* A session that is replaced: disconnected, and out of the registry.
Replaced(o) == IF o = 0 THEN obj ELSE Closed(o)

\* A new object, registered before it is connected.
Register(t, old) ==
    /\ made < MaxObjects /\ made' = made + 1
    /\ obj' = [Replaced(old) EXCEPT ![made'] = [NoObject EXCEPT !.kind = want[t].kind, !.dir = want[t].dir,
                                                                !.mode = want[t].mode, !.engine = "connecting"]]
    /\ registered' = made'
    /\ Moves(t, "connect", [want[t] EXCEPT !.obj = made'])

\* Under the lock: resumed, and brought to the mode that is wanted; to be
\* reconnected; replaced; or new.  The work dir may be gone.
Create(t) ==
    /\ place[t] = "create"
    /\ \/ Rest(t) /\ UNCHANGED <<registry, commandGhosts>>
       \/ /\ registered # 0 /\ CanResume(registered, want[t])
          /\ IF obj[registered].kind = "acp" /\ want[t].mode # obj[registered].mode
               THEN SetMode(t, registered, want[t].mode) ELSE Rest(t) /\ UNCHANGED <<obj, doubtful>>
          /\ UNCHANGED <<registered, made, raced>>
       \/ /\ registered # 0 /\ ~Connected(registered)
          /\ Moves(t, "reconnect", [want[t] EXCEPT !.obj = registered])
          /\ UNCHANGED <<registry, commandGhosts>>
       \/ /\ registered # 0 /\ ~CanResume(registered, want[t]) /\ Connected(registered)
          /\ Register(t, registered) /\ Removed(Thread \ {t})
          /\ UNCHANGED doubtful
       \/ registered = 0 /\ Register(t, 0) /\ UNCHANGED commandGhosts
    /\ UNCHANGED <<modeReports, falling, commands>>

\* applyPermissionMode: an ACP engine is given its mode, or, without the shared
\* directory, a warning is logged and none.
ApplyPermissionMode(m) == {[mode |-> m, warned |-> w] : w \in BOOLEAN}

\* Connect, as the adapter sees it: an ACP engine still has to open a session
\* and to take its mode, a terminal is up.
Started(o, m) ==
    IF obj[o].kind = "pty" THEN {[obj[o] EXCEPT !.engine = "ready", !.runs = m, !.config = m]}
    ELSE {[obj[o] EXCEPT !.engine = "setup", !.runs = "default", !.config = a.mode, !.warned = a.warned] :
             a \in ApplyPermissionMode(m)}

\* Outside the lock, with the configuration of the first connect; a session
\* that is still connecting has none.  A failure drops what the id holds now.
ReconnectSession(t) ==
    /\ place[t] = "reconnect"
    /\ LET o == want[t].obj
       IN  \/ /\ Connected(o) /\ Rest(t) /\ UNCHANGED <<registry, raced>>
           \/ /\ ~Connected(o) /\ ~Connecting(o)
              /\ \E started \in Started(o, obj[o].config) :
                   obj' = [obj EXCEPT ![o] = [started EXCEPT !.warned = obj[o].warned]]
              /\ Rest(t) /\ UNCHANGED <<registered, made, raced>>
           \/ /\ ~Connected(o)
              /\ Register(t, o) /\ Removed(Thread)
    /\ UNCHANGED <<modeReports, falling, commands, doubtful>>

\* Connect fails, and what the id holds is dropped; or it succeeds, whoever
\* holds the id by now.
Connect(t) ==
    /\ place[t] = "connect"
    /\ LET o == want[t].obj
       IN  \/ /\ obj' = [obj EXCEPT ![o].engine = "failed"]
              /\ registered' = 0 /\ Removed(Thread)
           \/ /\ \E started \in Started(o, want[t].mode) : obj' = [obj EXCEPT ![o] = started]
              /\ UNCHANGED <<registered, raced>>
    /\ Rest(t)
    /\ UNCHANGED <<made, modeReports, falling, commands, doubtful>>

-----------------------------------------------------------------------------
(* Engines, and what runs beside the handlers.                              *)

\* session/new, then session/set_mode before the session is exposed.
SetupEnds(o) ==
    /\ obj[o].engine = "setup"
    /\ \/ obj' = [obj EXCEPT ![o].engine = "stuck"] /\ UNCHANGED modeReports
       \/ /\ obj[o].warned
          /\ obj' = [obj EXCEPT ![o].engine = "ready"] /\ UNCHANGED modeReports
       \/ /\ ~obj[o].warned
          /\ obj' = [obj EXCEPT ![o].engine = "ready", ![o].runs = obj[o].config]
          /\ modeReports' = Append(modeReports, <<o, obj[o].config>>)
    /\ UNCHANGED <<registered, made, threads, falling, commands, commandGhosts>>

\* The engine changes its mode itself and says so.
EngineChangesMode(o) ==
    /\ obj[o].engine = "ready" /\ obj[o].kind = "acp" /\ Command
    /\ \E m \in Mode \ {obj[o].runs} :
         obj' = [obj EXCEPT ![o].runs = m] /\ modeReports' = Append(modeReports, <<o, m>>)
    /\ doubtful' = IF \E t \in Thread : place[t] = "record" THEN doubtful \cup {o} ELSE doubtful
    /\ UNCHANGED <<registered, made, threads, falling, raced>>

EngineDies(o) ==
    /\ Connected(o)
    /\ obj' = [obj EXCEPT ![o].engine = "dead"]
    /\ UNCHANGED <<registered, made, threads, modeReports, falling, commands, commandGhosts>>

\* reportEngineMode: to whatever session has the id by now.
ReportEngineMode ==
    /\ modeReports # <<>> /\ modeReports' = Tail(modeReports)
    /\ obj' = IF registered # 0 /\ obj[registered].kind = "acp"
              THEN [obj EXCEPT ![registered].mode = Head(modeReports)[2]] ELSE obj
    /\ doubtful' = doubtful \cup {want[t].obj : t \in {u \in Thread : place[u] = "record"}}
                            \cup ({registered} \ {Head(modeReports)[1]})
    /\ UNCHANGED <<registered, made, threads, falling, commands, raced>>

\* Mutant: the clean-up does not spare sessions that are being connected.
StopDeadAndConnecting ==
    /\ registered # 0 /\ ~Connected(registered)
    /\ registered' = 0
    /\ raced' = IF Connecting(registered) THEN raced
                ELSE IF \E t \in Thread : place[t] = "reconnect" THEN raced \cup {registered} ELSE raced
    /\ UNCHANGED <<obj, made, threads, modeReports, falling, commands, doubtful>>

\* reconnect(): dead sessions go; the removal callback is not called.
StopDead ==
    /\ registered # 0 /\ ~Connecting(registered) /\ ~Connected(registered)
    /\ registered' = 0 /\ Removed(Thread)
    /\ UNCHANGED <<obj, made, threads, modeReports, falling, commands, doubtful>>

\* An error of a dead engine that has a fallback: its session is stopped, by
\* its id, and another one is started under an id of its own.
FallBack ==
    /\ IF falling
         THEN /\ falling' = FALSE
              /\ IF registered = 0 THEN UNCHANGED <<registered, obj, raced>>
                 ELSE /\ obj' = Closed(registered) /\ registered' = 0
                      /\ Removed(Thread)
         ELSE /\ registered # 0 /\ ~Connected(registered) /\ falling' = TRUE
              /\ UNCHANGED <<registered, obj, raced>>
    /\ UNCHANGED <<made, threads, modeReports, commands, doubtful>>

-----------------------------------------------------------------------------

CommandInit ==
    /\ registered = 0 /\ obj = [o \in Object |-> NoObject] /\ made = 0
    /\ place = [t \in Thread |-> "idle"] /\ want = [t \in Thread |-> NoWish]
    /\ modeReports = <<>> /\ falling = FALSE /\ commands = 0
    /\ raced = {} /\ doubtful = {}

CommandNext ==
    \/ HandleSessionStart \/ AutoCreate \/ HandleSessionStop \/ HandleSessionChangeDir
    \/ \E m \in Mode : HandleSessionSpecUpdate(m)
    \/ \E t \in Thread : RecordMode(t) \/ Create(t) \/ ReconnectSession(t) \/ Connect(t)
    \/ \E o \in Object : SetupEnds(o) \/ EngineChangesMode(o) \/ EngineDies(o)
    \/ ReportEngineMode \/ StopDead \/ FallBack

CommandSpec == CommandInit /\ [][CommandNext]_commandVars

-----------------------------------------------------------------------------
(* Properties.                                                              *)

CommandTypeOK ==
    /\ registered \in 0..made /\ made \in 0..MaxObjects
    /\ \A o \in Object :
         /\ obj[o].kind \in Kind /\ obj[o].dir \in Dir /\ obj[o].mode \in Mode /\ obj[o].runs \in Mode
         /\ obj[o].engine \in {"none", "connecting", "failed", "setup", "ready", "stuck", "dead", "closed"}
         /\ (obj[o].engine = "none") = (o > made)
    /\ place \in [Thread -> {"idle", "create", "reconnect", "connect", "record"}]
    /\ \A t \in Thread : want[t].obj \in 0..made
    /\ raced \cup doubtful \subseteq 0..MaxObjects

\* A running engine is the registered session's, so that a stop, a clean-up or
\* a shutdown finds it: no path through start, resume, prompt, stop, fallback
\* and reconnect leaves one behind.  Excused: a session that was taken out of
\* the registry while its id was being connected (a stop does not reach an
\* engine that is still connecting, and a failed connect drops whatever holds
\* its id).
EngineIsReachable ==
    \A o \in Object : Connected(o) /\ o # registered => o \in raced

\* The mode the bridge shows for a session is the one its engine enforces, once
\* the engine's own reports are handled: through resumes, changes, the engine's
\* own switches and reconnects with the first configuration.  Excused: changes
\* that overlap or are not answered, a report of an engine that is no longer the
\* session's, and an engine without its shared directory.
ModeIsTrue ==
    LET o == registered
    IN  o # 0 /\ obj[o].engine = "ready" /\ modeReports = <<>> /\ (\A t \in Thread : place[t] # "record")
          /\ o \notin doubtful /\ ~obj[o].warned
        => obj[o].mode = obj[o].runs

\* What the bridge has of its sessions is so: their engines and their modes.
SessionsAreTrue == EngineIsReachable /\ ModeIsTrue

=============================================================================
