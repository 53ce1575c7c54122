--------------------------- MODULE SessionProofs ----------------------------
(***************************************************************************)
(* Proofs about SessionCommands, the life of an interactive session, and   *)
(* MissionBranches, the git side of missions and isolated sessions.        *)
(***************************************************************************)
EXTENDS SessionCommands, MissionBranches, SequenceTheorems, FiniteSetTheorems, TLAPS

-----------------------------------------------------------------------------
(* SessionCommands: objects, threads and the registry that names one.      *)

Engines == {"none", "connecting", "failed", "setup", "ready", "stuck", "dead", "closed"}
Sessions == [kind : Kind, dir : Dir, mode : Mode, engine : Engines, runs : Mode,
             config : Mode \cup {"unset"}, warned : BOOLEAN]
Wishes == [kind : Kind, dir : Dir, mode : Mode, obj : Nat]

ObjectTypes ==
    /\ made \in 0..MaxObjects /\ registered \in 0..made
    /\ obj \in [Object -> Sessions] /\ \A o \in Object : (obj[o].engine = "none") = (o > made)
ThreadTypes ==
    /\ place \in [Thread -> {"idle", "create", "reconnect", "connect", "record"}]
    /\ want \in [Thread -> Wishes]
    /\ \A t \in Thread : /\ want[t].obj \in 0..made
                         /\ place[t] \in {"reconnect", "connect", "record"} => want[t].obj # 0
RestTypes ==
    /\ modeReports \in Seq(Object \X Mode) /\ commands \in Nat
    /\ raced \subseteq 0..MaxObjects /\ doubtful \subseteq 0..MaxObjects
CommandTypes == ObjectTypes /\ ThreadTypes /\ RestTypes

\* A terminal is in its default mode from the first to the last; an engine that
\* is connected was configured, and only an ACP engine has to be set up or has a
\* change of mode to record.
ObjectKinds ==
    \A o \in Object :
       /\ obj[o].kind = "pty" => /\ obj[o].mode = "default" /\ obj[o].runs = "default"
                                 /\ obj[o].config \in {"unset", "default"}
       /\ obj[o].engine \in {"setup", "ready", "stuck"} => obj[o].config # "unset"
       /\ obj[o].engine = "setup" => obj[o].kind = "acp"
ThreadKinds ==
    \A t \in Thread :
       /\ want[t].kind = "pty" => want[t].mode = "default"
       /\ place[t] = "record" => obj[want[t].obj].kind = "acp"
       /\ place[t] = "connect" => (obj[want[t].obj].kind = "pty" => want[t].mode = "default")
KindInv == ObjectKinds /\ ThreadKinds

\* Neither an engine nor an object that is about to get one is out of the registry
\* without having been raced.
ReachInv ==
    /\ EngineIsReachable
    /\ \A t \in Thread : place[t] \in {"connect", "reconnect"} => want[t].obj \in {registered} \cup raced

\* The mode of the registered session is on its way to what its engine enforces:
\* in the last report, or in the hands of a thread that records it, or it is there.
Recording(t, o) == place[t] = "record" /\ want[t].obj = o
OnItsWay(o) ==
    \/ \E i \in 1..Len(modeReports) : modeReports[i][1] # o
    \/ modeReports # <<>> /\ modeReports[Len(modeReports)][2] = obj[o].runs
    \/ /\ modeReports = <<>>
       /\ \A t \in Thread : Recording(t, o) => want[t].mode = obj[o].runs
       /\ (\E t \in Thread : Recording(t, o)) \/ obj[o].mode = obj[o].runs
ModeInv ==
    registered # 0 /\ obj[registered].kind = "acp" /\ obj[registered].engine = "ready"
        /\ registered \notin doubtful /\ ~obj[registered].warned
      => OnItsWay(registered)

CommandInv == CommandTypes /\ KindInv /\ ReachInv /\ ModeInv

LEMMA CommandConstants ==
    /\ MaxObjects \in Nat /\ Object = 1..MaxObjects /\ Thread = {"worker", "lane"} /\ Kind = {"acp", "pty"}
    /\ "default" \in Mode /\ "unset" \notin Mode
    /\ NoWish \in Wishes /\ NoWish.dir \in Dir /\ NoWish.kind = "acp" /\ NoWish.mode = "default" /\ NoWish.obj = 0
    /\ NoObject \in Sessions /\ NoObject.kind = "acp" /\ NoObject.engine = "none" /\ NoObject.config = "unset"
    /\ NoObject.warned = FALSE /\ NoObject.runs = "default"
<1>1. (CHOOSE d \in Dir : TRUE) \in Dir
    BY SessionCommandsAssumption
<1> QED BY <1>1, SessionCommandsAssumption DEF NoWish, NoObject, Wishes, Sessions, Engines, Object, Thread, Kind

\* Objects in the hands of the registry and of threads were made.
LEMMA ObjectsMade ==
    ASSUME CommandTypes
    PROVE  /\ made \in Nat /\ 0 \in 0..made
           /\ \A o \in 0..made : o \in 0..MaxObjects /\ (o # 0 => o \in Object)
           /\ \A o \in Object : o # 0 /\ o \in 0..MaxObjects
           /\ registered # 0 => registered \in Object /\ registered \in 1..made
           /\ \A t \in Thread : place[t] \in {"reconnect", "connect", "record"} =>
                  want[t].obj \in Object /\ want[t].obj \in 1..made
BY CommandConstants DEF CommandTypes, ObjectTypes, ThreadTypes, RestTypes

LEMMA NoWishIs ==
    /\ NoWish \in Wishes /\ NoWish.kind = "acp" /\ NoWish.mode = "default" /\ NoWish.obj = 0
    /\ \A m \in Mode, o \in Nat :
         LET wish == [NoWish EXCEPT !.mode = m, !.obj = o]
         IN  wish \in Wishes /\ wish.kind = "acp" /\ wish.mode = m /\ wish.obj = o
BY CommandConstants DEF Wishes

\* One field of one object is assigned.
Same(a, b) == a.kind = b.kind /\ a.dir = b.dir /\ a.config = b.config /\ a.warned = b.warned

LEMMA ModeAssigned ==
    ASSUME NEW f \in [Object -> Sessions], NEW o \in Object, NEW m \in Mode,
           NEW g, g = [f EXCEPT ![o].mode = m]
    PROVE  /\ g \in [Object -> Sessions] /\ \A q \in Object \ {o} : g[q] = f[q]
           /\ g[o].mode = m /\ Same(g[o], f[o]) /\ g[o].engine = f[o].engine /\ g[o].runs = f[o].runs
BY DEF Sessions, Same

LEMMA RunsAssigned ==
    ASSUME NEW f \in [Object -> Sessions], NEW o \in Object, NEW m \in Mode,
           NEW g, g = [f EXCEPT ![o].runs = m]
    PROVE  /\ g \in [Object -> Sessions] /\ \A q \in Object \ {o} : g[q] = f[q]
           /\ g[o].runs = m /\ Same(g[o], f[o]) /\ g[o].engine = f[o].engine /\ g[o].mode = f[o].mode
BY DEF Sessions, Same

LEMMA EngineAssigned ==
    ASSUME NEW f \in [Object -> Sessions], NEW o \in Object, NEW e \in Engines,
           NEW g, g = [f EXCEPT ![o].engine = e]
    PROVE  /\ g \in [Object -> Sessions] /\ \A q \in Object \ {o} : g[q] = f[q]
           /\ g[o].engine = e /\ Same(g[o], f[o]) /\ g[o].mode = f[o].mode /\ g[o].runs = f[o].runs
BY DEF Sessions, Same

LEMMA CommandStarts == CommandInit => CommandInv
<1> SUFFICES ASSUME CommandInit PROVE CommandInv
    OBVIOUS
<1>1. CommandTypes
    BY CommandConstants DEF CommandInit, CommandTypes, ObjectTypes, ThreadTypes, RestTypes
<1>2. KindInv
    BY CommandConstants DEF CommandInit, KindInv, ObjectKinds, ThreadKinds, NoObject
<1>3. ReachInv /\ ModeInv
    BY CommandConstants DEF CommandInit, ReachInv, EngineIsReachable, ModeInv, Connected
<1> QED BY <1>1, <1>2, <1>3 DEF CommandInv

\* A thread moves on, with what it has to do.
LEMMA ThreadMoves ==
    ASSUME CommandTypes, ThreadKinds, NEW t \in Thread,
           NEW there \in {"idle", "create", "reconnect", "connect", "record"}, NEW wish \in Wishes,
           Moves(t, there, wish), made' \in made..MaxObjects, \A q \in 1..made : obj'[q].kind = obj[q].kind,
           wish.obj \in 0..made', there \in {"reconnect", "connect", "record"} => wish.obj # 0,
           wish.kind = "pty" => wish.mode = "default",
           there = "record" => obj'[wish.obj].kind = "acp",
           there = "connect" => (obj'[wish.obj].kind = "pty" => wish.mode = "default")
    PROVE  ThreadTypes' /\ ThreadKinds'
<1>1. place' = [place EXCEPT ![t] = there] /\ want' = [want EXCEPT ![t] = wish]
    BY DEF Moves
<1>2. \A n \in 0..made : n \in 0..made'
    BY ObjectsMade, CommandConstants
<1>3. ThreadTypes'
    BY <1>1, <1>2 DEF CommandTypes, ThreadTypes
<1>4. ASSUME NEW u \in Thread \ {t}, place[u] \in {"record", "connect"} PROVE obj'[want[u].obj].kind = obj[want[u].obj].kind
    BY <1>4, ObjectsMade
<1>5. ThreadKinds'
    BY <1>1, <1>4 DEF CommandTypes, ThreadTypes, ThreadKinds
<1> QED BY <1>3, <1>5

LEMMA ThreadsStay ==
    ASSUME CommandTypes, ThreadKinds, UNCHANGED threads,
           made' \in made..MaxObjects, \A q \in 1..made : obj'[q].kind = obj[q].kind
    PROVE  ThreadTypes' /\ ThreadKinds'
<1>2. \A n \in 0..made : n \in 0..made'
    BY ObjectsMade, CommandConstants
<1>3. ThreadTypes'
    BY <1>2 DEF CommandTypes, ThreadTypes, threads
<1>4. ASSUME NEW u \in Thread, place[u] \in {"record", "connect"} PROVE obj'[want[u].obj].kind = obj[want[u].obj].kind
    BY <1>4, ObjectsMade
<1>5. ThreadKinds'
    BY <1>4 DEF CommandTypes, ThreadTypes, ThreadKinds, threads
<1> QED BY <1>3, <1>5

\* A thread gets something to do: neither modes nor records are touched.
LEMMA ThreadGetsWish ==
    ASSUME CommandInv, NEW t \in Thread, place[t] \notin {"record"}, NEW there \in {"idle", "create"},
           NEW wish \in Wishes, wish.obj = 0, wish.kind = "pty" => wish.mode = "default",
           Moves(t, there, wish), commands' \in Nat,
           UNCHANGED <<registry, modeReports, commandGhosts>>
    PROVE  CommandInv'
<1> USE DEF registry, commandGhosts, Moves, CommandInv
<1>1. CommandTypes'
    BY DEF CommandTypes, ObjectTypes, ThreadTypes, RestTypes
<1>2. KindInv'
    BY DEF CommandTypes, ObjectTypes, ThreadTypes, RestTypes, KindInv, ObjectKinds, ThreadKinds
<1>3. ReachInv'
    BY DEF CommandTypes, ObjectTypes, ThreadTypes, RestTypes, ReachInv, EngineIsReachable, Connected
<1>4. ASSUME NEW o PROVE OnItsWay(o) => OnItsWay(o)'
    BY DEF CommandTypes, ObjectTypes, ThreadTypes, RestTypes, OnItsWay, Recording
<1>5. ModeInv'
    BY <1>4 DEF ModeInv
<1> QED BY <1>1, <1>2, <1>3, <1>5

LEMMA StartSteps == ASSUME CommandInv, HandleSessionStart \/ AutoCreate PROVE CommandInv'
<1> USE DEF Command
<1>0. commands \in Nat /\ \A t \in Thread : place[t] \in {"idle", "create", "reconnect", "connect", "record"}
    BY DEF CommandInv, CommandTypes, ObjectTypes, ThreadTypes, RestTypes
<1>1. ASSUME NEW t \in Thread, NEW wish \in Wishes, wish.obj = 0, wish.kind = "pty" => wish.mode = "default",
             place[t] = "idle", Moves(t, "create", wish), commands' = commands + 1,
             UNCHANGED <<registry, modeReports, commandGhosts>>
      PROVE  CommandInv'
    BY <1>0, <1>1, ThreadGetsWish
<1>2. Dirs \subseteq Dir
    BY CommandConstants DEF Dirs
<1>3. CASE HandleSessionStart
    <2>1. PICK k \in Kind, d \in Dirs, m \in Mode :
              /\ k = "pty" => m = "default"
              /\ Moves("worker", "create", [kind |-> k, dir |-> d, mode |-> m, obj |-> 0])
        BY <1>3 DEF HandleSessionStart
    <2>2. [kind |-> k, dir |-> d, mode |-> m, obj |-> 0] \in Wishes
        BY <1>2 DEF Wishes
    <2> QED BY <1>1, <1>3, <2>1, <2>2, CommandConstants DEF HandleSessionStart
<1>4. CASE AutoCreate
    <2>1. PICK k \in Kind, d \in Dirs :
              Moves("lane", "create", [kind |-> k, dir |-> d, mode |-> "default", obj |-> 0])
        BY <1>4 DEF AutoCreate
    <2>2. [kind |-> k, dir |-> d, mode |-> "default", obj |-> 0] \in Wishes
        BY <1>2, CommandConstants DEF Wishes
    <2> QED BY <1>1, <1>4, <2>1, <2>2, CommandConstants DEF AutoCreate
<1> QED BY <1>3, <1>4

\* What is closed keeps everything but its engine.
LEMMA ClosedKeeps ==
    ASSUME CommandTypes, NEW o \in 1..made
    PROVE  /\ Closed(o) \in [Object -> Sessions]
           /\ \A q \in Object \ {o} : Closed(o)[q] = obj[q]
           /\ \A q \in Object :
                /\ Closed(o)[q].kind = obj[q].kind /\ Closed(o)[q].mode = obj[q].mode
                /\ Closed(o)[q].runs = obj[q].runs /\ Closed(o)[q].config = obj[q].config
                /\ Closed(o)[q].warned = obj[q].warned /\ Closed(o)[q].dir = obj[q].dir
           /\ Closed(o)[o].engine = IF Connected(o) THEN "closed" ELSE obj[o].engine
<1>1. o \in Object
    BY ObjectsMade, CommandConstants DEF CommandTypes, ObjectTypes, ThreadTypes, RestTypes
<1>2. "closed" \in Engines
    BY DEF Engines
<1> QED BY <1>1, <1>2 DEF CommandTypes, ObjectTypes, ThreadTypes, RestTypes, Closed, Sessions

\* The id is dropped with what it holds.
LEMMA DropSteps ==
    ASSUME CommandInv, registered # 0, registered' = 0, Removed(Thread),
           obj' = Closed(registered) \/ (obj' = obj /\ ~Connected(registered)),
           commands' \in Nat, UNCHANGED <<made, threads, modeReports, doubtful>>
    PROVE  CommandInv'
<1> USE DEF threads, CommandInv
<1>0. registered \in 1..made /\ registered \in Object
    BY CommandConstants DEF CommandTypes, ObjectTypes, ThreadTypes, RestTypes
<1>1. /\ obj' \in [Object -> Sessions]
      /\ \A q \in Object : /\ obj'[q].kind = obj[q].kind /\ obj'[q].mode = obj[q].mode /\ obj'[q].runs = obj[q].runs
                           /\ obj'[q].config = obj[q].config
                           /\ obj'[q].engine = obj[q].engine \/ (q = registered /\ obj'[q].engine = "closed"
                                                                 /\ obj[q].engine # "none")
      /\ obj'[registered].engine \notin {"setup", "ready", "stuck"}
    BY <1>0, ClosedKeeps DEF CommandTypes, ObjectTypes, ThreadTypes, RestTypes, Connected
<1>2. /\ raced' \subseteq raced \cup {registered} /\ raced \subseteq raced'
      /\ (\E t \in Thread : place[t] \in {"connect", "reconnect"}) => registered \in raced'
    BY DEF Removed
<1>3. CommandTypes'
    <2>1. \A q \in Object : (obj'[q].engine = "none") = (q > made)
        BY <1>1 DEF CommandTypes, ObjectTypes, ThreadTypes, RestTypes
    <2>2. registered' \in 0..made /\ raced' \subseteq 0..MaxObjects
        BY <1>2, ObjectsMade DEF CommandTypes, ObjectTypes, ThreadTypes, RestTypes
    <2> QED BY <1>1, <2>1, <2>2 DEF CommandTypes, ObjectTypes, ThreadTypes, RestTypes
<1>4. KindInv'
    BY <1>1, ObjectsMade DEF KindInv, ObjectKinds, ThreadKinds
<1>5. ReachInv'
    BY <1>0, <1>1, <1>2 DEF ReachInv, EngineIsReachable, Connected
<1>6. ModeInv'
    BY DEF ModeInv
<1> QED BY <1>3, <1>4, <1>5, <1>6

LEMMA StopSteps == ASSUME CommandInv, HandleSessionStop \/ StopDead \/ FallBack PROVE CommandInv'
<1>0. commands \in Nat
    BY DEF CommandInv, CommandTypes, ObjectTypes, ThreadTypes, RestTypes
<1>1. CASE HandleSessionStop
    BY <1>0, <1>1, DropSteps DEF HandleSessionStop, Command
<1>2. CASE StopDead
    BY <1>0, <1>2, DropSteps DEF StopDead
<1>3. CASE FallBack /\ falling /\ registered # 0
    BY <1>0, <1>3, DropSteps DEF FallBack
<1>4. CASE FallBack /\ ~(falling /\ registered # 0)
    <2>1. UNCHANGED <<registry, raced, threads, modeReports, commands, doubtful>>
        BY <1>4 DEF FallBack, registry
    <2>2. CommandTypes' /\ KindInv'
        BY <2>1 DEF CommandInv, CommandTypes, ObjectTypes, ThreadTypes, RestTypes, KindInv, ObjectKinds, ThreadKinds, registry, threads
    <2>3. ReachInv'
        BY <2>1 DEF CommandInv, ReachInv, EngineIsReachable, registry, threads, Connected
    <2>4. ModeInv'
        BY <2>1 DEF CommandInv, ModeInv, OnItsWay, Recording, registry, threads
    <2> QED BY <2>2, <2>3, <2>4 DEF CommandInv
<1> QED BY <1>1, <1>2, <1>3, <1>4

LEMMA ChangeDirSteps == ASSUME CommandInv, HandleSessionChangeDir PROVE CommandInv'
<1> USE DEF CommandInv, HandleSessionChangeDir, Command, threads, commandGhosts
<1>0. registered \in 1..made /\ registered \in Object
    BY CommandConstants DEF CommandTypes, ObjectTypes, ThreadTypes, RestTypes
<1>1. PICK d \in Dir : obj' = [obj EXCEPT ![registered].dir = d]
    OBVIOUS
<1>2. /\ obj' \in [Object -> Sessions]
      /\ \A q \in Object : /\ obj'[q].kind = obj[q].kind /\ obj'[q].mode = obj[q].mode /\ obj'[q].runs = obj[q].runs
                           /\ obj'[q].config = obj[q].config /\ obj'[q].engine = obj[q].engine
    BY <1>0, <1>1 DEF CommandTypes, ObjectTypes, ThreadTypes, RestTypes, Sessions
<1>3. CommandTypes'
    BY <1>2 DEF CommandTypes, ObjectTypes, ThreadTypes, RestTypes
<1>4. KindInv'
    BY <1>2, CommandConstants DEF CommandTypes, ObjectTypes, ThreadTypes, RestTypes, KindInv, ObjectKinds, ThreadKinds
<1>5. ReachInv'
    BY <1>0, <1>2 DEF ReachInv, EngineIsReachable, Connected
<1>6. ModeInv'
    BY <1>0, <1>2, CommandConstants DEF ModeInv
<1> QED BY <1>3, <1>4, <1>5, <1>6

\* A change of mode of the registered session.
LEMMA SetModeSteps ==
    ASSUME CommandInv, NEW t \in Thread, place[t] \in {"idle", "create"}, registered # 0,
           obj[registered].kind = "acp", NEW m \in Mode, SetMode(t, registered, m),
           commands' \in Nat, UNCHANGED <<registered, made, modeReports, raced>>
    PROVE  CommandInv'
<1> DEFINE o == registered
<1> USE DEF CommandInv
<1>0. o \in 1..made /\ o \in Object
    BY CommandConstants DEF CommandTypes, ObjectTypes, ThreadTypes, RestTypes
<1>1. CASE UNCHANGED <<obj, doubtful>> /\ Rest(t)
    BY <1>1, ThreadGetsWish, CommandConstants DEF Rest, registry, commandGhosts
<1>2. CASE obj[o].engine = "ready" /\ obj' = [obj EXCEPT ![o].runs = m]
    <2>1. /\ obj' \in [Object -> Sessions] /\ \A q \in Object \ {o} : obj'[q] = obj[q]
          /\ obj'[o].runs = m /\ Same(obj'[o], obj[o]) /\ obj'[o].engine = "ready" /\ obj'[o].mode = obj[o].mode
        <3> HIDE DEF o
        <3> QED BY <1>0, <1>2, RunsAssigned DEF CommandTypes, ObjectTypes
    <2>2. \A q \in Object : obj'[q].kind = obj[q].kind /\ obj'[q].engine = obj[q].engine
        BY <1>0, <1>2, <2>1 DEF Same
    <2>3. ObjectTypes'
        BY <2>1, <2>2 DEF CommandTypes, ObjectTypes
    <2>4. ObjectKinds'
        BY <1>0, <1>2, <2>1 DEF KindInv, ObjectKinds, Same
    <2>5. made' \in made..MaxObjects /\ \A q \in 1..made : obj'[q].kind = obj[q].kind
        BY <2>2, ObjectsMade, CommandConstants DEF CommandTypes, ObjectTypes
    <2>6. CASE doubtful' = doubtful \cup {o} /\ Rest(t)
        <3>1. ThreadTypes' /\ ThreadKinds'
            BY <2>5, <2>6, ThreadMoves, NoWishIs, ObjectsMade DEF Rest, KindInv
        <3>2. RestTypes'
            BY <2>6, ObjectsMade DEF CommandTypes, RestTypes
        <3>3. ReachInv'
            BY <2>2, <2>6 DEF CommandTypes, ThreadTypes, ReachInv, EngineIsReachable, Connected, Rest, Moves
        <3>4. ModeInv'
            BY <2>6 DEF ModeInv
        <3> QED BY <2>3, <2>4, <3>1, <3>2, <3>3, <3>4 DEF CommandTypes, KindInv
    <2>7. CASE Moves(t, "record", [NoWish EXCEPT !.mode = m, !.obj = o]) /\ Change(o, m)
        <3> DEFINE wish == [NoWish EXCEPT !.mode = m, !.obj = o]
        <3>0. wish \in Wishes /\ wish.mode = m /\ wish.obj = o /\ wish.kind = "acp"
            <4>1. registered \in Nat
                BY ObjectsMade
            <4>2. NoWish \in Wishes /\ NoWish.kind = "acp"
                BY NoWishIs
            <4> QED BY <4>1, <4>2 DEF Wishes
        <3> HIDE DEF wish
        <3>1. Moves(t, "record", wish)
            BY <2>7 DEF wish
        <3>2. doubtful' \subseteq doubtful \cup {o} /\ doubtful \subseteq doubtful'
            BY <2>7 DEF Change
        <3>3. ThreadTypes' /\ ThreadKinds'
            <4>1. wish.obj \in 0..made' /\ wish.obj # 0 /\ obj'[wish.obj].kind = "acp"
                BY <1>0, <2>2, <3>0, ObjectsMade
            <4> QED BY <2>5, <3>0, <3>1, <4>1, ThreadMoves DEF KindInv
        <3>4. RestTypes'
            BY <3>2, ObjectsMade DEF CommandTypes, RestTypes
        <3>5. ReachInv'
            BY <2>2, <3>0, <3>1 DEF CommandTypes, ThreadTypes, ReachInv, EngineIsReachable, Connected, Moves
        <3>6. ModeInv'
            <4>1. SUFFICES ASSUME o \notin doubtful' PROVE OnItsWay(o)'
                BY DEF ModeInv
            <4>2. modeReports = <<>> /\ \A u \in Thread : place[u] # "record"
                BY <2>7, <4>1 DEF Change
            <4>3. place'[t] = "record" /\ want'[t].obj = o /\ want'[t].mode = m
                BY <3>0, <3>1 DEF CommandTypes, ThreadTypes, Moves
            <4>4. \A u \in Thread : place'[u] = "record" => u = t
                BY <3>1, <4>2 DEF CommandTypes, ThreadTypes, Moves
            <4> QED BY <2>1, <4>2, <4>3, <4>4 DEF OnItsWay, Recording
        <3> QED BY <2>3, <2>4, <3>3, <3>4, <3>5, <3>6 DEF CommandTypes, KindInv
    <2> QED BY <1>2, <2>6, <2>7, <1>1 DEF SetMode
<1> QED BY <1>1, <1>2 DEF SetMode

LEMMA SpecUpdateSteps == ASSUME CommandInv, NEW m \in Mode, HandleSessionSpecUpdate(m) PROVE CommandInv'
<1>1. "worker" \in Thread /\ commands' \in Nat
    BY CommandConstants DEF HandleSessionSpecUpdate, Command, CommandInv, CommandTypes, ObjectTypes, ThreadTypes, RestTypes
<1> QED BY <1>1, SetModeSteps DEF HandleSessionSpecUpdate

LEMMA RecordSteps == ASSUME CommandInv, NEW t \in Thread, RecordMode(t) PROVE CommandInv'
<1> DEFINE o == want[t].obj
<1> USE DEF CommandInv
<1>0. o \in 1..made /\ o \in Object /\ want[t].mode \in Mode /\ obj[o].kind = "acp" /\ place[t] = "record"
    BY ObjectsMade DEF CommandTypes, ThreadTypes, RecordMode, Wishes, KindInv, ThreadKinds
<1>1. /\ obj' \in [Object -> Sessions] /\ \A q \in Object \ {o} : obj'[q] = obj[q]
      /\ obj'[o].mode = want[t].mode /\ Same(obj'[o], obj[o]) /\ obj'[o].engine = obj[o].engine
      /\ obj'[o].runs = obj[o].runs
    <2> DEFINE m == want[t].mode
    <2>1. obj' = [obj EXCEPT ![o].mode = m]
        BY DEF RecordMode
    <2> HIDE DEF o, m
    <2>2. m \in Mode
        BY <1>0 DEF m
    <2> QED BY <1>0, <2>1, <2>2, ModeAssigned DEF CommandTypes, ObjectTypes, m
<1>2. /\ UNCHANGED <<registered, made, modeReports, raced, doubtful, commands>>
      /\ place' = [place EXCEPT ![t] = "idle"] /\ want' = [want EXCEPT ![t] = NoWish]
    BY DEF RecordMode, Rest, Moves, commandGhosts
<1>a. \A q \in Object : obj'[q].kind = obj[q].kind /\ obj'[q].engine = obj[q].engine /\ obj'[q].runs = obj[q].runs
                         /\ obj'[q].warned = obj[q].warned
    BY <1>0, <1>1 DEF Same
<1>3. CommandTypes' /\ KindInv'
    <2>1. ObjectTypes' /\ RestTypes'
        BY <1>1, <1>2, <1>a DEF CommandTypes, ObjectTypes, RestTypes
    <2>2. ObjectKinds'
        BY <1>0, <1>1 DEF KindInv, ObjectKinds, Same
    <2>3. made' \in made..MaxObjects /\ \A q \in 1..made : obj'[q].kind = obj[q].kind
        BY <1>2, <1>a, ObjectsMade, CommandConstants DEF CommandTypes, ObjectTypes
    <2>4. ThreadTypes' /\ ThreadKinds'
        BY <1>2, <2>3, ThreadMoves, NoWishIs, ObjectsMade DEF Moves, KindInv
    <2> QED BY <2>1, <2>2, <2>4 DEF CommandTypes, KindInv
<1>5. ReachInv'
    BY <1>a, <1>2 DEF CommandTypes, ThreadTypes, ReachInv, EngineIsReachable, Connected
<1>6. ModeInv'
    <2>1. SUFFICES ASSUME registered # 0, OnItsWay(registered) PROVE OnItsWay(registered)'
        BY <1>1, <1>2, <1>a, CommandConstants DEF ModeInv, CommandTypes, ObjectTypes, ThreadTypes, RestTypes
    <2>2. registered \in Object
        BY <2>1, CommandConstants DEF CommandTypes, ObjectTypes, ThreadTypes, RestTypes
    <2>3. \A u \in Thread : Recording(u, registered)' => u # t /\ Recording(u, registered) /\ want'[u] = want[u]
        BY <1>2 DEF Recording, CommandTypes, ObjectTypes, ThreadTypes, RestTypes
    <2>4. CASE modeReports # <<>>
        BY <1>a, <1>2, <2>1, <2>2, <2>4 DEF OnItsWay
    <2>5. CASE modeReports = <<>> /\ o = registered
        BY <1>0, <1>1, <1>a, <1>2, <2>1, <2>2, <2>3, <2>5 DEF OnItsWay, Recording
    <2>6. CASE modeReports = <<>> /\ o # registered
        <3>1. \A u \in Thread : Recording(u, registered) => Recording(u, registered)'
            BY <1>2, <2>6 DEF Recording, CommandTypes, ObjectTypes, ThreadTypes, RestTypes
        <3> QED BY <1>1, <1>2, <2>1, <2>2, <2>3, <2>6, <3>1 DEF OnItsWay
    <2> QED BY <2>4, <2>5, <2>6
<1> QED BY <1>3, <1>5, <1>6

\* createSession puts a new object in the registry; what was there is closed, or
\* known to be raced.
LEMMA RegisterSteps ==
    ASSUME CommandInv, NEW t \in Thread, place[t] \in {"create", "reconnect"}, NEW old \in 0..made, Register(t, old),
           raced \subseteq raced', raced' \subseteq raced \cup (0..MaxObjects),
           registered # 0 => \/ registered \in raced'
                             \/ /\ old = registered
                                /\ \A u \in Thread \ {t} : place[u] \notin {"connect", "reconnect"},
           UNCHANGED <<modeReports, doubtful>>, commands' \in Nat
    PROVE  CommandInv'
<1> DEFINE o == made + 1
           new == [NoObject EXCEPT !.kind = want[t].kind, !.dir = want[t].dir, !.mode = want[t].mode, !.engine = "connecting"]
           wish == [want[t] EXCEPT !.obj = o]
<1>1. /\ made' = o /\ registered' = o /\ Moves(t, "connect", wish) /\ made < MaxObjects
      /\ obj' = [Replaced(old) EXCEPT ![o] = new]
    BY DEF Register
<1>2. made \in Nat /\ o \in Object /\ o \in 0..MaxObjects /\ o \notin 0..made /\ o # 0 /\ o > made
    BY <1>1, ObjectsMade, CommandConstants DEF CommandInv
<1>3. want[t] \in Wishes /\ (want[t].kind = "pty" => want[t].mode = "default")
    BY DEF CommandInv, CommandTypes, ThreadTypes, KindInv, ThreadKinds
<1>4. /\ new \in Sessions /\ new.kind = want[t].kind /\ new.mode = want[t].mode /\ new.engine = "connecting"
      /\ new.config = "unset" /\ new.runs = "default"
    BY <1>3, CommandConstants DEF Sessions, Wishes, Engines
<1>5. wish \in Wishes /\ wish.kind = want[t].kind /\ wish.mode = want[t].mode /\ wish.obj = o
    BY <1>2, <1>3 DEF Wishes
<1> HIDE DEF new, wish, o
<1>6. /\ Replaced(old) \in [Object -> Sessions]
      /\ \A q \in Object : /\ Same(Replaced(old)[q], obj[q]) /\ Replaced(old)[q].mode = obj[q].mode
                           /\ Replaced(old)[q].runs = obj[q].runs
                           /\ Replaced(old)[q].engine \in {obj[q].engine, "closed"}
                           /\ Replaced(old)[q].engine = "closed" => obj[q].engine = "closed" \/ q = old
                           /\ q = old => Replaced(old)[q].engine \notin {"setup", "ready", "stuck"}
    <2>1. CASE old = 0
        BY <2>1, ObjectsMade DEF Replaced, CommandInv, CommandTypes, ObjectTypes, Same
    <2>2. CASE old # 0
        <3>1. old \in 1..made /\ old \in Object
            BY <2>2, ObjectsMade DEF CommandInv
        <3> QED BY <2>2, <3>1, ClosedKeeps DEF Replaced, CommandInv, Same, Connected
    <2> QED BY <2>1, <2>2
<1>7. /\ obj' \in [Object -> Sessions] /\ obj'[o] = new
      /\ \A q \in Object \ {o} : obj'[q] = Replaced(old)[q]
    BY <1>1, <1>2, <1>4, <1>6
<1>8. ObjectTypes'
    <2>1. ASSUME NEW q \in Object PROVE (obj'[q].engine = "none") = (q > o)
        <3>1. CASE q = o
            BY <1>2, <1>4, <1>7, <3>1
        <3>2. CASE q # o
            <4>1. (obj'[q].engine = "none") = (obj[q].engine = "none")
                <5>1. q = old => obj[q].engine # "none"
                    BY ObjectsMade DEF CommandInv, CommandTypes, ObjectTypes
                <5> QED BY <1>6, <1>7, <3>2, <5>1
            <4>2. (q > made) = (q > o)
                BY <1>2, <3>2, CommandConstants DEF o
            <4> QED BY <4>1, <4>2 DEF CommandInv, CommandTypes, ObjectTypes
        <3> QED BY <3>1, <3>2
    <2> QED BY <1>1, <1>2, <1>7, <2>1 DEF ObjectTypes
<1>9. ObjectKinds'
    <2>1. ASSUME NEW q \in Object \ {o} PROVE
              /\ obj'[q].kind = "pty" => /\ obj'[q].mode = "default" /\ obj'[q].runs = "default"
                                         /\ obj'[q].config \in {"unset", "default"}
              /\ obj'[q].engine \in {"setup", "ready", "stuck"} => obj'[q].config # "unset"
              /\ obj'[q].engine = "setup" => obj'[q].kind = "acp"
        BY <1>6, <1>7, <2>1 DEF CommandInv, KindInv, ObjectKinds, Same
    <2> QED BY <1>3, <1>4, <1>7, <2>1 DEF ObjectKinds
<1>10. ThreadTypes' /\ ThreadKinds'
    <2>1. made' \in made..MaxObjects
        BY <1>1, <1>2, CommandConstants DEF o
    <2>2. \A q \in 1..made : q \in Object /\ q # o /\ obj'[q].kind = obj[q].kind
        BY <1>2, <1>6, <1>7, ObjectsMade DEF Same, CommandInv
    <2>3. wish.obj \in 0..made' /\ wish.obj # 0 /\ obj'[wish.obj].kind = want[t].kind
        BY <1>1, <1>2, <1>4, <1>5, <1>7 
    <2> QED BY <1>1, <1>3, <1>5, <2>1, <2>2, <2>3, ThreadMoves DEF CommandInv, KindInv
<1>11. RestTypes'
    BY DEF CommandInv, CommandTypes, RestTypes
<1>12. ReachInv'
    <2>1. ASSUME NEW q \in Object, Connected(q)', q # registered' PROVE q \in raced'
        <3>1. Connected(q) /\ q # old
            <4>1. q # o /\ obj'[q].engine \in {"setup", "ready", "stuck"}
                BY <1>1, <2>1 DEF Connected
            <4>2. obj'[q] = Replaced(old)[q]
                BY <1>7, <4>1
            <4> QED BY <1>6, <4>1, <4>2 DEF Connected
        <3>2. q # 0 /\ (q # registered => q \in raced)
            BY <3>1, ObjectsMade DEF CommandInv, ReachInv, EngineIsReachable
        <3> QED BY <3>1, <3>2
    <2>2. ASSUME NEW u \in Thread, place'[u] \in {"connect", "reconnect"} PROVE want'[u].obj \in {registered'} \cup raced'
        <3>1. CASE u = t
            BY <1>1, <1>5, <3>1 DEF Moves, CommandInv, CommandTypes, ThreadTypes
        <3>2. CASE u # t
            <4>1. place'[u] = place[u] /\ want'[u] = want[u]
                BY <1>1, <3>2 DEF Moves, CommandInv, CommandTypes, ThreadTypes
            <4>2. want[u].obj # 0 /\ want[u].obj \in {registered} \cup raced
                BY <2>2, <4>1 DEF CommandInv, ReachInv, CommandTypes, ThreadTypes
            <4> QED BY <2>2, <3>2, <4>1, <4>2
        <3> QED BY <3>1, <3>2
    <2> QED BY <2>1, <2>2 DEF ReachInv, EngineIsReachable
<1>13. ModeInv'
    BY <1>1, <1>4, <1>7 DEF ModeInv
<1> QED BY <1>8, <1>9, <1>10, <1>11, <1>12, <1>13 DEF CommandInv, CommandTypes, KindInv

LEMMA CreateSteps == ASSUME CommandInv, NEW t \in Thread, Create(t) PROVE CommandInv'
<1> USE DEF Create, registry, commandGhosts
<1>0. commands' \in Nat /\ UNCHANGED <<modeReports, falling, commands>>
    BY DEF CommandInv, CommandTypes, RestTypes
<1>1. CASE Rest(t) /\ UNCHANGED <<registry, commandGhosts>>
    BY <1>0, <1>1, ThreadGetsWish, NoWishIs DEF Rest
<1>2. CASE /\ registered # 0 /\ CanResume(registered, want[t])
           /\ IF obj[registered].kind = "acp" /\ want[t].mode # obj[registered].mode
                THEN SetMode(t, registered, want[t].mode) ELSE Rest(t) /\ UNCHANGED <<obj, doubtful>>
           /\ UNCHANGED <<registered, made, raced>>
    <2>1. want[t].mode \in Mode
        BY DEF CommandInv, CommandTypes, ThreadTypes, Wishes
    <2>2. CASE obj[registered].kind = "acp" /\ SetMode(t, registered, want[t].mode)
        BY <1>0, <1>2, <2>1, <2>2, SetModeSteps
    <2>3. CASE Rest(t) /\ UNCHANGED <<obj, doubtful>>
        BY <1>0, <1>2, <2>3, ThreadGetsWish, NoWishIs DEF Rest
    <2> QED BY <1>2, <2>2, <2>3
<1>3. CASE /\ registered # 0 /\ ~Connected(registered)
           /\ Moves(t, "reconnect", [want[t] EXCEPT !.obj = registered])
           /\ UNCHANGED <<registry, commandGhosts>>
    <2> DEFINE wish == [want[t] EXCEPT !.obj = registered]
    <2>1. /\ wish \in Wishes /\ wish.obj = registered /\ wish.kind = want[t].kind /\ wish.mode = want[t].mode
          /\ want[t].kind = "pty" => want[t].mode = "default"
        BY ObjectsMade DEF CommandInv, CommandTypes, ThreadTypes, ObjectTypes, Wishes, KindInv, ThreadKinds
    <2> HIDE DEF wish
    <2>2. Moves(t, "reconnect", wish)
        BY <1>3 DEF wish
    <2>3. ThreadTypes' /\ ThreadKinds'
        <3>1. made' \in made..MaxObjects /\ wish.obj \in 0..made' /\ wish.obj # 0
            BY <1>3, <2>1, ObjectsMade, CommandConstants DEF CommandInv, CommandTypes, ObjectTypes
        <3> QED BY <1>3, <2>1, <2>2, <3>1, ThreadMoves DEF CommandInv, KindInv
    <2>4. ObjectTypes' /\ RestTypes' /\ ObjectKinds'
        BY <1>0, <1>3 DEF CommandInv, CommandTypes, ObjectTypes, RestTypes, KindInv, ObjectKinds
    <2>5. ReachInv'
        BY <1>3, <2>1, <2>2 DEF CommandInv, CommandTypes, ThreadTypes, ReachInv, EngineIsReachable, Connected, Moves
    <2>6. ASSUME NEW q PROVE OnItsWay(q) => OnItsWay(q)'
        BY <1>0, <1>3, <2>2 DEF CommandInv, CommandTypes, ThreadTypes, OnItsWay, Recording, Moves
    <2>7. ModeInv'
        BY <1>3, <2>6 DEF CommandInv, ModeInv
    <2> QED BY <2>3, <2>4, <2>5, <2>7 DEF CommandInv, CommandTypes, KindInv
<1>4. CASE /\ registered # 0 /\ ~CanResume(registered, want[t]) /\ Connected(registered)
           /\ Register(t, registered) /\ Removed(Thread \ {t})
           /\ UNCHANGED doubtful
    <2>1. registered \in 0..made /\ registered \in 0..MaxObjects
        BY ObjectsMade DEF CommandInv, CommandTypes, ObjectTypes
    <2>2. /\ raced \subseteq raced' /\ raced' \subseteq raced \cup {registered}
          /\ registered \in raced' \/ \A u \in Thread \ {t} : place[u] \notin {"connect", "reconnect"}
        BY <1>4 DEF Removed
    <2> QED BY <1>0, <1>4, <2>1, <2>2, RegisterSteps
<1>5. CASE registered = 0 /\ Register(t, 0) /\ UNCHANGED commandGhosts
    <2>1. 0 \in 0..made
        BY ObjectsMade DEF CommandInv
    <2> QED BY <1>0, <1>5, <2>1, RegisterSteps
<1> QED BY <1>1, <1>2, <1>3, <1>4, <1>5

\* Connected: up, or to be set up.
LEMMA StartedIs ==
    ASSUME CommandTypes, NEW o \in 1..made, NEW m \in Mode, NEW started \in Started(o, m)
    PROVE  /\ started \in Sessions /\ started.kind = obj[o].kind /\ started.mode = obj[o].mode /\ started.config = m
           /\ started.engine = (IF obj[o].kind = "pty" THEN "ready" ELSE "setup")
           /\ started.runs = (IF obj[o].kind = "pty" THEN m ELSE "default")
<1>1. obj[o] \in Sessions
    BY ObjectsMade DEF CommandTypes, ObjectTypes
<1>2. CASE obj[o].kind = "pty"
    <2>1. started = [obj[o] EXCEPT !.engine = "ready", !.runs = m, !.config = m]
        BY <1>2 DEF Started
    <2> QED BY <1>1, <1>2, <2>1 DEF Sessions, Engines
<1>3. CASE obj[o].kind # "pty"
    <2>1. PICK w \in BOOLEAN :
              started = [obj[o] EXCEPT !.engine = "setup", !.runs = "default", !.config = m, !.warned = w]
        <3>1. PICK a \in ApplyPermissionMode(m) :
                  started = [obj[o] EXCEPT !.engine = "setup", !.runs = "default", !.config = a.mode, !.warned = a.warned]
            BY <1>3 DEF Started
        <3>2. a.mode = m /\ a.warned \in BOOLEAN
            BY DEF ApplyPermissionMode
        <3> QED BY <3>1, <3>2
    <2> QED BY <1>1, <1>3, <2>1, CommandConstants DEF Sessions, Engines
<1> QED BY <1>2, <1>3

\* An object that is registered, or known to be raced, gets an engine; its
\* thread rests.
LEMMA StartedSteps ==
    ASSUME CommandInv, NEW t \in Thread, place[t] \in {"connect", "reconnect"}, NEW o, o = want[t].obj,
           NEW m \in Mode, obj[o].kind = "pty" => m = "default",
           NEW started \in Sessions, started.kind = obj[o].kind, started.mode = obj[o].mode, started.config = m,
           started.engine = (IF obj[o].kind = "pty" THEN "ready" ELSE "setup"),
           started.runs = (IF obj[o].kind = "pty" THEN m ELSE "default"),
           obj' = [obj EXCEPT ![o] = started], Rest(t),
           UNCHANGED <<registered, made, raced, doubtful, modeReports, commands>>
    PROVE  CommandInv'
<1>0. o \in 1..made /\ o \in Object /\ o \in {registered} \cup raced
    BY ObjectsMade DEF CommandInv, ReachInv
<1>1. obj' \in [Object -> Sessions] /\ obj'[o] = started /\ \A q \in Object \ {o} : obj'[q] = obj[q]
    BY <1>0 DEF CommandInv, CommandTypes, ObjectTypes
<1>2. \A q \in Object : obj'[q].kind = obj[q].kind
    BY <1>1
<1>3. ObjectTypes'
    <2>1. obj[o].engine # "none" /\ obj'[o].engine # "none"
        BY <1>0, <1>1, ObjectsMade DEF CommandInv, CommandTypes, ObjectTypes
    <2>2. \A q \in Object : (obj'[q].engine = "none") = (q > made)
        BY <1>1, <2>1 DEF CommandInv, CommandTypes, ObjectTypes
    <2> QED BY <1>1, <2>2 DEF CommandInv, CommandTypes, ObjectTypes
<1>4. ObjectKinds'
    <2>1. ASSUME NEW q \in Object
          PROVE  /\ obj'[q].kind = "pty" => /\ obj'[q].mode = "default" /\ obj'[q].runs = "default"
                                            /\ obj'[q].config \in {"unset", "default"}
                 /\ obj'[q].engine \in {"setup", "ready", "stuck"} => obj'[q].config # "unset"
                 /\ obj'[q].engine = "setup" => obj'[q].kind = "acp"
        <3>1. CASE q = o
            <4>1. obj[o].kind = "pty" => obj[o].mode = "default"
                BY <1>0 DEF CommandInv, KindInv, ObjectKinds
            <4>2. obj[o].kind \in {"acp", "pty"}
                BY <1>0, CommandConstants DEF CommandInv, CommandTypes, ObjectTypes, Sessions
            <4> QED BY <1>1, <3>1, <4>1, <4>2, CommandConstants
        <3>2. CASE q # o
            BY <1>1, <3>2 DEF CommandInv, KindInv, ObjectKinds
        <3> QED BY <3>1, <3>2
    <2> QED BY <2>1 DEF ObjectKinds
<1>5. ThreadTypes' /\ ThreadKinds'
    <2>1. made' \in made..MaxObjects /\ \A q \in 1..made : obj'[q].kind = obj[q].kind
        BY <1>2, ObjectsMade, CommandConstants DEF CommandInv, CommandTypes, ObjectTypes
    <2> QED BY <2>1, ThreadMoves, NoWishIs, ObjectsMade DEF Rest, CommandInv, KindInv
<1>6. RestTypes'
    BY DEF CommandInv, CommandTypes, RestTypes
<1>7. ReachInv'
    BY <1>0, <1>1 DEF CommandInv, CommandTypes, ThreadTypes, ReachInv, EngineIsReachable, Connected, Rest, Moves
<1>8. ModeInv'
    <2>1. SUFFICES ASSUME registered # 0, obj'[registered].kind = "acp", obj'[registered].engine = "ready",
                          registered \notin doubtful, ~obj'[registered].warned
                   PROVE  OnItsWay(registered)'
        BY DEF ModeInv
    <2>2. registered \in Object /\ registered # o
        BY <1>1, <2>1, ObjectsMade DEF CommandInv
    <2>3. OnItsWay(registered)
        BY <1>1, <2>1, <2>2 DEF CommandInv, ModeInv
    <2>4. \A u \in Thread : Recording(u, registered)' = Recording(u, registered)
                            /\ (Recording(u, registered) => want'[u] = want[u])
        BY DEF Rest, Moves, Recording, CommandInv, CommandTypes, ThreadTypes
    <2> QED BY <1>1, <2>2, <2>3, <2>4 DEF OnItsWay
<1> QED BY <1>3, <1>4, <1>5, <1>6, <1>7, <1>8 DEF CommandInv, CommandTypes, KindInv

LEMMA ReconnectSteps == ASSUME CommandInv, NEW t \in Thread, ReconnectSession(t) PROVE CommandInv'
<1> DEFINE o == want[t].obj
<1>0. /\ place[t] = "reconnect" /\ o \in 1..made /\ o \in Object /\ commands' \in Nat
      /\ UNCHANGED <<modeReports, falling, commands, doubtful>>
    BY ObjectsMade DEF ReconnectSession, CommandInv, CommandTypes, RestTypes
<1>1. CASE Rest(t) /\ UNCHANGED <<registry, raced>>
    BY <1>0, <1>1, ThreadGetsWish, NoWishIs DEF Rest, commandGhosts
<1>2. CASE /\ ~Connected(o) /\ ~Connecting(o)
           /\ \E started \in Started(o, obj[o].config) :
                  obj' = [obj EXCEPT ![o] = [started EXCEPT !.warned = obj[o].warned]]
           /\ Rest(t) /\ UNCHANGED <<registered, made, raced>>
    <2> DEFINE m == obj[o].config
    <2>1. m \in Mode /\ (obj[o].kind = "pty" => m = "default")
        BY <1>0, <1>2 DEF Connecting, CommandInv, CommandTypes, ObjectTypes, Sessions, KindInv, ObjectKinds
    <2>2. PICK started \in Started(o, m) : obj' = [obj EXCEPT ![o] = [started EXCEPT !.warned = obj[o].warned]]
        BY <1>2
    <2>3. /\ started \in Sessions /\ started.kind = obj[o].kind /\ started.mode = obj[o].mode /\ started.config = m
          /\ started.engine = (IF obj[o].kind = "pty" THEN "ready" ELSE "setup")
          /\ started.runs = (IF obj[o].kind = "pty" THEN m ELSE "default")
        BY <1>0, <2>1, <2>2, StartedIs DEF CommandInv
    <2> DEFINE now == [started EXCEPT !.warned = obj[o].warned]
    <2>4. /\ now \in Sessions /\ now.kind = obj[o].kind /\ now.mode = obj[o].mode /\ now.config = m
          /\ now.engine = (IF obj[o].kind = "pty" THEN "ready" ELSE "setup")
          /\ now.runs = (IF obj[o].kind = "pty" THEN m ELSE "default")
        <3>1. obj[o].warned \in BOOLEAN
            BY <1>0 DEF CommandInv, CommandTypes, ObjectTypes, Sessions
        <3> HIDE DEF m
        <3> QED BY <2>3, <3>1 DEF Sessions
    <2>5. obj' = [obj EXCEPT ![o] = now]
        BY <2>2
    <2> HIDE DEF now, m
    <2>6. \E x : x = o
        OBVIOUS
    <2> QED BY <1>0, <1>2, <2>1, <2>4, <2>5, StartedSteps
<1>3. CASE ~Connected(o) /\ Register(t, o) /\ Removed(Thread)
    <2>1. o \in 0..made
        BY <1>0, ObjectsMade DEF CommandInv, CommandTypes, ThreadTypes
    <2>2. /\ raced \subseteq raced' /\ raced' \subseteq raced \cup {registered}
          /\ registered # 0 => registered \in raced'
        BY <1>0, <1>3 DEF Removed
    <2>3. registered \in 0..MaxObjects
        BY ObjectsMade DEF CommandInv, CommandTypes, ObjectTypes
    <2> HIDE DEF o
    <2> QED BY <1>0, <1>3, <2>1, <2>2, <2>3, RegisterSteps
<1> QED BY <1>1, <1>2, <1>3 DEF ReconnectSession

LEMMA ConnectSteps == ASSUME CommandInv, NEW t \in Thread, Connect(t) PROVE CommandInv'
<1> DEFINE o == want[t].obj
<1>0. /\ place[t] = "connect" /\ o \in 1..made /\ o \in Object /\ commands \in Nat
      /\ Rest(t) /\ UNCHANGED <<made, modeReports, falling, commands, doubtful>>
    BY ObjectsMade DEF Connect, CommandInv, CommandTypes, RestTypes
<1>1. CASE \E started \in Started(o, want[t].mode) : obj' = [obj EXCEPT ![o] = started] /\ UNCHANGED <<registered, raced>>
    <2> DEFINE m == want[t].mode
    <2>1. m \in Mode /\ (obj[o].kind = "pty" => m = "default")
        BY <1>0 DEF CommandInv, CommandTypes, ThreadTypes, Wishes, KindInv, ThreadKinds
    <2>2. PICK started \in Started(o, m) : obj' = [obj EXCEPT ![o] = started]
        BY <1>1
    <2> HIDE DEF m
    <2>3. /\ started \in Sessions /\ started.kind = obj[o].kind /\ started.mode = obj[o].mode /\ started.config = m
          /\ started.engine = (IF obj[o].kind = "pty" THEN "ready" ELSE "setup")
          /\ started.runs = (IF obj[o].kind = "pty" THEN m ELSE "default")
        BY <1>0, <2>1, <2>2, StartedIs DEF CommandInv
    <2> QED BY <1>0, <1>1, <2>1, <2>2, <2>3, StartedSteps
<1>2. CASE obj' = [obj EXCEPT ![o].engine = "failed"] /\ registered' = 0 /\ Removed(Thread)
    <2>1. /\ obj' \in [Object -> Sessions] /\ \A q \in Object \ {o} : obj'[q] = obj[q]
          /\ obj'[o].engine = "failed" /\ Same(obj'[o], obj[o]) /\ obj'[o].mode = obj[o].mode /\ obj'[o].runs = obj[o].runs
        <3>1. "failed" \in Engines
            BY DEF Engines
        <3> HIDE DEF o
        <3> QED BY <1>0, <1>2, <3>1, EngineAssigned DEF CommandInv, CommandTypes, ObjectTypes
    <2>2. \A q \in Object : obj'[q].kind = obj[q].kind
        BY <2>1 DEF Same
    <2>3. ObjectTypes'
        <3>1. obj[o].engine # "none"
            BY <1>0, ObjectsMade DEF CommandInv, CommandTypes, ObjectTypes
        <3>2. \A q \in Object : (obj'[q].engine = "none") = (q > made)
            BY <2>1, <3>1 DEF CommandInv, CommandTypes, ObjectTypes
        <3> QED BY <1>0, <1>2, <2>1, <3>2, ObjectsMade DEF CommandInv, CommandTypes, ObjectTypes
    <2>4. ObjectKinds'
        BY <2>1 DEF CommandInv, KindInv, ObjectKinds, Same
    <2>5. ThreadTypes' /\ ThreadKinds'
        <3>1. made' \in made..MaxObjects /\ \A q \in 1..made : obj'[q].kind = obj[q].kind
            BY <1>0, <2>2, ObjectsMade, CommandConstants DEF CommandInv, CommandTypes, ObjectTypes
        <3> QED BY <1>0, <3>1, ThreadMoves, NoWishIs, ObjectsMade DEF Rest, CommandInv, KindInv
    <2>6. raced \subseteq raced' /\ raced' \subseteq raced \cup {registered} /\ (registered # 0 => registered \in raced')
        BY <1>0, <1>2 DEF Removed
    <2>7. RestTypes'
        BY <1>0, <2>6, ObjectsMade DEF CommandInv, CommandTypes, ObjectTypes, RestTypes
    <2>8. ReachInv'
        <3>1. ASSUME NEW q \in Object, Connected(q)' PROVE q \in raced'
            BY <2>1, <2>6, <3>1, ObjectsMade DEF CommandInv, ReachInv, EngineIsReachable, Connected
        <3>2. ASSUME NEW u \in Thread, place'[u] \in {"connect", "reconnect"} PROVE want'[u].obj \in raced'
            BY <1>0, <2>6, <3>2, ObjectsMade
               DEF CommandInv, CommandTypes, ThreadTypes, ReachInv, Rest, Moves
        <3> QED BY <3>1, <3>2 DEF ReachInv, EngineIsReachable
    <2>9. ModeInv'
        BY <1>2 DEF ModeInv
    <2> QED BY <2>3, <2>4, <2>5, <2>7, <2>8, <2>9 DEF CommandInv, CommandTypes, KindInv
<1> QED BY <1>1, <1>2 DEF Connect

\* A change of one object of which only engine and enforced mode are concerned.
LEMMA EngineMoves ==
    ASSUME CommandInv, NEW o \in Object, NEW e \in Engines \ {"none", "setup"}, NEW m \in Mode,
           obj[o].engine \in {"setup", "ready", "stuck"},
           obj[o].kind = "pty" => m = "default",
           obj' \in [Object -> Sessions], \A q \in Object \ {o} : obj'[q] = obj[q],
           Same(obj'[o], obj[o]), obj'[o].mode = obj[o].mode, obj'[o].engine = e, obj'[o].runs = m,
           UNCHANGED <<registered, made, threads, raced>>
    PROVE  ObjectTypes' /\ ThreadTypes' /\ KindInv' /\ ReachInv'
<1>1. \A q \in Object : obj'[q].kind = obj[q].kind
    BY DEF Same
<1>2. ObjectTypes'
    BY DEF CommandInv, CommandTypes, ObjectTypes
<1>3. ObjectKinds'
    BY DEF CommandInv, KindInv, ObjectKinds, Same
<1>4. ThreadTypes' /\ ThreadKinds'
    <2>1. made' \in made..MaxObjects /\ \A q \in 1..made : obj'[q].kind = obj[q].kind
        BY <1>1, ObjectsMade, CommandConstants DEF CommandInv, CommandTypes, ObjectTypes
    <2> QED BY <2>1, ThreadsStay DEF CommandInv, KindInv
<1>5. ReachInv'
    <2>1. ASSUME NEW q \in Object, Connected(q)' PROVE Connected(q)
        BY <2>1 DEF Connected
    <2> QED BY <2>1 DEF CommandInv, ReachInv, EngineIsReachable, threads
<1> QED BY <1>2, <1>3, <1>4, <1>5 DEF KindInv

LEMMA DiesSteps == ASSUME CommandInv, NEW o \in Object, EngineDies(o) PROVE CommandInv'
<1>1. /\ obj' \in [Object -> Sessions] /\ \A q \in Object \ {o} : obj'[q] = obj[q]
      /\ obj'[o].engine = "dead" /\ Same(obj'[o], obj[o]) /\ obj'[o].mode = obj[o].mode /\ obj'[o].runs = obj[o].runs
    <2>1. "dead" \in Engines /\ obj' = [obj EXCEPT ![o].engine = "dead"]
        BY DEF Engines, EngineDies
    <2> QED BY <2>1, EngineAssigned DEF CommandInv, CommandTypes, ObjectTypes
<1>2. obj[o].engine \in {"setup", "ready", "stuck"} /\ obj[o].runs \in Mode /\ (obj[o].kind = "pty" => obj[o].runs = "default")
      /\ UNCHANGED <<registered, made, threads, modeReports, falling, commands, commandGhosts>>
    BY DEF EngineDies, Connected, CommandInv, CommandTypes, ObjectTypes, Sessions, KindInv, ObjectKinds
<1>3. ObjectTypes' /\ ThreadTypes' /\ KindInv' /\ ReachInv'
    <2>1. "dead" \in Engines \ {"none", "setup"}
        BY DEF Engines
    <2> QED BY <1>1, <1>2, <2>1, EngineMoves DEF commandGhosts
<1>4. RestTypes'
    BY <1>2 DEF CommandInv, CommandTypes, RestTypes, commandGhosts
<1>5. ModeInv'
    <2>1. SUFFICES ASSUME registered # 0, obj'[registered].kind = "acp", obj'[registered].engine = "ready",
                          registered \notin doubtful, ~obj'[registered].warned
                   PROVE  OnItsWay(registered)'
        BY <1>2 DEF ModeInv, commandGhosts
    <2>2. registered \in Object /\ registered # o
        BY <1>1, <2>1, ObjectsMade DEF CommandInv
    <2>3. OnItsWay(registered)
        BY <1>1, <2>1, <2>2 DEF CommandInv, ModeInv
    <2> QED BY <1>1, <1>2, <2>2, <2>3 DEF OnItsWay, Recording, threads
<1> QED BY <1>3, <1>4, <1>5 DEF CommandInv, CommandTypes

\* An engine is in a mode and says so last.
LEMMA EngineReports ==
    ASSUME CommandInv, NEW o \in Object, NEW m \in Mode,
           obj' \in [Object -> Sessions], \A q \in Object \ {o} : obj'[q] = obj[q],
           Same(obj'[o], obj[o]), obj'[o].runs = m,
           modeReports' = Append(modeReports, <<o, m>>),
           doubtful \subseteq doubtful', doubtful' \subseteq doubtful \cup {o}, commands' \in Nat,
           UNCHANGED <<registered, raced>>
    PROVE  RestTypes' /\ ModeInv'
<1>1. modeReports \in Seq(Object \X Mode) /\ <<o, m>> \in Object \X Mode
    BY DEF CommandInv, CommandTypes, RestTypes
<1>2. /\ modeReports' \in Seq(Object \X Mode) /\ modeReports' # <<>>
      /\ Len(modeReports') = Len(modeReports) + 1 /\ Len(modeReports) \in Nat
      /\ modeReports'[Len(modeReports')] = <<o, m>>
    BY <1>1
<1>3. RestTypes'
    BY <1>2, ObjectsMade DEF CommandInv, CommandTypes, RestTypes
<1>4. ModeInv'
    <2>1. SUFFICES ASSUME registered # 0 PROVE OnItsWay(registered)'
        BY DEF ModeInv
    <2>2. CASE registered = o
        BY <1>2, <2>2 DEF OnItsWay
    <2>3. CASE registered # o
        <3>1. Len(modeReports') \in 1..Len(modeReports') /\ modeReports'[Len(modeReports')][1] # registered
            BY <1>2, <2>3
        <3> QED BY <3>1 DEF OnItsWay
    <2> QED BY <2>2, <2>3
<1> QED BY <1>3, <1>4

LEMMA SetupSteps == ASSUME CommandInv, NEW o \in Object, SetupEnds(o) PROVE CommandInv'
<1>0. /\ obj[o].engine = "setup" /\ obj[o].kind = "acp" /\ obj[o].config \in Mode /\ obj[o].runs \in Mode /\ obj[o] \in Sessions
      /\ UNCHANGED <<registered, made, threads, falling, commands, commandGhosts>>
    BY DEF SetupEnds, CommandInv, CommandTypes, ObjectTypes, Sessions, KindInv, ObjectKinds
<1>1. ASSUME NEW e \in {"stuck", "ready"}, obj' = [obj EXCEPT ![o].engine = e], UNCHANGED modeReports,
             e = "ready" => obj[o].warned
      PROVE  CommandInv'
    <2>1. e \in Engines \ {"none", "setup"}
        BY <1>1 DEF Engines
    <2>2. /\ obj' \in [Object -> Sessions] /\ \A q \in Object \ {o} : obj'[q] = obj[q]
          /\ obj'[o].engine = e /\ Same(obj'[o], obj[o]) /\ obj'[o].mode = obj[o].mode /\ obj'[o].runs = obj[o].runs
        BY <1>1, <2>1, EngineAssigned DEF CommandInv, CommandTypes, ObjectTypes
    <2>3. ObjectTypes' /\ ThreadTypes' /\ KindInv' /\ ReachInv'
        BY <1>0, <2>1, <2>2, EngineMoves DEF commandGhosts
    <2>4. RestTypes'
        BY <1>0, <1>1 DEF CommandInv, CommandTypes, RestTypes, commandGhosts
    <2>5. ModeInv'
        <3>1. SUFFICES ASSUME registered # 0, obj'[registered].kind = "acp", obj'[registered].engine = "ready",
                              registered \notin doubtful, ~obj'[registered].warned
                       PROVE  OnItsWay(registered)'
            BY <1>0 DEF ModeInv, commandGhosts
        <3>2. registered \in Object /\ registered # o
            BY <1>1, <2>2, <3>1, ObjectsMade DEF CommandInv, Same
        <3>3. OnItsWay(registered)
            BY <2>2, <3>1, <3>2 DEF CommandInv, ModeInv
        <3> QED BY <1>0, <1>1, <2>2, <3>2, <3>3 DEF OnItsWay, Recording, threads
    <2> QED BY <2>3, <2>4, <2>5 DEF CommandInv, CommandTypes
<1>2. ASSUME obj' = [obj EXCEPT ![o].engine = "ready", ![o].runs = obj[o].config],
             modeReports' = Append(modeReports, <<o, obj[o].config>>)
      PROVE  CommandInv'
    <2>1. PICK m \in Mode : m = obj[o].config
        BY <1>0
    <2>2. "ready" \in Engines \ {"none", "setup"}
        BY DEF Engines
    <2>3. /\ obj' \in [Object -> Sessions] /\ \A q \in Object \ {o} : obj'[q] = obj[q]
          /\ obj'[o].engine = "ready" /\ Same(obj'[o], obj[o]) /\ obj'[o].mode = obj[o].mode /\ obj'[o].runs = m
        <3>1. obj \in [Object -> Sessions]
            BY DEF CommandInv, CommandTypes, ObjectTypes
        <3>2. obj' = [obj EXCEPT ![o] = [obj[o] EXCEPT !.engine = "ready", !.runs = m]]
            BY <1>2, <2>1, <3>1, <1>0 DEF Sessions
        <3> QED BY <1>0, <2>2, <3>1, <3>2 DEF Sessions, Same
    <2>4. ObjectTypes' /\ ThreadTypes' /\ KindInv' /\ ReachInv'
        BY <1>0, <2>2, <2>3, EngineMoves DEF commandGhosts
    <2>5. RestTypes' /\ ModeInv'
        <3>1. commands' \in Nat
            BY <1>0 DEF CommandInv, CommandTypes, RestTypes
        <3> QED BY <1>0, <1>2, <2>1, <2>3, <3>1, EngineReports DEF commandGhosts
    <2> QED BY <2>4, <2>5 DEF CommandInv, CommandTypes
<1>3. "stuck" \in {"stuck", "ready"} /\ "ready" \in {"stuck", "ready"}
    OBVIOUS
<1> QED BY <1>1, <1>2, <1>3 DEF SetupEnds

LEMMA EngineModeSteps == ASSUME CommandInv, NEW o \in Object, EngineChangesMode(o) PROVE CommandInv'
<1>1. PICK m \in Mode : obj' = [obj EXCEPT ![o].runs = m] /\ modeReports' = Append(modeReports, <<o, m>>)
    BY DEF EngineChangesMode
<1>2. /\ obj[o].engine = "ready" /\ obj[o].kind = "acp" /\ "ready" \in Engines \ {"none", "setup"}
      /\ UNCHANGED <<registered, made, threads, falling, raced>> /\ commands' \in Nat
      /\ doubtful \subseteq doubtful' /\ doubtful' \subseteq doubtful \cup {o}
    BY DEF EngineChangesMode, Command, CommandInv, CommandTypes, RestTypes, Engines
<1>3. /\ obj' \in [Object -> Sessions] /\ \A q \in Object \ {o} : obj'[q] = obj[q]
      /\ obj'[o].runs = m /\ Same(obj'[o], obj[o]) /\ obj'[o].engine = "ready" /\ obj'[o].mode = obj[o].mode
    <2>1. obj \in [Object -> Sessions]
        BY DEF CommandInv, CommandTypes, ObjectTypes
    <2>2. obj' = [obj EXCEPT ![o].runs = m]
        BY <1>1
    <2>3. /\ obj' \in [Object -> Sessions] /\ \A q \in Object \ {o} : obj'[q] = obj[q]
          /\ obj'[o].runs = m /\ Same(obj'[o], obj[o]) /\ obj'[o].engine = obj[o].engine /\ obj'[o].mode = obj[o].mode
        BY ONLY <2>1, <2>2, RunsAssigned, o \in Object, m \in Mode
    <2> QED BY <1>2, <2>3
<1>4. ObjectTypes' /\ ThreadTypes' /\ KindInv' /\ ReachInv'
    BY <1>2, <1>3, EngineMoves
<1>5. RestTypes' /\ ModeInv'
    BY <1>1, <1>2, <1>3, EngineReports
<1> QED BY <1>4, <1>5 DEF CommandInv, CommandTypes

\* A report arrives: at the registered session, which is its own or becomes
\* doubtful.
LEMMA ReportSteps == ASSUME CommandInv, ReportEngineMode PROVE CommandInv'
<1> DEFINE said == Head(modeReports)
<1>1. /\ modeReports \in Seq(Object \X Mode) /\ modeReports # <<>> /\ modeReports' = Tail(modeReports)
      /\ UNCHANGED <<registered, made, threads, falling, commands, raced>>
      /\ doubtful' = doubtful \cup {want[t].obj : t \in {u \in Thread : place[u] = "record"}} \cup ({registered} \ {said[1]})
    BY DEF ReportEngineMode, CommandInv, CommandTypes, RestTypes
<1>2. /\ said \in Object \X Mode /\ said[2] \in Mode /\ Len(modeReports) \in Nat /\ Len(modeReports) > 0
      /\ Tail(modeReports) \in Seq(Object \X Mode) /\ Len(Tail(modeReports)) = Len(modeReports) - 1
      /\ said = modeReports[1] /\ \A i \in 1..Len(Tail(modeReports)) : Tail(modeReports)[i] = modeReports[i + 1]
    BY <1>1, EmptySeq
<1> HIDE DEF said
<1>3. RestTypes'
    <2>1. \A t \in Thread : want[t].obj \in 0..MaxObjects
        BY ObjectsMade DEF CommandInv, CommandTypes, ThreadTypes
    <2>2. registered \in 0..MaxObjects
        BY ObjectsMade DEF CommandInv, CommandTypes, ObjectTypes
    <2> QED BY <1>1, <1>2, <2>1, <2>2 DEF CommandInv, CommandTypes, RestTypes
<1>4. /\ obj' \in [Object -> Sessions]
      /\ \A q \in Object : /\ Same(obj'[q], obj[q]) /\ obj'[q].engine = obj[q].engine /\ obj'[q].runs = obj[q].runs
                           /\ obj'[q].kind = "pty" => obj'[q].mode = obj[q].mode
      /\ registered # 0 /\ obj[registered].kind = "acp" => obj'[registered].mode = said[2]
    <2>1. CASE registered # 0 /\ obj[registered].kind = "acp"
        <3>1. obj' = [obj EXCEPT ![registered].mode = said[2]] /\ registered \in Object
            BY <2>1, ObjectsMade DEF ReportEngineMode, said, CommandInv
        <3> DEFINE o == registered
                   m == said[2]
        <3>2. o \in Object /\ m \in Mode /\ obj' = [obj EXCEPT ![o].mode = m] /\ obj[o].kind = "acp"
            BY <1>2, <2>1, <3>1
        <3> HIDE DEF o, m
        <3>3. /\ obj' \in [Object -> Sessions] /\ \A q \in Object \ {o} : obj'[q] = obj[q]
              /\ obj'[o].mode = m /\ Same(obj'[o], obj[o]) /\ obj'[o].engine = obj[o].engine /\ obj'[o].runs = obj[o].runs
            BY <3>2, ModeAssigned DEF CommandInv, CommandTypes, ObjectTypes
        <3>4. obj'[o].kind = "acp"
            BY <3>2, <3>3 DEF Same
        <3> QED BY <3>3, <3>4 DEF o, m, Same
    <2>2. CASE ~(registered # 0 /\ obj[registered].kind = "acp")
        BY <2>2 DEF ReportEngineMode, Same, CommandInv, CommandTypes, ObjectTypes
    <2> QED BY <2>1, <2>2
<1>5. ObjectTypes'
    BY <1>1, <1>4 DEF CommandInv, CommandTypes, ObjectTypes
<1>6. ObjectKinds'
    BY <1>4 DEF CommandInv, KindInv, ObjectKinds, Same
<1>7. ThreadTypes' /\ ThreadKinds'
    <2>1. made' \in made..MaxObjects /\ \A q \in 1..made : obj'[q].kind = obj[q].kind
        <3>1. made' = made /\ made \in made..MaxObjects
            BY <1>1, CommandConstants DEF CommandInv, CommandTypes, ObjectTypes
        <3>2. \A q \in Object : obj'[q].kind = obj[q].kind
            BY <1>4 DEF Same
        <3> QED BY <3>1, <3>2, ObjectsMade DEF CommandInv
    <2> QED BY <1>1, <2>1, ThreadsStay DEF CommandInv, KindInv
<1>8. ReachInv'
    BY <1>1, <1>4 DEF CommandInv, ReachInv, EngineIsReachable, Connected, threads
<1>9. ModeInv'
    <2>1. SUFFICES ASSUME registered # 0, obj'[registered].kind = "acp", obj'[registered].engine = "ready",
                          registered \notin doubtful', ~obj'[registered].warned
                   PROVE  OnItsWay(registered)'
        BY <1>1 DEF ModeInv
    <2>2. registered \in Object /\ registered \notin doubtful /\ said[1] = registered
          /\ obj[registered].kind = "acp" /\ obj[registered].engine = "ready" /\ ~obj[registered].warned
          /\ obj'[registered].mode = said[2] /\ obj'[registered].runs = obj[registered].runs
        BY <1>1, <1>4, <2>1, ObjectsMade DEF CommandInv, Same
    <2>3. OnItsWay(registered)
        BY <2>1, <2>2 DEF CommandInv, ModeInv
    <2>4. CASE \E i \in 1..Len(modeReports) : modeReports[i][1] # registered
        <3>1. PICK i \in 1..Len(modeReports) : modeReports[i][1] # registered
            BY <2>4
        <3>2. i # 1 /\ i - 1 \in 1..Len(Tail(modeReports)) /\ Tail(modeReports)[i - 1] = modeReports[i]
            BY <1>2, <2>2, <3>1
        <3> QED BY <1>1, <3>1, <3>2 DEF OnItsWay
    <2>5. CASE modeReports[Len(modeReports)][2] = obj[registered].runs /\ Len(modeReports) > 1
        <3>1. /\ Len(Tail(modeReports)) \in 1..Len(Tail(modeReports))
              /\ Tail(modeReports)[Len(Tail(modeReports))] = modeReports[Len(modeReports)]
            BY <1>2, <2>5
        <3>2. Tail(modeReports) # <<>>
            <4>1. Len(Tail(modeReports)) # 0 /\ Len(<<>>) = 0
                BY <1>2, <2>5
            <4> QED BY ONLY <4>1
        <3> QED BY <1>1, <2>2, <2>5, <3>1, <3>2 DEF OnItsWay
    <2>6. CASE modeReports[Len(modeReports)][2] = obj[registered].runs /\ Len(modeReports) = 1
        <3>1. Tail(modeReports) = <<>> /\ obj'[registered].mode = obj'[registered].runs
            BY <1>2, <2>2, <2>6, EmptySeq
        <3>2. \A t \in Thread : ~Recording(t, registered)'
            BY <1>1, <2>1 DEF Recording, threads
        <3> QED BY <1>1, <3>1, <3>2 DEF OnItsWay
    <2>7. modeReports # <<>>
        BY <1>1
    <2>8. \/ \E i \in 1..Len(modeReports) : modeReports[i][1] # registered
          \/ modeReports[Len(modeReports)][2] = obj[registered].runs
        BY ONLY <2>3, <2>7, Zenon DEF OnItsWay
    <2>9. Len(modeReports) > 1 \/ Len(modeReports) = 1
        BY <1>2, <2>7
    <2> QED BY ONLY <2>4, <2>5, <2>6, <2>8, <2>9
<1> QED BY <1>3, <1>5, <1>6, <1>7, <1>8, <1>9 DEF CommandInv, CommandTypes, KindInv

LEMMA CommandInvHolds == CommandSpec => []CommandInv
<1>1. CommandInv /\ [CommandNext]_commandVars => CommandInv'
    <2> SUFFICES ASSUME CommandInv, [CommandNext]_commandVars PROVE CommandInv'
        OBVIOUS
    <2>1. CASE UNCHANGED commandVars
        <3>1. UNCHANGED <<registered, obj, made, place, want, modeReports, falling, commands, raced, doubtful>>
            BY <2>1 DEF commandVars, registry, threads, commandGhosts
        <3>2. CommandTypes' /\ KindInv'
            BY <3>1 DEF CommandInv, CommandTypes, ObjectTypes, ThreadTypes, RestTypes, KindInv, ObjectKinds, ThreadKinds
        <3>3. ReachInv' /\ ModeInv'
            BY <3>1 DEF CommandInv, ReachInv, EngineIsReachable, Connected, ModeInv, OnItsWay, Recording
        <3> QED BY <3>2, <3>3 DEF CommandInv
    <2>2. CASE HandleSessionStart \/ AutoCreate \/ HandleSessionStop \/ HandleSessionChangeDir
        BY <2>2, StartSteps, StopSteps, ChangeDirSteps
    <2>3. ASSUME NEW m \in Mode, HandleSessionSpecUpdate(m) PROVE CommandInv'
        BY <2>3, SpecUpdateSteps
    <2>4. ASSUME NEW t \in Thread, RecordMode(t) \/ Create(t) \/ ReconnectSession(t) \/ Connect(t) PROVE CommandInv'
        BY <2>4, RecordSteps, CreateSteps, ReconnectSteps, ConnectSteps
    <2>5. ASSUME NEW o \in Object, SetupEnds(o) \/ EngineChangesMode(o) \/ EngineDies(o) PROVE CommandInv'
        BY <2>5, SetupSteps, EngineModeSteps, DiesSteps
    <2>6. CASE ReportEngineMode \/ StopDead \/ FallBack
        BY <2>6, ReportSteps, StopSteps
    <2> QED BY <2>1, <2>2, <2>3, <2>4, <2>5, <2>6 DEF CommandNext
<1> QED BY <1>1, CommandStarts, PTL DEF CommandSpec

\* Every reachable state of a session's life is well typed, for any directories,
\* modes and numbers of objects and commands.
THEOREM CommandTypeCorrect == CommandSpec => []CommandTypeOK
<1>1. CommandInv => CommandTypeOK
    BY CommandConstants DEF CommandInv, CommandTypes, ObjectTypes, ThreadTypes, RestTypes, CommandTypeOK, Sessions, Engines
<1> QED BY <1>1, CommandInvHolds, PTL

\* Whatever starts, resumes, stops, falls back and reconnects overlap, a running
\* engine is the registered session's or was taken out of the registry while its
\* id was being connected; and the mode that is shown is the one that is enforced.
THEOREM SessionsAreTrueHolds == CommandSpec => []SessionsAreTrue
<1>1. CommandInv => EngineIsReachable
    BY DEF CommandInv, ReachInv
<1>2. CommandInv => ModeIsTrue
    <2> SUFFICES ASSUME CommandInv, registered # 0, obj[registered].engine = "ready", modeReports = <<>>,
                        \A t \in Thread : place[t] # "record", registered \notin doubtful, ~obj[registered].warned
                 PROVE  obj[registered].mode = obj[registered].runs
        BY DEF ModeIsTrue
    <2>1. registered \in Object /\ obj[registered].kind \in {"acp", "pty"}
        BY ObjectsMade DEF CommandInv, CommandTypes, ObjectTypes, Sessions, Kind
    <2>2. CASE obj[registered].kind = "pty"
        BY <2>1, <2>2 DEF CommandInv, KindInv, ObjectKinds
    <2>3. CASE obj[registered].kind = "acp"
        BY <2>3, EmptySeq DEF CommandInv, ModeInv, OnItsWay, Recording
    <2> QED BY <2>1, <2>2, <2>3
<1> QED BY <1>1, <1>2, CommandInvHolds, PTL DEF SessionsAreTrue

-----------------------------------------------------------------------------
(* MissionBranches: where a change can be found.                           *)

MissionTypes ==
    /\ linked \subseteq Owner /\ isolated \subseteq Isolated
    /\ dirty \in [Owner -> Commit]
    /\ branch \in [Owner -> Commit \cup {NoBranch}] /\ remote \in [Owner -> Commit \cup {NoBranch}]
    /\ integ \in Commit \cup {NoBranch} /\ integTree \in {"none", "clean", "merging"}
    /\ user \in [UserBranch -> Commit] /\ head \in UserBranch /\ userDirty \in Commit
    /\ agent \in [Owner -> {"none", "worktree", "checkout"}]
    /\ exits \subseteq MissionTask \X {"worktree", "checkout"} \X {"commit", "push"}
    /\ atWork \in {"idle", "merging", "reclaiming", "forwarding", "sweeping"}
    /\ merges \in Seq(MissionTask)
    /\ changes \in 0..MaxChanges
    /\ work \in Commit /\ forced \in Commit /\ merged \in [MissionTask -> Commit]

\* A worktree has a branch, what is integrated has one too, and the handler at
\* work has tasks left.
TreesInv ==
    /\ \A o \in Owner : (o \notin linked => dirty[o] = {}) /\ (o \in linked => branch[o] # NoBranch)
    /\ integTree # "none" => integ # NoBranch
    /\ atWork \in {"merging", "reclaiming"} => integ # NoBranch
    /\ (atWork \in {"merging", "reclaiming"}) = (merges # <<>>)

\* Where a change can be found.
Held(x) ==
    \/ \E o \in linked : x \in dirty[o]
    \/ x \in userDirty
    \/ \E b \in UserBranch : x \in user[b]
    \/ integ # NoBranch /\ x \in integ
    \/ \E o \in Owner : branch[o] # NoBranch /\ x \in branch[o]
    \/ \E o \in Owner : remote[o] # NoBranch /\ x \in remote[o]

HeldInv == \A x \in work \ forced : Held(x)

MissionInv == MissionTypes /\ TreesInv /\ HeldInv /\ MergedStaysMerged

LEMMA MissionConstants ==
    /\ MissionTask \cap Isolated = {} /\ Owner = MissionTask \cup Isolated
    /\ NoBranch \notin Commit /\ {} \in Commit /\ MaxChanges \in Nat
    /\ \A h, g \in Commit : h \cup g \in Commit
    /\ \A h \in Commit : h \in SUBSET Nat
BY MissionBranchesAssumption DEF Owner, Commit

LEMMA OrdersAreLists == \A ts \in MergeOrders : ts \in Seq(MissionTask) /\ ts # <<>>
<1> SUFFICES ASSUME NEW S \in (SUBSET MissionTask) \ {{}}, NEW ts \in SetToSeqs(S)
             PROVE  ts \in Seq(MissionTask) /\ ts # <<>>
    BY DEF MergeOrders
<1>0. S \subseteq MissionTask /\ S # {}
    OBVIOUS
<1>1. IsFiniteSet(S) /\ S # {}
    BY <1>0, FS_Subset, MissionBranchesAssumption
<1>2. Cardinality(S) \in Nat /\ Cardinality(S) # 0
    BY <1>1, FS_CardinalityType, FS_EmptySet
<1>3. ts \in [1..Cardinality(S) -> S]
    BY DEF SetToSeqs
<1>4. ts \in Seq(S) /\ Len(ts) = Cardinality(S)
    BY <1>2, <1>3
<1> QED BY <1>2, <1>4

LEMMA MissionStarts == MissionInit => MissionInv
<1> SUFFICES ASSUME MissionInit PROVE MissionInv
    OBVIOUS
<1>1. MissionTypes
    BY MissionConstants DEF MissionInit, MissionTypes, UserBranch
<1>2. TreesInv
    BY DEF MissionInit, TreesInv
<1>3. HeldInv /\ MergedStaysMerged
    BY DEF MissionInit, HeldInv, MergedStaysMerged
<1> QED BY <1>1, <1>2, <1>3 DEF MissionInv

LEMMA AssignSteps == ASSUME MissionInv, NEW t \in MissionTask, Assign(t) PROVE MissionInv'
<1> USE DEF MissionInv, Assign, AddTree, Bases, worktrees, mission, checkout, handler, missionGhosts
<1>0. t \in Owner
    BY MissionConstants
<1>a. user[head] \in Commit
    BY DEF MissionTypes
<1>b. UNCHANGED branch \/ \E base \in Commit : branch' = [branch EXCEPT ![t] = base]
    BY <1>a, MissionConstants
<1>c. branch' \in [Owner -> Commit \cup {NoBranch}] /\ linked' \subseteq Owner
    BY <1>0, <1>b DEF MissionTypes
<1>1. MissionTypes'
    BY <1>0, <1>c DEF MissionTypes
<1>2. TreesInv'
    BY <1>0, <1>a, MissionConstants DEF MissionTypes, TreesInv
<1>3. ASSUME NEW x \in work, Held(x) PROVE Held(x)'
    BY <1>3, <1>0, MissionConstants DEF MissionTypes, TreesInv, Held
<1>4. HeldInv' /\ MergedStaysMerged'
    BY <1>3 DEF HeldInv, MergedStaysMerged, Includes
<1> QED BY <1>1, <1>2, <1>4

LEMMA StartIsolatedSteps == ASSUME MissionInv, NEW s \in Isolated, StartIsolated(s) PROVE MissionInv'
<1> USE DEF MissionInv, StartIsolated, AddTree, Bases, worktrees, mission, checkout, handler, missionGhosts
<1>0. s \in Owner
    BY MissionConstants
<1>a. user[head] \in Commit
    BY DEF MissionTypes
<1>b. branch' \in [Owner -> Commit \cup {NoBranch}] /\ linked' \subseteq Owner
    BY <1>0, <1>a, MissionConstants DEF MissionTypes
<1>1. MissionTypes'
    BY <1>0, <1>b DEF MissionTypes
<1>2. TreesInv'
    BY <1>0, <1>a, MissionConstants DEF MissionTypes, TreesInv
<1>3. ASSUME NEW x \in work, Held(x) PROVE Held(x)'
    BY <1>3, <1>0, MissionConstants DEF MissionTypes, TreesInv, Held
<1>4. HeldInv' /\ MergedStaysMerged'
    BY <1>3 DEF HeldInv, MergedStaysMerged, Includes
<1> QED BY <1>1, <1>2, <1>4

LEMMA AgentEditsSteps == ASSUME MissionInv, NEW o \in Owner, AgentEdits(o) PROVE MissionInv'
<1> USE DEF MissionInv, AgentEdits, NewChange, mission, sessions, handler
<1>a. changes' \in 1..MaxChanges /\ work' = work \cup {changes'}
    BY MissionConstants DEF MissionTypes
<1>b. dirty' \in [Owner -> Commit] /\ userDirty' \in Commit /\ forced' \in Commit /\ work' \in Commit
    BY <1>a DEF MissionTypes, Commit
<1>1. MissionTypes'
    BY <1>a, <1>b DEF MissionTypes
<1>2. TreesInv'
    BY MissionConstants DEF MissionTypes, TreesInv
<1>c. \/ userDirty' = userDirty \cup {changes'} /\ UNCHANGED <<dirty, forced>>
      \/ /\ o \in linked /\ UNCHANGED <<userDirty, forced>>
         /\ dirty' = [dirty EXCEPT ![o] = dirty[o] \cup {changes'}]
      \/ forced' = forced \cup {changes'} /\ UNCHANGED <<dirty, userDirty>>
    OBVIOUS
<1>3. ASSUME NEW x \in work, Held(x) PROVE Held(x)'
    <2>1. userDirty \subseteq userDirty' /\ \A a \in Owner : dirty[a] \subseteq dirty'[a]
        BY <1>c DEF MissionTypes
    <2>2. linked \subseteq Owner /\ UNCHANGED <<linked, branch, remote, integ, user>>
        BY DEF MissionTypes
    <2> QED BY <1>3, <2>1, <2>2 DEF Held
<1>4. ASSUME changes' \notin forced' PROVE changes' \in userDirty' \/ \E a \in linked' : changes' \in dirty'[a]
    BY <1>c, <1>4 DEF MissionTypes
<1>5. \A x \in work' : x \in work \/ x = changes'
    BY <1>a
<1>6. forced \subseteq forced'
    BY <1>c
<1>7. ASSUME NEW x \in work' \ forced' PROVE Held(x)'
    <2>1. CASE x \in work
        BY <1>3, <1>6, <2>1 DEF HeldInv
    <2>2. CASE x = changes'
        BY <1>4, <2>2 DEF Held
    <2> QED BY <1>5, <2>1, <2>2
<1>8. HeldInv' /\ MergedStaysMerged'
    BY <1>7 DEF HeldInv, MergedStaysMerged, Includes
<1> QED BY <1>1, <1>2, <1>8

LEMMA SessionEndsSteps == ASSUME MissionInv, NEW t \in MissionTask, SessionEnds(t) PROVE MissionInv'
<1> USE DEF MissionInv, SessionEnds, worktrees, mission, checkout, handler, counts, missionGhosts
<1>1. MissionTypes'
    BY MissionConstants DEF MissionTypes
<1>2. TreesInv'
    BY DEF TreesInv
<1>3. HeldInv' /\ MergedStaysMerged'
    BY DEF HeldInv, Held, MergedStaysMerged
<1> QED BY <1>1, <1>2, <1>3

LEMMA CommitAllSteps ==
    ASSUME MissionInv, NEW t \in MissionTask, NEW where \in {"worktree", "checkout"}, CommitAll(t, where)
    PROVE  MissionInv'
<1> USE DEF MissionInv, mission, handler, counts, missionGhosts
<1>0. t \in Owner
    BY MissionConstants
<1>1. /\ exits' \subseteq exits \cup {<<t, where, "push">>}
      /\ UNCHANGED <<linked, remote, integ, integTree, head, agent, isolated, atWork, merges, changes, assigns, work,
                     merged, forced, delivered>>
    BY DEF CommitAll
<1>2. CASE UNCHANGED <<dirty, branch, user, userDirty>>
    BY <1>1, <1>2 DEF MissionTypes, TreesInv, HeldInv, Held, MergedStaysMerged, Includes
<1>3. CASE /\ t \in linked /\ UNCHANGED <<user, userDirty>>
           /\ branch' = [branch EXCEPT ![t] = branch[t] \cup dirty[t]] /\ dirty' = [dirty EXCEPT ![t] = {}]
    <2>1. branch[t] \in Commit /\ dirty[t] \in Commit /\ branch[t] \cup dirty[t] \in Commit
        BY <1>0, <1>3, MissionConstants DEF MissionTypes, TreesInv
    <2>2. MissionTypes'
        BY <1>0, <1>1, <1>3, <2>1, MissionConstants DEF MissionTypes
    <2>3. TreesInv'
        BY <1>0, <1>1, <1>3, <2>1, MissionConstants DEF MissionTypes, TreesInv
    <2>4. ASSUME NEW x \in work, Held(x) PROVE Held(x)'
        BY <1>0, <1>1, <1>3, <2>1, <2>4, MissionConstants DEF MissionTypes, Held
    <2>5. HeldInv' /\ MergedStaysMerged'
        BY <1>1, <2>4 DEF HeldInv, MergedStaysMerged, Includes
    <2> QED BY <2>2, <2>3, <2>5
<1>4. CASE user' = [user EXCEPT ![head] = user[head] \cup userDirty] /\ userDirty' = {} /\ UNCHANGED <<dirty, branch>>
    <2>1. user[head] \in Commit /\ user[head] \cup userDirty \in Commit
        BY MissionConstants DEF MissionTypes
    <2>2. MissionTypes'
        BY <1>0, <1>1, <1>4, <2>1, MissionConstants DEF MissionTypes
    <2>3. TreesInv'
        BY <1>1, <1>4 DEF TreesInv
    <2>4. ASSUME NEW x \in work, Held(x) PROVE Held(x)'
        BY <1>1, <1>4, <2>1, <2>4 DEF MissionTypes, Held
    <2>5. HeldInv' /\ MergedStaysMerged'
        BY <1>1, <2>4 DEF HeldInv, MergedStaysMerged, Includes
    <2> QED BY <2>2, <2>3, <2>5
<1> QED BY <1>2, <1>3, <1>4 DEF CommitAll

LEMMA PushBranchSteps ==
    ASSUME MissionInv, NEW t \in MissionTask, NEW where \in {"worktree", "checkout"}, PushBranch(t, where)
    PROVE  MissionInv'
<1> USE DEF MissionInv, PushBranch, mission, checkout, handler, counts, missionGhosts
<1>0. t \in Owner
    BY MissionConstants
<1>1. MissionTypes'
    BY <1>0 DEF MissionTypes
<1>2. TreesInv'
    BY DEF TreesInv
<1>3. ASSUME NEW x \in work, Held(x) PROVE Held(x)'
    BY <1>0, <1>3, MissionConstants DEF MissionTypes, Held, Includes
<1>4. HeldInv' /\ MergedStaysMerged'
    BY <1>3 DEF HeldInv, MergedStaysMerged, Includes
<1> QED BY <1>1, <1>2, <1>4

\* What a disposable worktree's branch holds is on the user's branch or the mission's.
LEMMA DisposableIsHeld ==
    ASSUME MissionTypes, NEW o \in Owner, Disposable(o), NEW x \in branch[o]
    PROVE  /\ dirty[o] = {}
           /\ (\E b \in UserBranch : x \in user[b]) \/ (integ # NoBranch /\ x \in integ)
BY DEF MissionTypes, Disposable, Includes

LEMMA StopIsolatedSteps == ASSUME MissionInv, NEW s \in Isolated, StopIsolated(s) PROVE MissionInv'
<1> USE DEF MissionInv, StopIsolated, mission, checkout, handler, counts, missionGhosts
<1>0. s \in Owner
    BY MissionConstants
<1>1. MissionTypes'
    BY <1>0 DEF MissionTypes
<1>2. TreesInv'
    BY <1>0 DEF TreesInv, MissionTypes, Disposable
<1>d. Disposable(s) => dirty[s] = {} /\ \A x \in branch[s] : (\E b \in UserBranch : x \in user[b]) \/ (integ # NoBranch /\ x \in integ)
    BY <1>0, DisposableIsHeld DEF Disposable
<1>3. ASSUME NEW x \in work, Held(x) PROVE Held(x)'
    BY <1>0, <1>3, <1>d DEF MissionTypes, Held
<1>4. HeldInv' /\ MergedStaysMerged'
    BY <1>3 DEF HeldInv, MergedStaysMerged, Includes
<1> QED BY <1>1, <1>2, <1>4

LEMMA StartMergeSteps == ASSUME MissionInv, NEW ts \in MergeOrders, StartMerge(ts) PROVE MissionInv'
<1> USE DEF MissionInv, StartMerge, EnsureIntegrationWorktree, Bases, worktrees, checkout, sessions, missionGhosts
<1>a. integ' \in Commit
    BY MissionConstants DEF MissionTypes
<1>1. MissionTypes'
    BY <1>a, OrdersAreLists DEF MissionTypes
<1>2. TreesInv'
    BY <1>a, OrdersAreLists, MissionConstants DEF TreesInv
<1>3. integ # NoBranch => integ' = integ
    OBVIOUS
<1>4. HeldInv'
    BY <1>3 DEF HeldInv, Held
<1>5. MergedStaysMerged'
    BY <1>3 DEF MergedStaysMerged, Includes
<1> QED BY <1>1, <1>2, <1>4, <1>5

LEMMA MergeNextSteps == ASSUME MissionInv, MergeNext PROVE MissionInv'
<1> USE DEF MissionInv, MergeNext, Ref, worktrees, checkout, sessions, counts
<1>0. merges # <<>> /\ Head(merges) \in MissionTask /\ Head(merges) \in Owner /\ integ \in Commit
    BY MissionConstants DEF TreesInv, MissionTypes
<1>1. CASE Ref(Head(merges)) # NoBranch /\ integ' = integ \cup Ref(Head(merges))
           /\ merged' = [merged EXCEPT ![Head(merges)] = Ref(Head(merges))]
           /\ atWork' = "reclaiming" /\ UNCHANGED merges
    <2>1. Ref(Head(merges)) \in Commit /\ integ' \in Commit
        BY <1>0, <1>1, MissionConstants DEF MissionTypes
    <2>2. MissionTypes'
        BY <1>0, <1>1, <2>1 DEF MissionTypes
    <2>3. TreesInv'
        BY <1>0, <1>1, <2>1, MissionConstants DEF TreesInv
    <2>4. integ' # NoBranch /\ integ \subseteq integ' /\ Ref(Head(merges)) \subseteq integ'
        BY <1>1, <2>1, MissionConstants
    <2>5. HeldInv'
        BY <1>1, <2>4 DEF HeldInv, Held
    <2>6. MergedStaysMerged'
        BY <1>0, <1>1, <2>1, <2>4, MissionConstants DEF MergedStaysMerged, Includes, MissionTypes
    <2> QED BY <2>2, <2>3, <2>5, <2>6
<1>2. CASE atWork' = "idle" /\ merges' = <<>> /\ UNCHANGED <<integ, merged>>
    <2>1. MissionTypes' /\ TreesInv'
        BY <1>2 DEF MissionTypes, TreesInv
    <2>2. HeldInv' /\ MergedStaysMerged'
        BY <1>2 DEF HeldInv, Held, MergedStaysMerged, Includes
    <2> QED BY <2>1, <2>2
<1> QED BY <1>1, <1>2

LEMMA ReclaimMergedTaskSteps == ASSUME MissionInv, ReclaimMergedTask PROVE MissionInv'
<1> USE DEF MissionInv, ReclaimMergedTask, mission, checkout, sessions, counts, missionGhosts
<1>0. merges # <<>> /\ Head(merges) \in Owner /\ Tail(merges) \in Seq(MissionTask)
      /\ (Len(merges) = 1) = (Tail(merges) = <<>>)
    <2>1. merges \in Seq(MissionTask) /\ merges # <<>>
        BY DEF TreesInv, MissionTypes
    <2>2. Len(merges) \in Nat /\ Len(merges) # 0 /\ Len(Tail(merges)) = Len(merges) - 1
          /\ Tail(merges) \in Seq(MissionTask) /\ Head(merges) \in MissionTask
        BY <2>1
    <2>3. (Tail(merges) = <<>>) = (Len(Tail(merges)) = 0)
        BY <2>2, EmptySeq
    <2> QED BY <2>1, <2>2, <2>3, MissionConstants
<1>1. MissionTypes'
    BY <1>0 DEF MissionTypes
<1>2. \A o \in linked \ linked' : dirty[o] = {}
    BY DEF Disposable
<1>3. TreesInv'
    BY <1>0, <1>2 DEF TreesInv, MissionTypes
<1>4. HeldInv' /\ MergedStaysMerged'
    BY <1>2 DEF HeldInv, Held, MergedStaysMerged, Includes
<1> QED BY <1>1, <1>3, <1>4

LEMMA RemoveWorktreeSteps == ASSUME MissionInv, NEW t \in MissionTask, RemoveWorktree(t) PROVE MissionInv'
<1> USE DEF MissionInv, RemoveWorktree, mission, checkout, sessions, handler, counts
<1>0. t \in Owner /\ branch[t] \in Commit /\ dirty[t] \in Commit
    BY MissionConstants DEF MissionTypes, TreesInv
<1>1. forced' \in Commit
    BY <1>0, MissionConstants DEF MissionTypes
<1>2. MissionTypes'
    BY <1>0, <1>1, MissionConstants DEF MissionTypes
<1>3. TreesInv'
    BY <1>0 DEF TreesInv, MissionTypes
<1>4. ASSUME NEW x \in work \ forced', Held(x) PROVE Held(x)'
    BY <1>0, <1>4 DEF MissionTypes, Held
<1>5. HeldInv' /\ MergedStaysMerged'
    BY <1>4 DEF HeldInv, MergedStaysMerged, Includes
<1> QED BY <1>2, <1>3, <1>5

LEMMA DeliverySteps == ASSUME MissionInv, CheckDelivery \/ FastForward PROVE MissionInv'
<1> USE DEF MissionInv, worktrees, mission, sessions, counts, missionGhosts, checkout
<1>1. CASE CheckDelivery
    <2>1. /\ UNCHANGED <<worktrees, mission, checkout, sessions, merges, changes, work, merged, forced>>
          /\ atWork = "idle" /\ atWork' = "forwarding"
        BY <1>1 DEF CheckDelivery, AtRest
    <2> QED BY <2>1 DEF MissionTypes, TreesInv, HeldInv, Held, MergedStaysMerged, Includes
<1>2. CASE FastForward
    <2>1. MissionTypes'
        BY <1>2 DEF FastForward, MissionTypes, Includes
    <2>2. TreesInv'
        BY <1>2 DEF FastForward, TreesInv, Includes
    <2>3. ASSUME NEW x \in work, Held(x) PROVE Held(x)'
        BY <1>2, <2>3 DEF FastForward, MissionTypes, Held, Includes
    <2>4. HeldInv' /\ MergedStaysMerged'
        BY <1>2, <2>3 DEF FastForward, HeldInv, MergedStaysMerged, Includes
    <2> QED BY <2>1, <2>2, <2>4
<1> QED BY <1>1, <1>2

LEMMA UserSteps == ASSUME MissionInv, UserCommits \/ UserSwitches PROVE MissionInv'
<1> USE DEF MissionInv, worktrees, mission, sessions, handler, missionGhosts
<1>1. CASE UserCommits
    <2>a. changes' \in 1..MaxChanges
        BY <1>1, MissionConstants DEF UserCommits, NewChange, MissionTypes
    <2>b. user[head] \cup {changes'} \in Commit /\ user' = [user EXCEPT ![head] = user[head] \cup {changes'}]
        BY <1>1, <2>a DEF UserCommits, MissionTypes, Commit
    <2>1. MissionTypes'
        BY <1>1, <2>a, <2>b DEF UserCommits, MissionTypes
    <2>2. TreesInv'
        BY <1>1 DEF UserCommits, TreesInv
    <2>3. ASSUME NEW x \in work, Held(x) PROVE Held(x)'
        BY <1>1, <2>3 DEF UserCommits, MissionTypes, Held
    <2>4. HeldInv' /\ MergedStaysMerged'
        BY <1>1, <2>3 DEF UserCommits, HeldInv, MergedStaysMerged, Includes
    <2> QED BY <2>1, <2>2, <2>4
<1>2. CASE UserSwitches
    BY <1>2 DEF UserSwitches, Assigned, MissionTypes, TreesInv, HeldInv, Held, MergedStaysMerged, Includes
<1> QED BY <1>1, <1>2

LEMMA RestartSteps == ASSUME MissionInv, BridgeRestarts PROVE MissionInv'
<1> USE DEF MissionInv, BridgeRestarts, Assigned, worktrees, checkout, missionGhosts
<1>1. MissionTypes'
    BY DEF MissionTypes
<1>2. TreesInv'
    BY DEF TreesInv
<1>3. HeldInv' /\ MergedStaysMerged'
    BY DEF HeldInv, Held, MergedStaysMerged, Includes
<1> QED BY <1>1, <1>2, <1>3

LEMMA SweepSteps == ASSUME MissionInv, CleanupStaleWorktrees PROVE MissionInv'
<1> DEFINE gone == {t \in MissionTask : Disposable(t)}
<1> USE DEF MissionInv, mission, checkout, sessions, counts, missionGhosts
<1>0. /\ linked' = linked \ gone /\ branch' = [o \in Owner |-> IF o \in gone THEN NoBranch ELSE branch[o]]
      /\ atWork = "sweeping" /\ atWork' = "idle"
      /\ UNCHANGED <<dirty, remote, mission, checkout, sessions, merges, counts, missionGhosts>>
    BY DEF CleanupStaleWorktrees
<1>1. \A o \in gone : /\ o \in Owner /\ dirty[o] = {}
                      /\ \A x \in branch[o] : (\E b \in UserBranch : x \in user[b]) \/ (integ # NoBranch /\ x \in integ)
    BY DisposableIsHeld, MissionConstants DEF Disposable
<1> HIDE DEF gone
<1>2. MissionTypes'
    BY <1>0 DEF MissionTypes
<1>3. TreesInv'
    BY <1>0, <1>1 DEF MissionTypes, TreesInv
<1>4. ASSUME NEW x \in work, Held(x) PROVE Held(x)'
    BY <1>0, <1>1, <1>4 DEF MissionTypes, Held
<1>5. HeldInv' /\ MergedStaysMerged'
    BY <1>0, <1>4 DEF HeldInv, MergedStaysMerged, Includes
<1> QED BY <1>2, <1>3, <1>5

LEMMA MissionInvHolds == MissionSpec => []MissionInv
<1>1. MissionInv /\ [MissionNext]_missionVars => MissionInv'
    <2> SUFFICES ASSUME MissionInv, [MissionNext]_missionVars PROVE MissionInv'
        OBVIOUS
    <2>1. CASE UNCHANGED missionVars
        BY <2>1 DEF MissionInv, MissionTypes, TreesInv, HeldInv, Held, MergedStaysMerged, missionVars, worktrees,
                    mission, checkout, sessions, handler, counts, missionGhosts
    <2>2. ASSUME NEW t \in MissionTask, SessionStep(t) PROVE MissionInv'
        BY <2>2, AssignSteps, SessionEndsSteps, RemoveWorktreeSteps, CommitAllSteps, PushBranchSteps DEF SessionStep
    <2>3. ASSUME NEW s \in Isolated, StartIsolated(s) \/ StopIsolated(s) PROVE MissionInv'
        BY <2>3, StartIsolatedSteps, StopIsolatedSteps
    <2>4. ASSUME NEW o \in Owner, AgentEdits(o) PROVE MissionInv'
        BY <2>4, AgentEditsSteps
    <2>5. ASSUME NEW ts \in MergeOrders, StartMerge(ts) PROVE MissionInv'
        BY <2>5, StartMergeSteps
    <2>6. CASE MergeNext \/ ReclaimMergedTask \/ CheckDelivery \/ FastForward
        BY <2>6, MergeNextSteps, ReclaimMergedTaskSteps, DeliverySteps
    <2>7. CASE UserCommits \/ UserSwitches \/ BridgeRestarts \/ CleanupStaleWorktrees
        BY <2>7, UserSteps, RestartSteps, SweepSteps
    <2> QED BY <2>1, <2>2, <2>3, <2>4, <2>5, <2>6, <2>7 DEF MissionNext
<1> QED BY <1>1, MissionStarts, PTL DEF MissionSpec

\* Every reachable state of worktrees, branches and handlers is well typed, for
\* any tasks, sessions, changes and assignments.
THEOREM MissionTypeCorrect == MissionSpec => []MissionTypeOK
<1>1. MissionInv => MissionTypeOK
    BY DEF MissionInv, MissionTypes, TreesInv, MissionTypeOK, Commit
<1> QED BY <1>1, MissionInvHolds, PTL

LEMMA HeldSurvives == MissionInv => ChangesSurvive
<1> DEFINE trees == UNION {dirty[o] : o \in linked}
           checkouts == UNION {user[b] : b \in UserBranch}
           commits == {integ} \cup {branch[o] : o \in Owner} \cup {remote[o] : o \in Owner}
<1> SUFFICES ASSUME MissionInv, NEW x \in work \ forced
             PROVE  x \in trees \cup userDirty \cup checkouts \cup Histories(commits)
    BY DEF ChangesSurvive
<1>1. Held(x)
    BY DEF MissionInv, HeldInv
<1>2. \A o \in linked : x \in dirty[o] => x \in trees
    OBVIOUS
<1>3. \A b \in UserBranch : x \in user[b] => x \in checkouts
    OBVIOUS
<1>4. \A h \in commits : h # NoBranch /\ x \in h => x \in Histories(commits)
    BY DEF Histories
<1>5. integ \in commits /\ \A o \in Owner : branch[o] \in commits /\ remote[o] \in commits
    OBVIOUS
<1> HIDE DEF trees, checkouts, commits
<1> QED BY <1>1, <1>2, <1>3, <1>4, <1>5 DEF Held

\* A change of an agent stays in a worktree or a branch, and what was reported
\* merged in the mission's, through failed commits, conflicts, reclaims, sweeps,
\* deliveries and restarts; for any tasks and any number of changes.
THEOREM WorkIsKeptHolds == MissionSpec => []WorkIsKept
<1>1. MissionInv => WorkIsKept
    BY HeldSurvives DEF MissionInv, WorkIsKept
<1> QED BY <1>1, MissionInvHolds, PTL

=============================================================================
