--------------------------- MODULE TaskPoolProofs ---------------------------
(***************************************************************************)
(* Proofs about TaskPool, for every set of tasks, pool size and number of  *)
(* attempts and drains.                                                    *)
(***************************************************************************)
EXTENDS TaskPool, FiniteSetTheorems, TLAPS

\* The points at which a launcher holds an assignment, and those at which it
\* holds a session object too.
HoldsJob == {"assign", "full", "register", "reconnect", "connecting",
             "started", "send", "abort"}
HoldsObject == {"reconnect", "connecting", "started", "send", "abort"}

\* What TypeOK lacks to be inductive: a launcher past its check holds a real
\* assignment, and past createSession a real session object.
JobOK ==
    \A l \in Launcher :
        /\ pc[l] \in HoldsJob => job[l].task \in Task /\ job[l].attempt \in Attempt
        /\ pc[l] \in HoldsObject => job[l].obj \in Attempt

TypeInv == TypeOK /\ JobOK

-----------------------------------------------------------------------------
(* Lemmas about the operators the actions share. *)

LEMMA HoldingType ==
    ASSUME NEW t \in Task, NEW a \in Attempt, NEW o \in 0..MaxAttempt
    PROVE  /\ Holding(t, a, o) \in JobType
           /\ Holding(t, a, o).task = t
           /\ Holding(t, a, o).attempt = a
           /\ Holding(t, a, o).obj = o
BY PoolAssumption DEF Holding, JobType, Attempt

LEMMA IdleType == Idle \in JobType
BY PoolAssumption DEF Idle, Holding, JobType

LEMMA InitTypeInv == Init => TypeInv
BY PoolAssumption, IdleType
   DEF Init, TypeInv, TypeOK, JobOK, Launcher, LauncherPc, EngineState,
       Attempt, Assignment, HoldsJob, HoldsObject

LEMMA RegisteringType ==
    ASSUME NEW e \in [Assignment -> EngineState], NEW t \in Task, NEW a \in Attempt
    PROVE  Registering(e, t, a) \in [Assignment -> EngineState]
BY DEF Registering, Assignment, EngineState

\* Moving one launcher to a point where it holds what it needs keeps JobOK.
LEMMA MoveJobOK ==
    ASSUME JobOK, NEW l \in Launcher, NEW p \in LauncherPc, NEW j \in JobType,
           pc \in [Launcher -> LauncherPc], job \in [Launcher -> JobType],
           pc' = [pc EXCEPT ![l] = p], job' = [job EXCEPT ![l] = j],
           p \in HoldsJob => j.task \in Task /\ j.attempt \in Attempt,
           p \in HoldsObject => j.obj \in Attempt
    PROVE  /\ pc' \in [Launcher -> LauncherPc]
           /\ job' \in [Launcher -> JobType]
           /\ JobOK'
<1>1. pc' \in [Launcher -> LauncherPc] /\ job' \in [Launcher -> JobType]
    OBVIOUS
<1>2. \A k \in Launcher : k # l => pc'[k] = pc[k] /\ job'[k] = job[k]
    OBVIOUS
<1>3. pc'[l] = p /\ job'[l] = j
    OBVIOUS
<1> QED BY <1>1, <1>2, <1>3 DEF JobOK

\* A stop is part of two actions: what it does to the types.
LEMMA StopType ==
    ASSUME TypeOK, NEW t \in Task, NEW code \in {0, 1},
           NEW by \in Attempt, StopWithExitCode(t, by, code)
    PROVE  /\ sess' \in [Task -> 0..MaxAttempt]
           /\ eng' \in [Assignment -> EngineState]
           /\ drains' \in Nat
           /\ exits' \subseteq ExitType
<1>1. /\ sess \in [Task -> 0..MaxAttempt]
      /\ eng \in [Assignment -> EngineState]
      /\ drains \in Nat
      /\ exits \subseteq ExitType
    BY DEF TypeOK
<1>2. CASE sess[t] = 0
    BY <1>1, <1>2 DEF StopWithExitCode
<1>3. CASE sess[t] # 0
    <2> DEFINE x == [task |-> t, started |-> sess[t], by |-> by, code |-> code, seen |-> 0]
    <2>1. /\ eng' = [eng EXCEPT ![<<t, sess[t]>>] = Disconnected(@)]
          /\ sess' = [sess EXCEPT ![t] = 0]
          /\ drains' = drains + 1
          /\ exits' = exits \cup {x}
        BY <1>3 DEF StopWithExitCode
    <2>2. sess[t] \in Attempt /\ 0 \in 0..MaxAttempt
        BY <1>1, <1>3, PoolAssumption DEF Attempt
    <2>3. <<t, sess[t]>> \in Assignment
        BY <2>2 DEF Assignment
    <2>4. Disconnected(eng[<<t, sess[t]>>]) \in EngineState
        BY <1>1, <2>3 DEF Disconnected, EngineState
    <2>5. eng' \in [Assignment -> EngineState]
        BY <1>1, <2>1, <2>3, <2>4
    <2>6. sess' \in [Task -> 0..MaxAttempt] /\ drains' \in Nat
        BY <1>1, <2>1, <2>2
    <2>7. x \in ExitType
        BY <2>2 DEF ExitType
    <2> QED BY <1>1, <2>1, <2>5, <2>6, <2>7
<1> QED BY <1>2, <1>3

\* So is an admission.
LEMMA AdmitType ==
    ASSUME TypeOK, JobOK, NEW l \in Launcher, pc[l] \in HoldsJob,
           NEW t \in Task, NEW a \in Attempt,
           Admit(l, t, a), t = job[l].task, a = job[l].attempt
    PROVE  /\ sess' \in [Task -> 0..MaxAttempt]
           /\ pc' \in [Launcher -> LauncherPc]
           /\ job' \in [Launcher -> JobType]
           /\ JobOK'
<1>1. /\ sess \in [Task -> 0..MaxAttempt]
      /\ pc \in [Launcher -> LauncherPc]
      /\ job \in [Launcher -> JobType]
    BY DEF TypeOK
<1>2. 0 \in 0..MaxAttempt /\ a \in 0..MaxAttempt
    BY PoolAssumption DEF Attempt
<1>3. "full" \in LauncherPc /\ "connecting" \in LauncherPc
    BY DEF LauncherPc
<1>4. CASE Cardinality(ActiveSessions \ {t}) >= MaxConcurrent
    <2>1. /\ sess' = [sess EXCEPT ![t] = 0]
          /\ pc' = [pc EXCEPT ![l] = "full"]
          /\ job' = job
        BY <1>4 DEF Admit
    <2>2. job' = [job EXCEPT ![l] = job[l]] /\ job[l] \in JobType
        BY <1>1, <2>1
    <2>3. "full" \notin HoldsObject
        BY DEF HoldsObject
    <2>4. sess' \in [Task -> 0..MaxAttempt]
        BY <1>1, <1>2, <2>1
    <2> QED BY <1>1, <1>3, <2>1, <2>2, <2>3, <2>4, MoveJobOK
<1>5. CASE ~(Cardinality(ActiveSessions \ {t}) >= MaxConcurrent)
    <2>1. /\ sess' = [sess EXCEPT ![t] = a]
          /\ pc' = [pc EXCEPT ![l] = "connecting"]
          /\ job' = [job EXCEPT ![l] = Holding(t, a, a)]
        BY <1>5 DEF Admit
    <2>2. sess' \in [Task -> 0..MaxAttempt]
        BY <1>1, <1>2, <2>1
    <2>3. /\ Holding(t, a, a) \in JobType
          /\ Holding(t, a, a).task \in Task /\ Holding(t, a, a).attempt \in Attempt
          /\ Holding(t, a, a).obj \in Attempt
        BY <1>2, HoldingType
    <2>4. /\ pc' \in [Launcher -> LauncherPc]
          /\ job' \in [Launcher -> JobType]
          /\ JobOK'
        BY <1>1, <1>3, <2>1, <2>3, MoveJobOK
    <2> QED BY <2>2, <2>4
<1> QED BY <1>4, <1>5

-----------------------------------------------------------------------------
(* Every action preserves TypeInv. *)

\* The worker takes an assignment: refused as live, failed at the worktree,
\* or carried on.
LEMMA HandleAssignType == TypeInv /\ HandleAssign => TypeInv'
<1> SUFFICES ASSUME TypeInv, HandleAssign PROVE TypeInv'
    OBVIOUS
<1> DEFINE t == Head(assigns)[1]
           a == Head(assigns)[2]
<1>1. /\ assigns \in Seq(Assignment) /\ assigns # <<>>
      /\ pc \in [Launcher -> LauncherPc] /\ job \in [Launcher -> JobType]
      /\ answered \subseteq Assignment /\ reports \subseteq ReportType
      /\ JobOK
    BY DEF TypeInv, TypeOK, HandleAssign
<1>2. /\ assigns' \in Seq(Assignment) /\ Head(assigns) \in Assignment
    BY <1>1 DEF HandleAssign
<1>3. t \in Task /\ a \in Attempt /\ <<t, a>> \in Assignment
    BY <1>2 DEF Assignment
<1>4. Report(t, a, a, a, 1) \in ReportType
    BY <1>3 DEF Report, ReportType
<1>5. 0 \in 0..MaxAttempt
    BY PoolAssumption
<1>6. /\ Holding(t, a, 0) \in JobType
      /\ Holding(t, a, 0).task \in Task
      /\ Holding(t, a, 0).attempt \in Attempt
    BY <1>3, <1>5, HoldingType
<1>7. Worker \in Launcher /\ "assign" \in LauncherPc /\ "assign" \notin HoldsObject
    BY DEF Launcher, LauncherPc, HoldsObject
<1>8. answered' \subseteq Assignment /\ reports' \subseteq ReportType
    BY <1>1, <1>3, <1>4 DEF HandleAssign
<1>9. \/ UNCHANGED <<pc, job>>
      \/ /\ pc' = [pc EXCEPT ![Worker] = "assign"]
         /\ job' = [job EXCEPT ![Worker] = Holding(t, a, 0)]
    BY DEF HandleAssign
<1>10. /\ pc' \in [Launcher -> LauncherPc] /\ job' \in [Launcher -> JobType]
       /\ JobOK'
    <2>1. CASE UNCHANGED <<pc, job>>
        BY <1>1, <2>1 DEF JobOK
    <2>2. CASE /\ pc' = [pc EXCEPT ![Worker] = "assign"]
               /\ job' = [job EXCEPT ![Worker] = Holding(t, a, 0)]
        BY <1>1, <1>6, <1>7, <2>2, MoveJobOK
    <2> QED BY <1>9, <2>1, <2>2
<1> QED BY <1>2, <1>8, <1>10 DEF TypeInv, TypeOK, HandleAssign

\* A launcher that moves on with what it holds.
LEMMA StepJobOK ==
    ASSUME TypeInv, NEW l \in Launcher, NEW p \in LauncherPc,
           pc' = [pc EXCEPT ![l] = p], job' = job,
           p \in HoldsJob => pc[l] \in HoldsJob,
           p \in HoldsObject => pc[l] \in HoldsObject
    PROVE  /\ pc' \in [Launcher -> LauncherPc]
           /\ job' \in [Launcher -> JobType]
           /\ JobOK'
<1>1. /\ pc \in [Launcher -> LauncherPc]
      /\ job \in [Launcher -> JobType] /\ JobOK
    BY DEF TypeInv, TypeOK
<1>2. job' = [job EXCEPT ![l] = job[l]] /\ job[l] \in JobType
    BY <1>1
<1>3. /\ p \in HoldsJob => job[l].task \in Task /\ job[l].attempt \in Attempt
      /\ p \in HoldsObject => job[l].obj \in Attempt
    BY <1>1 DEF JobOK
<1> QED BY <1>1, <1>2, <1>3, MoveJobOK

\* A launcher that lets go of its assignment.
LEMMA IdleJobOK ==
    ASSUME TypeInv, NEW l \in Launcher, NEW p \in {"idle", "check"},
           pc' = [pc EXCEPT ![l] = p], job' = [job EXCEPT ![l] = Idle]
    PROVE  /\ pc' \in [Launcher -> LauncherPc]
           /\ job' \in [Launcher -> JobType]
           /\ JobOK'
<1>1. /\ pc \in [Launcher -> LauncherPc]
      /\ job \in [Launcher -> JobType] /\ JobOK
    BY DEF TypeInv, TypeOK
<1>2. p \in LauncherPc /\ p \notin HoldsJob /\ p \notin HoldsObject
    BY DEF LauncherPc, HoldsJob, HoldsObject
<1> QED BY <1>1, <1>2, MoveJobOK, IdleType

\* What a launcher past its check holds.
LEMMA HeldType ==
    ASSUME TypeInv, NEW l \in Launcher, pc[l] \in HoldsJob
    PROVE  /\ job[l].task \in Task /\ job[l].attempt \in Attempt
           /\ <<job[l].task, job[l].attempt>> \in Assignment
           /\ pc[l] \in HoldsObject => <<job[l].task, job[l].obj>> \in Assignment
BY DEF TypeInv, JobOK, Assignment

\* Registration: the live session is resumed, the dead one goes to the
\* reconnect, an unknown id is admitted or sent back.
LEMMA RegisterType ==
    ASSUME TypeInv, NEW l \in Launcher, Register(l) PROVE TypeInv'
<1> DEFINE t == job[l].task
           a == job[l].attempt
<1>1. /\ TypeOK /\ JobOK
      /\ sess \in [Task -> 0..MaxAttempt]
      /\ eng \in [Assignment -> EngineState]
      /\ pc \in [Launcher -> LauncherPc] /\ job \in [Launcher -> JobType]
    BY DEF TypeInv, TypeOK
<1>2. pc[l] = "register" /\ pc[l] \in HoldsJob
    BY DEF Register, HoldsJob
<1>3. t \in Task /\ a \in Attempt
    BY <1>2, HeldType
<1>4. CASE sess[t] # 0 /\ sess' = sess /\ eng' = eng
    <2>1. \E p \in {"started", "reconnect"} :
            /\ pc' = [pc EXCEPT ![l] = p]
            /\ job' = [job EXCEPT ![l] = Holding(t, a, sess[t])]
        BY <1>1, <1>4 DEF Register, Admit, Registering
    <2>2. sess[t] \in Attempt /\ sess[t] \in 0..MaxAttempt
        BY <1>1, <1>3, <1>4, PoolAssumption DEF Attempt
    <2>3. /\ Holding(t, a, sess[t]) \in JobType
          /\ Holding(t, a, sess[t]).task \in Task
          /\ Holding(t, a, sess[t]).attempt \in Attempt
          /\ Holding(t, a, sess[t]).obj \in Attempt
        BY <1>3, <2>2, HoldingType
    <2>4. "started" \in LauncherPc /\ "reconnect" \in LauncherPc
        BY DEF LauncherPc
    <2>5. /\ pc' \in [Launcher -> LauncherPc] /\ job' \in [Launcher -> JobType]
          /\ JobOK'
        BY <1>1, <2>1, <2>3, <2>4, MoveJobOK
    <2> QED BY <1>1, <1>4, <2>5 DEF TypeInv, TypeOK, Register
<1>5. CASE Admit(l, t, a) /\ eng' = Registering(eng, t, a)
    <2>1. /\ sess' \in [Task -> 0..MaxAttempt]
          /\ pc' \in [Launcher -> LauncherPc] /\ job' \in [Launcher -> JobType]
          /\ JobOK'
        BY <1>1, <1>2, <1>3, <1>5, AdmitType
    <2>2. eng' \in [Assignment -> EngineState]
        BY <1>1, <1>3, <1>5, RegisteringType
    <2> QED BY <2>1, <2>2 DEF TypeInv, TypeOK, Register
<1> QED BY <1>4, <1>5 DEF Register

\* The reconnect outside the lock, and the registration after it failed.
LEMMA ReconnectType ==
    ASSUME TypeInv, NEW l \in Launcher, Reconnect(l) PROVE TypeInv'
<1> DEFINE t == job[l].task
           a == job[l].attempt
           o == job[l].obj
<1>1. /\ TypeOK /\ JobOK
      /\ sess \in [Task -> 0..MaxAttempt]
      /\ eng \in [Assignment -> EngineState]
      /\ pc \in [Launcher -> LauncherPc] /\ job \in [Launcher -> JobType]
    BY DEF TypeInv, TypeOK
<1>2. pc[l] = "reconnect" /\ pc[l] \in HoldsJob /\ pc[l] \in HoldsObject
    BY DEF Reconnect, HoldsJob, HoldsObject
<1>3. t \in Task /\ a \in Attempt /\ <<t, o>> \in Assignment
    BY <1>2, HeldType
<1>4. "started" \in LauncherPc /\ "started" \in HoldsJob /\ "up" \in EngineState
    BY DEF LauncherPc, HoldsJob, EngineState
<1>5. CASE /\ eng' = [eng EXCEPT ![<<t, o>>] =
                        IF @ \in {"dead", "closed"} THEN "up" ELSE @]
           /\ pc' = [pc EXCEPT ![l] = "started"]
           /\ UNCHANGED <<sess, job>>
    <2>1. eng' \in [Assignment -> EngineState]
        BY <1>1, <1>3, <1>4, <1>5
    <2>2. /\ pc' \in [Launcher -> LauncherPc] /\ job' \in [Launcher -> JobType]
          /\ JobOK'
        BY <1>2, <1>4, <1>5, StepJobOK
    <2> QED BY <1>1, <1>5, <2>1, <2>2 DEF TypeInv, TypeOK, Reconnect
<1>6. CASE /\ Admit(l, t, a)
           /\ eng' = Registering([eng EXCEPT ![<<t, o>>] = Disconnected(@)], t, a)
    <2> DEFINE e == [eng EXCEPT ![<<t, o>>] = Disconnected(@)]
    <2>1. /\ sess' \in [Task -> 0..MaxAttempt]
          /\ pc' \in [Launcher -> LauncherPc] /\ job' \in [Launcher -> JobType]
          /\ JobOK'
        BY <1>1, <1>2, <1>3, <1>6, AdmitType
    <2>2. Disconnected(eng[<<t, o>>]) \in EngineState
        BY <1>1, <1>3 DEF Disconnected, EngineState
    <2>3. e \in [Assignment -> EngineState]
        BY <1>1, <1>3, <2>2
    <2>4. eng' \in [Assignment -> EngineState]
        BY <1>3, <1>6, <2>3, RegisteringType
    <2> QED BY <2>1, <2>4 DEF TypeInv, TypeOK, Reconnect
<1> QED BY <1>5, <1>6 DEF Reconnect

\* The end of the handshake.
LEMMA ConnectType ==
    ASSUME TypeInv, NEW l \in Launcher, Connect(l) PROVE TypeInv'
<1> DEFINE t == job[l].task
           a == job[l].attempt
<1>1. /\ sess \in [Task -> 0..MaxAttempt]
      /\ eng \in [Assignment -> EngineState]
      /\ answered \subseteq Assignment /\ reports \subseteq ReportType
    BY DEF TypeInv, TypeOK
<1>2. pc[l] = "connecting" /\ pc[l] \in HoldsJob /\ pc[l] \in HoldsObject
    BY DEF Connect, HoldsJob, HoldsObject
<1>3. t \in Task /\ a \in Attempt /\ <<t, a>> \in Assignment
    BY <1>2, HeldType
<1>4. /\ "started" \in LauncherPc /\ "started" \in HoldsJob
      /\ "up" \in EngineState /\ "failed" \in EngineState
    BY DEF LauncherPc, HoldsJob, EngineState
<1>5. CASE /\ eng' = [eng EXCEPT ![<<t, a>>] = "up"]
           /\ pc' = [pc EXCEPT ![l] = "started"]
           /\ UNCHANGED <<sess, job, answered, reports>>
    <2>1. eng' \in [Assignment -> EngineState]
        BY <1>1, <1>3, <1>4, <1>5
    <2>2. /\ pc' \in [Launcher -> LauncherPc] /\ job' \in [Launcher -> JobType]
          /\ JobOK'
        BY <1>2, <1>4, <1>5, StepJobOK
    <2> QED BY <1>1, <1>5, <2>1, <2>2 DEF TypeInv, TypeOK, Connect
<1>6. CASE /\ eng' = [eng EXCEPT ![<<t, a>>] = "failed"]
           /\ sess' = [sess EXCEPT ![t] = 0]
           /\ pc' = [pc EXCEPT ![l] = Relaunch(l)]
           /\ job' = [job EXCEPT ![l] = Idle]
           /\ answered' = answered \cup {<<t, a>>}
           /\ reports' = reports \cup {Report(t, a, a, a, 1)}
    <2>1. eng' \in [Assignment -> EngineState]
        BY <1>1, <1>3, <1>4, <1>6
    <2>2. sess' \in [Task -> 0..MaxAttempt]
        <3>1. 0 \in 0..MaxAttempt
            BY PoolAssumption
        <3> QED BY <1>1, <1>6, <3>1
    <2>3. Relaunch(l) \in {"idle", "check"}
        BY DEF Relaunch
    <2>4. /\ pc' \in [Launcher -> LauncherPc] /\ job' \in [Launcher -> JobType]
          /\ JobOK'
        BY <1>6, <2>3, IdleJobOK
    <2>5. Report(t, a, a, a, 1) \in ReportType
        BY <1>3 DEF Report, ReportType
    <2>6. answered' \subseteq Assignment /\ reports' \subseteq ReportType
        BY <1>1, <1>3, <1>6, <2>5
    <2> QED BY <2>1, <2>2, <2>4, <2>6 DEF TypeInv, TypeOK, Connect
<1> QED BY <1>5, <1>6 DEF Connect

\* One case for each way a launcher moves on.
LEMMA LaunchType ==
    ASSUME TypeInv, NEW l \in Launcher, Launch(l) PROVE TypeInv'
<1>1. /\ queue \in Seq(Assignment)
      /\ eng \in [Assignment -> EngineState]
      /\ meta \in [Task -> 0..MaxAttempt]
      /\ answered \subseteq Assignment /\ reports \subseteq ReportType
      /\ TypeOK
    BY DEF TypeInv, TypeOK
<1>2. Relaunch(l) \in {"idle", "check"}
    BY DEF Relaunch
<1>3. CASE EnqueueFull(l)
    <2>1. <<job[l].task, job[l].attempt>> \in Assignment
        BY <1>3, HeldType DEF EnqueueFull, HoldsJob
    <2>2. queue' \in Seq(Assignment)
        BY <1>1, <1>3, <2>1 DEF EnqueueFull
    <2>3. /\ pc' \in [Launcher -> LauncherPc] /\ job' \in [Launcher -> JobType]
          /\ JobOK'
        BY <1>3, IdleJobOK DEF EnqueueFull
    <2> QED BY <1>3, <2>2, <2>3 DEF TypeInv, TypeOK, EnqueueFull
<1>4. CASE StoreMeta(l)
    <2>1. pc[l] \in HoldsJob /\ pc[l] \in HoldsObject /\ "send" \in LauncherPc
        BY <1>4 DEF StoreMeta, HoldsJob, HoldsObject, LauncherPc
    <2>2. <<job[l].task, job[l].attempt>> \in Assignment /\ job[l].attempt \in Attempt
        BY <2>1, HeldType
    <2>3. job[l].attempt \in 0..MaxAttempt
        BY <2>2 DEF Attempt
    <2>4. meta' \in [Task -> 0..MaxAttempt] /\ answered' \subseteq Assignment
        BY <1>1, <1>4, <2>2, <2>3 DEF StoreMeta
    <2>5. /\ pc' \in [Launcher -> LauncherPc] /\ job' \in [Launcher -> JobType]
          /\ JobOK'
        BY <1>4, <2>1, StepJobOK DEF StoreMeta
    <2> QED BY <1>4, <2>4, <2>5 DEF TypeInv, TypeOK, StoreMeta
<1>5. CASE SendPrompt(l)
    <2>1. /\ pc[l] \in HoldsJob /\ pc[l] \in HoldsObject
          /\ "abort" \in LauncherPc
          /\ "working" \in EngineState
        BY <1>5 DEF SendPrompt, HoldsJob, HoldsObject, LauncherPc, EngineState
    <2>2. <<job[l].task, job[l].obj>> \in Assignment
        BY <2>1, HeldType
    <2>3. eng' \in [Assignment -> EngineState]
        BY <1>1, <1>5, <2>1, <2>2 DEF SendPrompt
    <2>4. \/ pc' = [pc EXCEPT ![l] = Relaunch(l)] /\ job' = [job EXCEPT ![l] = Idle]
          \/ pc' = [pc EXCEPT ![l] = "abort"] /\ job' = job
        BY <1>5 DEF SendPrompt
    <2>5. /\ pc' \in [Launcher -> LauncherPc] /\ job' \in [Launcher -> JobType]
          /\ JobOK'
        BY <1>2, <2>1, <2>4, IdleJobOK, StepJobOK
    <2> QED BY <1>5, <2>3, <2>5 DEF TypeInv, TypeOK, SendPrompt
<1>6. CASE AbortLaunch(l)
    <2>1. job[l].task \in Task /\ job[l].obj \in Attempt
        BY <1>6 DEF AbortLaunch, HoldsJob, HoldsObject, TypeInv, JobOK
    <2>2. /\ sess' \in [Task -> 0..MaxAttempt]
          /\ eng' \in [Assignment -> EngineState]
          /\ drains' \in Nat
          /\ exits' \subseteq ExitType
        BY <1>1, <1>6, <2>1, StopType DEF AbortLaunch
    <2>3. /\ pc' \in [Launcher -> LauncherPc] /\ job' \in [Launcher -> JobType]
          /\ JobOK'
        BY <1>2, <1>6, IdleJobOK DEF AbortLaunch
    <2> QED BY <1>6, <2>2, <2>3 DEF TypeInv, TypeOK, AbortLaunch
<1>7. CASE RejectLaunch(l)
    <2> DEFINE r == Report(job[l].task, job[l].attempt, job[l].attempt, job[l].attempt, 1)
    <2>1. /\ <<job[l].task, job[l].attempt>> \in Assignment
          /\ job[l].task \in Task /\ job[l].attempt \in Attempt
        BY <1>7, HeldType DEF RejectLaunch, HoldsJob
    <2>2. r \in ReportType
        BY <2>1 DEF Report, ReportType
    <2>3. answered' \subseteq Assignment /\ reports' \subseteq ReportType
        BY <1>1, <1>7, <2>1, <2>2 DEF RejectLaunch
    <2>4. /\ pc' \in [Launcher -> LauncherPc] /\ job' \in [Launcher -> JobType]
          /\ JobOK'
        BY <1>2, <1>7, IdleJobOK DEF RejectLaunch
    <2> QED BY <1>7, <2>3, <2>4 DEF TypeInv, TypeOK, RejectLaunch
<1> QED BY <1>3, <1>4, <1>5, <1>6, <1>7, RegisterType, ReconnectType, ConnectType
        DEF Launch

\* A drain starts, looks at the queue and takes an assignment or returns.
LEMMA DrainType ==
    ASSUME TypeInv, NEW d \in Drain, DrainStart(d) \/ DrainNext(d) PROVE TypeInv'
<1>1. /\ queue \in Seq(Assignment) /\ drains \in Nat
      /\ pc \in [Launcher -> LauncherPc] /\ job \in [Launcher -> JobType]
      /\ JobOK
    BY DEF TypeInv, TypeOK
<1>2. d \in Launcher /\ {"idle", "check", "register"} \subseteq LauncherPc
    BY DEF Launcher, LauncherPc
<1>3. /\ {"idle", "check"} \cap HoldsJob = {}
      /\ {"idle", "check", "register"} \cap HoldsObject = {}
    BY DEF HoldsJob, HoldsObject
<1>4. CASE DrainStart(d)
    <2>1. drains' \in Nat
        BY <1>1, <1>4 DEF DrainStart
    <2>2. /\ pc' \in [Launcher -> LauncherPc] /\ job' \in [Launcher -> JobType]
          /\ JobOK'
        BY <1>2, <1>3, <1>4, StepJobOK DEF DrainStart
    <2> QED BY <1>4, <2>1, <2>2 DEF TypeInv, TypeOK, DrainStart
<1>5. CASE DrainNext(d) /\ UNCHANGED <<queue, job>> /\ pc' = [pc EXCEPT ![d] = "idle"]
    <2>1. /\ pc' \in [Launcher -> LauncherPc] /\ job' \in [Launcher -> JobType]
          /\ JobOK'
        BY <1>2, <1>3, <1>5, StepJobOK
    <2> QED BY <1>5, <2>1 DEF TypeInv, TypeOK, DrainNext
<1>6. CASE /\ DrainNext(d) /\ queue # <<>> /\ queue' = Tail(queue)
           /\ pc' = [pc EXCEPT ![d] = "register"]
           /\ job' = [job EXCEPT ![d] = Holding(Head(queue)[1], Head(queue)[2], 0)]
    <2> DEFINE j == Holding(Head(queue)[1], Head(queue)[2], 0)
    <2>1. Head(queue) \in Assignment /\ queue' \in Seq(Assignment)
        BY <1>1, <1>6
    <2>2. Head(queue)[1] \in Task /\ Head(queue)[2] \in Attempt /\ 0 \in 0..MaxAttempt
        BY <2>1, PoolAssumption DEF Assignment
    <2>3. j \in JobType /\ j.task \in Task /\ j.attempt \in Attempt
        BY <2>2, HoldingType
    <2>4. /\ pc' \in [Launcher -> LauncherPc] /\ job' \in [Launcher -> JobType]
          /\ JobOK'
        BY <1>1, <1>2, <1>3, <1>6, <2>3, MoveJobOK
    <2> QED BY <1>6, <2>1, <2>4 DEF TypeInv, TypeOK, DrainNext
<1> QED BY <1>4, <1>5, <1>6 DEF DrainNext

\* The ends of turns and engines, and the stops they start.
LEMMA EngineType ==
    ASSUME TypeInv, NEW t \in Task, NEW a \in Attempt,
           EndTurn(t, a) \/ Crash(t, a) \/ EmitDeath(t, a)
    PROVE  TypeInv'
<1>1. /\ eng \in [Assignment -> EngineState]
      /\ stops \subseteq [task : Task, by : Attempt, code : {0, 1}]
      /\ deaths \subseteq Assignment
      /\ JobOK
    BY DEF TypeInv, TypeOK
<1>2. /\ <<t, a>> \in Assignment
      /\ "up" \in EngineState /\ "dead" \in EngineState
    BY DEF Assignment, EngineState
<1>3. ASSUME NEW code \in {0, 1}, Terminal(t, a, code)
      PROVE  stops' \subseteq [task : Task, by : Attempt, code : {0, 1}]
    BY <1>1, <1>3 DEF Terminal
<1>4. CASE EndTurn(t, a)
    <2>1. eng' \in [Assignment -> EngineState]
        BY <1>1, <1>2, <1>4 DEF EndTurn
    <2>2. stops' \subseteq [task : Task, by : Attempt, code : {0, 1}]
        BY <1>3, <1>4 DEF EndTurn
    <2> QED BY <1>4, <2>1, <2>2 DEF TypeInv, TypeOK, JobOK, EndTurn
<1>5. CASE Crash(t, a)
    <2>1. eng' \in [Assignment -> EngineState] /\ deaths' \subseteq Assignment
        BY <1>1, <1>2, <1>5 DEF Crash
    <2> QED BY <1>5, <2>1 DEF TypeInv, TypeOK, JobOK, Crash
<1>6. CASE EmitDeath(t, a)
    <2>1. deaths' \subseteq Assignment
        BY <1>1, <1>6 DEF EmitDeath
    <2>2. stops' \subseteq [task : Task, by : Attempt, code : {0, 1}]
        BY <1>3, <1>6 DEF EmitDeath
    <2> QED BY <1>6, <2>1, <2>2 DEF TypeInv, TypeOK, JobOK, EmitDeath
<1> QED BY <1>4, <1>5, <1>6

\* Stops, and the exit report that follows.
LEMMA CloseType ==
    ASSUME TypeInv,
           \/ \E s \in stops : RunStop(s)
           \/ StopDead
           \/ \E e \in exits : ExitStep(e)
    PROVE  TypeInv'
<1>1. /\ TypeOK /\ JobOK
      /\ sess \in [Task -> 0..MaxAttempt]
      /\ eng \in [Assignment -> EngineState]
      /\ meta \in [Task -> 0..MaxAttempt]
      /\ stops \subseteq [task : Task, by : Attempt, code : {0, 1}]
      /\ exits \subseteq ExitType /\ reports \subseteq ReportType
    BY DEF TypeInv, TypeOK
<1>0. 0 \in 0..MaxAttempt
    BY PoolAssumption
<1>2. ASSUME NEW s \in stops, RunStop(s) PROVE TypeInv'
    <2>1. s.task \in Task /\ s.code \in {0, 1}
        BY <1>1
    <2>2. /\ sess' \in [Task -> 0..MaxAttempt]
          /\ eng' \in [Assignment -> EngineState]
          /\ drains' \in Nat
          /\ exits' \subseteq ExitType
        BY <1>0, <1>1, <1>2, <2>1, StopType DEF RunStop
    <2>3. stops' \subseteq [task : Task, by : Attempt, code : {0, 1}]
        BY <1>1, <1>2 DEF RunStop
    <2> QED BY <1>2, <2>2, <2>3 DEF TypeInv, TypeOK, JobOK, RunStop
<1>3. CASE StopDead
    <2>1. sess' \in [Task -> 0..MaxAttempt]
        BY <1>0, <1>1, <1>3 DEF StopDead
    <2>2. eng' \in [Assignment -> EngineState]
        BY <1>1, <1>3 DEF StopDead, EngineState
    <2> QED BY <1>3, <2>1, <2>2 DEF TypeInv, TypeOK, JobOK, StopDead
<1>4. ASSUME NEW e \in exits, ReadMeta(e) PROVE TypeInv'
    <2>1. e \in ExitType /\ e.task \in Task
        BY <1>1 DEF ExitType
    <2>2. [e EXCEPT !.seen = meta[e.task]] \in ExitType
        BY <1>1, <2>1 DEF ExitType
    <2>3. exits' \subseteq ExitType
        BY <1>1, <1>4, <2>2 DEF ReadMeta
    <2> QED BY <1>4, <2>3 DEF TypeInv, TypeOK, JobOK, ReadMeta
<1>5. ASSUME NEW e \in exits, ReportExit(e) PROVE TypeInv'
    <2>1. e \in ExitType /\ e.seen # 0
        BY <1>1, <1>5 DEF ReportExit
    <2>2. /\ e.task \in Task /\ e.started \in Attempt /\ e.by \in Attempt /\ e.code \in {0, 1}
          /\ e.seen \in Attempt
        BY <2>1, PoolAssumption DEF ExitType, Attempt
    <2>3. Report(e.task, e.seen, e.started, e.by, e.code) \in ReportType
        BY <2>2 DEF Report, ReportType
    <2>4. /\ exits' \subseteq ExitType /\ reports' \subseteq ReportType
          /\ meta' \in [Task -> 0..MaxAttempt]
        BY <1>0, <1>1, <1>5, <2>2, <2>3 DEF ReportExit
    <2> QED BY <1>5, <2>4 DEF TypeInv, TypeOK, JobOK, ReportExit
<1> QED BY <1>2, <1>3, <1>4, <1>5 DEF ExitStep

\* The orchestrator sends one more attempt.
LEMMA DispatchType ==
    ASSUME TypeInv, NEW t \in Task, Dispatch(t) PROVE TypeInv'
<1>1. /\ dispatched \in [Task -> 0..MaxAttempt] /\ dispatched[t] \in 0..MaxAttempt
      /\ assigns \in Seq(Assignment)
      /\ dispatched[t] < MaxAttempt
    BY DEF TypeInv, TypeOK, Dispatch
<1>2. dispatched[t] + 1 \in Attempt /\ dispatched[t] + 1 \in 0..MaxAttempt
    BY <1>1, PoolAssumption DEF Attempt
<1>3. <<t, dispatched[t] + 1>> \in Assignment
    BY <1>2 DEF Assignment
<1>4. dispatched' \in [Task -> 0..MaxAttempt] /\ assigns' \in Seq(Assignment)
    BY <1>1, <1>2, <1>3 DEF Dispatch
<1> QED BY <1>4 DEF TypeInv, TypeOK, JobOK, Dispatch

\* The worker's count before it launches or queues.
LEMMA AssignCheckType == ASSUME TypeInv, AssignCheck PROVE TypeInv'
<1>1. \E p \in {"full", "register"} : pc' = [pc EXCEPT ![Worker] = p] /\ job' = job
    BY DEF AssignCheck
<1>2. /\ Worker \in Launcher /\ {"full", "register"} \subseteq LauncherPc
      /\ pc[Worker] \in HoldsJob /\ {"full", "register"} \cap HoldsObject = {}
    BY DEF AssignCheck, Launcher, LauncherPc, HoldsJob, HoldsObject
<1>3. /\ pc' \in [Launcher -> LauncherPc] /\ job' \in [Launcher -> JobType]
      /\ JobOK'
    BY <1>1, <1>2, StepJobOK
<1> QED BY <1>3 DEF TypeInv, TypeOK, AssignCheck

\* TypeInv is inductive.
LEMMA TypeInvStep == TypeInv /\ [Next]_vars => TypeInv'
<1> SUFFICES ASSUME TypeInv, [Next]_vars PROVE TypeInv'
    OBVIOUS
<1>1. ASSUME NEW t \in Task, Dispatch(t) PROVE TypeInv'
    BY <1>1, DispatchType
<1>2. CASE WorkerStep
    BY <1>2, HandleAssignType, AssignCheckType, LaunchType DEF WorkerStep, Launcher
<1>3. ASSUME NEW d \in Drain, DrainStep(d) PROVE TypeInv'
    BY <1>3, DrainType, LaunchType DEF DrainStep, Launcher
<1>4. ASSUME NEW t \in Task, NEW a \in Attempt,
             EndTurn(t, a) \/ Crash(t, a) \/ EmitDeath(t, a)
      PROVE  TypeInv'
    BY <1>4, EngineType
<1>5. CASE \/ \E s \in stops : RunStop(s)
           \/ StopDead
           \/ \E e \in exits : ExitStep(e)
    BY <1>5, CloseType
<1>6. CASE UNCHANGED vars
    BY <1>6 DEF TypeInv, TypeOK, JobOK, vars
<1> QED BY <1>1, <1>2, <1>3, <1>4, <1>5, <1>6 DEF Next

\* Every reachable state of the task pool is well typed, and a launcher at a
\* point of launchTaskSession holds a real assignment and session object.
THEOREM TypeInvHolds == Spec => []TypeInv
<1>1. TypeInv /\ [Next]_vars => TypeInv'
    BY TypeInvStep
<1> QED BY <1>1, InitTypeInv, PTL DEF Spec

\* Type correctness of the task pool.
THEOREM TypeCorrect == Spec => []TypeOK
<1>1. TypeInv => TypeOK
    BY DEF TypeInv
<1> QED BY <1>1, TypeInvHolds, PTL

-----------------------------------------------------------------------------
(* The pool bound. *)

\* The active sessions are finitely many.
LEMMA ActiveFinite == IsFiniteSet(ActiveSessions)
BY PoolAssumption, FS_Subset DEF ActiveSessions

\* Sessions that only leave the map keep the bound.
LEMMA ShrinkKeepsBound ==
    ASSUME PoolBound, ActiveSessions' \subseteq ActiveSessions
    PROVE  PoolBound'
<1>1. Cardinality(ActiveSessions') <= Cardinality(ActiveSessions)
    BY ActiveFinite, FS_Subset
<1>2. /\ Cardinality(ActiveSessions') \in Nat
      /\ Cardinality(ActiveSessions) \in Nat
    BY ActiveFinite, FS_Subset, FS_CardinalityType
<1> QED BY <1>1, <1>2, PoolAssumption DEF PoolBound

\* The critical section of createSession: the count excludes the id that is
\* about to be registered, so the registration adds at most one to a set
\* smaller than the pool.
LEMMA AdmitKeepsBound ==
    ASSUME TypeOK, PoolBound, NEW l, NEW t \in Task, NEW a, Admit(l, t, a)
    PROVE  PoolBound'
<1> DEFINE others == ActiveSessions \ {t}
<1>1. sess \in [Task -> 0..MaxAttempt]
    BY DEF TypeOK
<1>2. IsFiniteSet(others) /\ t \notin others /\ Cardinality(others) \in Nat
    BY ActiveFinite, FS_Subset, FS_CardinalityType
<1>3. CASE Cardinality(others) >= MaxConcurrent
    <2>1. ActiveSessions' \subseteq ActiveSessions
        BY <1>1, <1>3 DEF Admit, ActiveSessions
    <2> QED BY <2>1, ShrinkKeepsBound
<1>4. CASE ~(Cardinality(others) >= MaxConcurrent)
    <2>1. ActiveSessions' \subseteq others \cup {t}
        BY <1>1, <1>4 DEF Admit, ActiveSessions
    <2>2. /\ IsFiniteSet(others \cup {t})
          /\ Cardinality(others \cup {t}) = Cardinality(others) + 1
        BY <1>2, FS_AddElement
    <2>3. /\ Cardinality(ActiveSessions') <= Cardinality(others \cup {t})
          /\ Cardinality(ActiveSessions') \in Nat
        BY <2>1, <2>2, FS_Subset, FS_CardinalityType
    <2> QED BY <1>2, <1>4, <2>2, <2>3, PoolAssumption DEF PoolBound
<1> QED BY <1>3, <1>4

\* A stop takes at most one session out of the map.
LEMMA StopShrinks ==
    ASSUME TypeOK, NEW t, NEW by, NEW code, StopWithExitCode(t, by, code)
    PROVE  ActiveSessions' \subseteq ActiveSessions
<1>1. sess \in [Task -> 0..MaxAttempt]
    BY DEF TypeOK
<1> QED BY <1>1 DEF StopWithExitCode, ActiveSessions

\* A launcher registers under the check, or does not add to the map.
LEMMA LaunchKeepsBound ==
    ASSUME TypeInv, PoolBound, NEW l \in Launcher, Launch(l) PROVE PoolBound'
<1>1. TypeOK /\ sess \in [Task -> 0..MaxAttempt]
    BY DEF TypeInv, TypeOK
<1>2. CASE EnqueueFull(l) \/ RejectLaunch(l) \/ StoreMeta(l) \/ SendPrompt(l)
    BY <1>2 DEF EnqueueFull, RejectLaunch, StoreMeta, SendPrompt, PoolBound, ActiveSessions
<1>3. CASE Register(l)
    <2>1. job[l].task \in Task
        BY <1>3, HeldType DEF Register, HoldsJob
    <2>2. CASE UNCHANGED sess
        BY <2>2 DEF PoolBound, ActiveSessions
    <2>3. CASE Admit(l, job[l].task, job[l].attempt)
        BY <1>1, <2>1, <2>3, AdmitKeepsBound
    <2> QED BY <1>3, <2>2, <2>3 DEF Register
<1>4. CASE Reconnect(l)
    <2>1. job[l].task \in Task
        BY <1>4, HeldType DEF Reconnect, HoldsJob
    <2>2. CASE UNCHANGED sess
        BY <2>2 DEF PoolBound, ActiveSessions
    <2>3. CASE Admit(l, job[l].task, job[l].attempt)
        BY <1>1, <2>1, <2>3, AdmitKeepsBound
    <2> QED BY <1>4, <2>2, <2>3 DEF Reconnect
<1>5. CASE Connect(l)
    <2>1. ActiveSessions' \subseteq ActiveSessions
        BY <1>1, <1>5 DEF Connect, ActiveSessions
    <2> QED BY <2>1, ShrinkKeepsBound
<1>6. CASE AbortLaunch(l)
    BY <1>1, <1>6, StopShrinks, ShrinkKeepsBound DEF AbortLaunch
<1> QED BY <1>2, <1>3, <1>4, <1>5, <1>6 DEF Launch

\* For every number of tasks and launchers, the task pool never holds more
\* than MaxConcurrent sessions: the callers' counts are snapshots, the check
\* inside createSession is what bounds the pool.
THEOREM PoolBoundHolds == Spec => []PoolBound
<1>1. Init => PoolBound
    <2> SUFFICES ASSUME Init PROVE PoolBound
        OBVIOUS
    <2>1. ActiveSessions = {}
        BY DEF Init, ActiveSessions
    <2> QED BY <2>1, FS_EmptySet, PoolAssumption DEF PoolBound
<1>2. TypeInv /\ PoolBound /\ [Next]_vars => PoolBound'
    <2> SUFFICES ASSUME TypeInv, PoolBound, [Next]_vars PROVE PoolBound'
        OBVIOUS
    <2>1. TypeOK /\ sess \in [Task -> 0..MaxAttempt]
        BY DEF TypeInv, TypeOK
    <2>2. CASE UNCHANGED sess
        BY <2>2 DEF PoolBound, ActiveSessions
    <2>3. ASSUME NEW t \in Task, Dispatch(t) PROVE UNCHANGED sess
        BY <2>3 DEF Dispatch
    <2>4. CASE WorkerStep
        BY <2>2, <2>4, LaunchKeepsBound
           DEF WorkerStep, HandleAssign, AssignCheck, Launcher
    <2>5. ASSUME NEW d \in Drain, DrainStep(d) PROVE PoolBound'
        BY <2>2, <2>5, LaunchKeepsBound
           DEF DrainStep, DrainStart, DrainNext, Launcher
    <2>6. ASSUME NEW t \in Task, NEW a \in Attempt,
                 EndTurn(t, a) \/ Crash(t, a) \/ EmitDeath(t, a)
          PROVE  UNCHANGED sess
        BY <2>6 DEF EndTurn, Crash, EmitDeath
    <2>7. ASSUME NEW s \in stops, RunStop(s) PROVE PoolBound'
        BY <2>1, <2>7, StopShrinks, ShrinkKeepsBound DEF RunStop
    <2>8. CASE StopDead
        <3>1. ActiveSessions' \subseteq ActiveSessions
            BY <2>1, <2>8 DEF StopDead, ActiveSessions
        <3> QED BY <3>1, ShrinkKeepsBound
    <2>9. ASSUME NEW e \in exits, ExitStep(e) PROVE UNCHANGED sess
        BY <2>9 DEF ExitStep, ReadMeta, ReportExit
    <2>10. CASE UNCHANGED vars
        BY <2>2, <2>10 DEF vars
    <2> QED BY <2>2, <2>3, <2>4, <2>5, <2>6, <2>7, <2>8, <2>9, <2>10 DEF Next
<1> QED BY <1>1, <1>2, TypeInvHolds, PTL DEF Spec

-----------------------------------------------------------------------------
(* No assignment is lost. *)

InSeq(x, q) == \E i \in DOMAIN q : q[i] = x

\* Where an assignment may be on its way to its answer.
Pending(t, a) ==
    \/ <<t, a>> \in answered
    \/ InSeq(<<t, a>>, assigns)
    \/ InSeq(<<t, a>>, queue)
    \/ \E l \in Launcher : Holds(l, t, a)

\* What keeps a launcher from dropping what it holds: an idle one holds
\* nothing, and past StoreMeta the assignment has been answered.
Tidy ==
    \A l \in Launcher :
        /\ pc[l] \notin HoldsJob => job[l] = Idle
        /\ pc[l] \in {"send", "abort"} =>
               <<job[l].task, job[l].attempt>> \in answered

LostInv == Tidy /\ NoAssignmentLost

\* Append keeps what was there and adds its argument.
LEMMA AppendIn ==
    ASSUME NEW S, NEW q \in Seq(S), NEW x \in S, NEW y \in S
    PROVE  InSeq(x, q) \/ x = y => InSeq(x, Append(q, y))
<1> DEFINE r == Append(q, y)
<1>1. /\ DOMAIN Append(q, y) = 1..(Len(q) + 1)
      /\ \A i \in 1..Len(q) : Append(q, y)[i] = q[i]
      /\ Append(q, y)[Len(q) + 1] = y
      /\ Len(q) \in Nat /\ DOMAIN q = 1..Len(q)
    OBVIOUS
<1>2. 1..Len(q) \subseteq 1..(Len(q) + 1) /\ Len(q) + 1 \in 1..(Len(q) + 1)
    BY <1>1
<1> HIDE DEF r
<1>3. ASSUME NEW i \in DOMAIN q, q[i] = x PROVE \E k \in DOMAIN r : r[k] = x
    BY <1>1, <1>2, <1>3 DEF r
<1>4. ASSUME x = y PROVE \E k \in DOMAIN r : r[k] = x
    BY <1>1, <1>2, <1>4 DEF r
<1> QED BY <1>3, <1>4 DEF InSeq, r

\* Tail gives up the head only.
LEMMA TailIn ==
    ASSUME NEW S, NEW q \in Seq(S), q # <<>>, NEW x, InSeq(x, q)
    PROVE  x = Head(q) \/ InSeq(x, Tail(q))
<1>1. PICK i \in 1..Len(q) : q[i] = x
    BY DEF InSeq
<1>2. CASE i = 1
    BY <1>1, <1>2
<1>3. CASE i # 1
    <2>1. i - 1 \in 1..Len(Tail(q)) /\ Tail(q)[i - 1] = q[i]
        BY <1>1, <1>3
    <2>2. DOMAIN Tail(q) = 1..Len(Tail(q))
        OBVIOUS
    <2> QED BY <1>1, <2>1, <2>2 DEF InSeq
<1> QED BY <1>2, <1>3

\* One launcher moves to a tidy state and the others stay.
LEMMA MoveTidy ==
    ASSUME TypeInv, Tidy, NEW l \in Launcher, NEW p, NEW j,
           pc' = [pc EXCEPT ![l] = p], job' = [job EXCEPT ![l] = j],
           answered \subseteq answered',
           p \notin HoldsJob => j = Idle,
           p \in {"send", "abort"} => <<j.task, j.attempt>> \in answered'
    PROVE  Tidy'
<1>1. /\ pc \in [Launcher -> LauncherPc] /\ job \in [Launcher -> JobType]
    BY DEF TypeInv, TypeOK
<1>2. \A k \in Launcher : k # l => pc'[k] = pc[k] /\ job'[k] = job[k]
    BY <1>1
<1>3. pc'[l] = p /\ job'[l] = j
    BY <1>1
<1> QED BY <1>2, <1>3 DEF Tidy

\* What a launcher holds stays held while other launchers move, and while it
\* moves on with the same assignment.
LEMMA MoveHolds ==
    ASSUME TypeInv, NEW l \in Launcher, NEW j, job' = [job EXCEPT ![l] = j],
           NEW t, NEW a, NEW k \in Launcher, Holds(k, t, a),
           k = l => j.task = t /\ j.attempt = a
    PROVE  Holds(k, t, a)'
<1>1. job \in [Launcher -> JobType]
    BY DEF TypeInv, TypeOK
<1> QED BY <1>1 DEF Holds

\* An idle launcher holds no assignment.
LEMMA IdleHoldsNone ==
    ASSUME TypeInv, Tidy, NEW l \in Launcher, pc[l] \notin HoldsJob,
           NEW t \in Task, NEW a
    PROVE  ~Holds(l, t, a)
<1>1. Idle.task = NoTask /\ NoTask \notin Task
    BY PoolAssumption DEF Idle, Holding
<1>2. job[l] = Idle
    BY DEF Tidy
<1> QED BY <1>1, <1>2 DEF Holds

\* Every step of a launcher keeps the assignments pending: what it lets go of
\* is back in the queue or answered.
LEMMA LaunchKeeps ==
    ASSUME TypeInv, Tidy, NEW l \in Launcher, Launch(l)
    PROVE  /\ Tidy'
           /\ \A t \in Task, a \in Attempt : Pending(t, a) => Pending(t, a)'
           /\ UNCHANGED dispatched
<1>1. /\ queue \in Seq(Assignment)
      /\ pc \in [Launcher -> LauncherPc] /\ job \in [Launcher -> JobType]
    BY DEF TypeInv, TypeOK
<1>2. Relaunch(l) \notin HoldsJob /\ Relaunch(l) \notin {"send", "abort"}
    BY DEF Relaunch, HoldsJob
<1>3. UNCHANGED <<dispatched, assigns>>
    BY DEF Launch, EnqueueFull, RejectLaunch, Register, Reconnect, Connect, StoreMeta,
           SendPrompt, AbortLaunch
<1>4. pc[l] \in HoldsJob
    BY DEF Launch, EnqueueFull, RejectLaunch, Register, Reconnect, Connect, StoreMeta,
           SendPrompt, AbortLaunch, HoldsJob
<1>5. /\ job[l].task \in Task /\ job[l].attempt \in Attempt
      /\ <<job[l].task, job[l].attempt>> \in Assignment
    BY <1>4, HeldType
<1>6. /\ answered \subseteq answered'
      /\ \/ queue' = queue
         \/ queue' = Append(queue, <<job[l].task, job[l].attempt>>)
    BY DEF Launch, EnqueueFull, RejectLaunch, Register, Reconnect, Connect, StoreMeta,
           SendPrompt, AbortLaunch
<1>7. ASSUME NEW x \in Assignment, InSeq(x, queue) PROVE InSeq(x, queue')
    BY <1>1, <1>5, <1>6, <1>7, AppendIn
<1>8. ASSUME NEW p, NEW j, pc' = [pc EXCEPT ![l] = p], job' = [job EXCEPT ![l] = j],
             \/ /\ j.task = job[l].task /\ j.attempt = job[l].attempt
                /\ p \in HoldsJob
                /\ p \in {"send", "abort"} =>
                      <<job[l].task, job[l].attempt>> \in answered'
             \/ /\ p = Relaunch(l) \/ p = "idle"
                /\ j = Idle
                /\ \/ <<job[l].task, job[l].attempt>> \in answered'
                   \/ InSeq(<<job[l].task, job[l].attempt>>, queue')
      PROVE  /\ Tidy'
             /\ \A t \in Task, a \in Attempt : Pending(t, a) => Pending(t, a)'
    <2>1. Tidy'
        <3>1. "idle" \notin HoldsJob
            BY DEF HoldsJob
        <3> QED BY <1>2, <1>6, <1>8, <3>1, MoveTidy
    <2>2. ASSUME NEW t \in Task, NEW a \in Attempt, Pending(t, a)
          PROVE  Pending(t, a)'
        <3>1. CASE <<t, a>> \in answered
            BY <1>6, <3>1 DEF Pending
        <3>2. CASE InSeq(<<t, a>>, assigns)
            BY <1>3, <3>2 DEF Pending, InSeq
        <3>3. CASE InSeq(<<t, a>>, queue)
            <4>1. <<t, a>> \in Assignment
                BY DEF Assignment
            <4>2. InSeq(<<t, a>>, queue')
                BY <1>7, <3>3, <4>1
            <4> QED BY <4>2 DEF Pending, InSeq
        <3>4. ASSUME NEW k \in Launcher, Holds(k, t, a) PROVE Pending(t, a)'
            <4>1. CASE k # l \/ (j.task = job[l].task /\ j.attempt = job[l].attempt)
                <5>1. k = l => j.task = t /\ j.attempt = a
                    BY <3>4, <4>1 DEF Holds
                <5>2. Holds(k, t, a)'
                    BY <1>8, <3>4, <5>1, MoveHolds
                <5> QED BY <5>2 DEF Pending
            <4>2. CASE k = l /\ <<job[l].task, job[l].attempt>> \in answered'
                BY <3>4, <4>2 DEF Pending, Holds
            <4>3. CASE k = l /\ InSeq(<<job[l].task, job[l].attempt>>, queue')
                BY <3>4, <4>3 DEF Pending, Holds, InSeq
            <4> QED BY <1>8, <4>1, <4>2, <4>3
        <3> QED BY <2>2, <3>1, <3>2, <3>3, <3>4 DEF Pending
    <2> QED BY <2>1, <2>2
<1>9. job = [job EXCEPT ![l] = job[l]]
    BY <1>1
<1>10. \A t \in Task, a \in Attempt, o \in 0..MaxAttempt :
           Holding(t, a, o).task = t /\ Holding(t, a, o).attempt = a
    BY DEF Holding
<1>11. CASE EnqueueFull(l)
    <2>1. InSeq(<<job[l].task, job[l].attempt>>, queue')
        BY <1>1, <1>5, <1>11, AppendIn DEF EnqueueFull
    <2> QED BY <1>3, <1>8, <1>11, <2>1 DEF EnqueueFull
<1>12. CASE Register(l)
    <2>1. \E p \in {"started", "reconnect", "full", "connecting"} : \E o :
             /\ pc' = [pc EXCEPT ![l] = p]
             /\ \/ job' = [job EXCEPT ![l] = Holding(job[l].task, job[l].attempt, o)]
                \/ job' = job
        BY <1>12 DEF Register, Admit
    <2>2. {"started", "reconnect", "full", "connecting"} \subseteq HoldsJob
        BY DEF HoldsJob
    <2>3. \A o : /\ Holding(job[l].task, job[l].attempt, o).task = job[l].task
                 /\ Holding(job[l].task, job[l].attempt, o).attempt = job[l].attempt
        BY DEF Holding
    <2> QED BY <1>3, <1>8, <1>9, <2>1, <2>2, <2>3
<1>13. CASE Reconnect(l)
    <2>1. \E p \in {"started", "full", "connecting"} : \E o :
             /\ pc' = [pc EXCEPT ![l] = p]
             /\ \/ job' = [job EXCEPT ![l] = Holding(job[l].task, job[l].attempt, o)]
                \/ job' = job
        BY <1>13 DEF Reconnect, Admit
    <2>2. {"started", "full", "connecting"} \subseteq HoldsJob
        BY DEF HoldsJob
    <2>3. \A o : /\ Holding(job[l].task, job[l].attempt, o).task = job[l].task
                 /\ Holding(job[l].task, job[l].attempt, o).attempt = job[l].attempt
        BY DEF Holding
    <2> QED BY <1>3, <1>8, <1>9, <2>1, <2>2, <2>3
<1>14. CASE Connect(l)
    <2>1. CASE /\ pc' = [pc EXCEPT ![l] = "started"] /\ job' = job
        <3>1. "started" \in HoldsJob
            BY DEF HoldsJob
        <3> QED BY <1>3, <1>8, <1>9, <2>1, <3>1
    <2>2. CASE /\ pc' = [pc EXCEPT ![l] = Relaunch(l)]
               /\ job' = [job EXCEPT ![l] = Idle]
               /\ <<job[l].task, job[l].attempt>> \in answered'
        BY <1>3, <1>8, <2>2
    <2> QED BY <1>14, <2>1, <2>2 DEF Connect
<1>15. CASE StoreMeta(l)
    <2>1. "send" \in HoldsJob
        BY DEF HoldsJob
    <2> QED BY <1>3, <1>8, <1>9, <1>15, <2>1 DEF StoreMeta
<1>16. CASE SendPrompt(l)
    <2>1. "abort" \in HoldsJob /\ <<job[l].task, job[l].attempt>> \in answered'
        BY <1>16 DEF HoldsJob, SendPrompt, Tidy
    <2> QED BY <1>3, <1>8, <1>9, <1>16, <2>1 DEF SendPrompt
<1>17. CASE AbortLaunch(l)
    <2>1. <<job[l].task, job[l].attempt>> \in answered'
        BY <1>17 DEF AbortLaunch, Tidy
    <2> QED BY <1>3, <1>8, <1>17, <2>1 DEF AbortLaunch
<1>18. CASE RejectLaunch(l)
    <2>1. <<job[l].task, job[l].attempt>> \in answered'
        BY <1>18 DEF RejectLaunch
    <2> QED BY <1>3, <1>8, <1>18, <2>1 DEF RejectLaunch
<1> QED BY <1>3, <1>11, <1>12, <1>13, <1>14, <1>15, <1>16, <1>17, <1>18 DEF Launch

\* Steps that touch none of the places an assignment can be in.
LEMMA FrameKeeps ==
    ASSUME LostInv, UNCHANGED <<dispatched, assigns, queue, pc, job, answered>>
    PROVE  LostInv'
BY DEF LostInv, Tidy, NoAssignmentLost, Holds

\* NoAssignmentLost says that every assignment dispatched so far is pending.
LEMMA LostMeansPending ==
    NoAssignmentLost <=> \A t \in Task : \A a \in 1..dispatched[t] : Pending(t, a)
BY DEF NoAssignmentLost, Pending, InSeq

\* The same at the end of a step.
LEMMA LostMeansPendingNext ==
    ASSUME \A t \in Task : \A a \in 1..dispatched'[t] : Pending(t, a)'
    PROVE  NoAssignmentLost'
BY DEF NoAssignmentLost, Pending, InSeq

\* A step that adds no assignment and keeps each one pending.
LEMMA KeepsLost ==
    ASSUME TypeInv, LostInv, Tidy', UNCHANGED dispatched,
           \A t \in Task, a \in Attempt : Pending(t, a) => Pending(t, a)'
    PROVE  LostInv'
<1>1. dispatched \in [Task -> 0..MaxAttempt]
    BY DEF TypeInv, TypeOK
<1>2. ASSUME NEW t \in Task, NEW a \in 1..dispatched[t] PROVE a \in Attempt
    BY <1>1, PoolAssumption DEF Attempt
<1>3. \A t \in Task : \A a \in 1..dispatched'[t] : Pending(t, a)'
    BY <1>2, LostMeansPending DEF LostInv
<1> QED BY <1>3, LostMeansPendingNext DEF LostInv

\* The orchestrator's new assignment is in the message queue.
LEMMA DispatchKeeps ==
    ASSUME TypeInv, LostInv, NEW t \in Task, Dispatch(t) PROVE LostInv'
<1>1. /\ dispatched \in [Task -> 0..MaxAttempt] /\ dispatched[t] < MaxAttempt
      /\ dispatched' = [dispatched EXCEPT ![t] = dispatched[t] + 1]
      /\ assigns \in Seq(Assignment)
      /\ assigns' = Append(assigns, <<t, dispatched[t] + 1>>)
    BY DEF TypeInv, TypeOK, Dispatch
<1>2. <<t, dispatched[t] + 1>> \in Assignment
    BY <1>1, PoolAssumption DEF Assignment, Attempt
<1>3. ASSUME NEW u \in Task, NEW a \in 1..dispatched'[u] PROVE Pending(u, a)'
    <2>1. CASE a \in 1..dispatched[u]
        <3>1. Pending(u, a)
            BY <2>1, LostMeansPending DEF LostInv
        <3>2. <<u, a>> \in Assignment
            BY <1>1, <2>1, PoolAssumption DEF Assignment, Attempt
        <3>3. InSeq(<<u, a>>, assigns) => InSeq(<<u, a>>, assigns')
            BY <1>1, <1>2, <3>2, AppendIn
        <3> QED BY <3>1, <3>3 DEF Dispatch, Pending, Holds, InSeq
    <2>2. CASE u = t /\ a = dispatched[t] + 1
        <3>1. InSeq(<<u, a>>, assigns')
            BY <1>1, <1>2, <2>2, AppendIn
        <3> QED BY <3>1 DEF Pending, InSeq
    <2> QED BY <1>1, <1>3, <2>1, <2>2
<1>4. Tidy'
    BY DEF LostInv, Tidy, Dispatch
<1> QED BY <1>3, <1>4, LostMeansPendingNext DEF LostInv

\* The worker takes a message: the assignment is answered, or the worker,
\* which held nothing, holds it.
LEMMA HandleAssignKeeps ==
    ASSUME TypeInv, LostInv, HandleAssign PROVE LostInv'
<1> DEFINE h == Head(assigns)
           j == Holding(h[1], h[2], 0)
<1>1. /\ assigns \in Seq(Assignment) /\ assigns # <<>> /\ h \in Assignment
      /\ job \in [Launcher -> JobType]
      /\ Worker \in Launcher /\ pc[Worker] \notin HoldsJob
      /\ assigns' = Tail(assigns) /\ UNCHANGED <<dispatched, queue>>
      /\ answered \subseteq answered'
    BY DEF TypeInv, TypeOK, HandleAssign, HoldsJob, Launcher
<1>2. h = <<h[1], h[2]>>
    BY <1>1 DEF Assignment
<1>3. CASE UNCHANGED <<pc, job>> /\ h \in answered'
    <2>1. Tidy'
        BY <1>1, <1>3 DEF LostInv, Tidy
    <2>2. ASSUME NEW t \in Task, NEW a \in Attempt, Pending(t, a)
          PROVE  Pending(t, a)'
        <3>1. InSeq(<<t, a>>, assigns) => <<t, a>> = h \/ InSeq(<<t, a>>, assigns')
            BY <1>1, TailIn
        <3> QED BY <1>1, <1>3, <2>2, <3>1 DEF Pending, InSeq, Holds
    <2> QED BY <1>1, <2>1, <2>2, KeepsLost
<1>4. CASE /\ pc' = [pc EXCEPT ![Worker] = "assign"]
           /\ job' = [job EXCEPT ![Worker] = j]
           /\ UNCHANGED answered
    <2>1. Tidy'
        <3>1. "assign" \in HoldsJob
            BY DEF HoldsJob
        <3> QED BY <1>1, <1>4, <3>1, MoveTidy DEF LostInv
    <2>2. j.task = h[1] /\ j.attempt = h[2]
        BY DEF Holding
    <2>3. ASSUME NEW t \in Task, NEW a \in Attempt, Pending(t, a)
          PROVE  Pending(t, a)'
        <3>1. CASE InSeq(<<t, a>>, assigns)
            <4>1. CASE <<t, a>> = h
                <5>1. Holds(Worker, t, a)'
                    BY <1>1, <1>4, <2>2, <4>1 DEF Holds
                <5> QED BY <1>1, <5>1 DEF Pending
            <4>2. CASE InSeq(<<t, a>>, assigns')
                BY <4>2 DEF Pending, InSeq
            <4> QED BY <1>1, <3>1, <4>1, <4>2, TailIn
        <3>2. CASE \E l \in Launcher : Holds(l, t, a)
            <4>1. PICK l \in Launcher : Holds(l, t, a)
                BY <3>2
            <4>2. l # Worker
                BY <1>1, <4>1, IdleHoldsNone DEF LostInv
            <4>3. Holds(l, t, a)'
                BY <1>1, <1>4, <4>1, <4>2, MoveHolds
            <4> QED BY <4>3 DEF Pending
        <3>3. CASE <<t, a>> \in answered \/ InSeq(<<t, a>>, queue)
            BY <1>1, <1>4, <3>3 DEF Pending, InSeq
        <3> QED BY <2>3, <3>1, <3>2, <3>3 DEF Pending
    <2> QED BY <1>1, <2>1, <2>3, KeepsLost
<1> QED BY <1>2, <1>3, <1>4 DEF HandleAssign

\* A drain that takes the head of the queue holds it.
LEMMA DrainKeeps ==
    ASSUME TypeInv, LostInv, NEW d \in Drain, DrainStart(d) \/ DrainNext(d)
    PROVE  LostInv'
<1> DEFINE h == Head(queue)
           j == Holding(h[1], h[2], 0)
<1>1. /\ d \in Launcher /\ pc[d] \notin HoldsJob
      /\ queue \in Seq(Assignment) /\ job \in [Launcher -> JobType]
      /\ pc \in [Launcher -> LauncherPc]
      /\ UNCHANGED <<dispatched, assigns, answered>>
    BY DEF TypeInv, TypeOK, Launcher, DrainStart, DrainNext, HoldsJob
<1>2. CASE /\ \E p \in {"idle", "check"} : pc' = [pc EXCEPT ![d] = p]
           /\ UNCHANGED <<queue, job>>
    <2>1. job = [job EXCEPT ![d] = Idle]
        BY <1>1 DEF LostInv, Tidy
    <2>2. PICK p \in {"idle", "check"} : pc' = [pc EXCEPT ![d] = p]
        BY <1>2
    <2>3. p \notin HoldsJob /\ p \notin {"send", "abort"}
        BY DEF HoldsJob
    <2>4. Tidy'
        BY <1>1, <1>2, <2>1, <2>2, <2>3, MoveTidy DEF LostInv
    <2>5. \A t \in Task, a \in Attempt : Pending(t, a) => Pending(t, a)'
        BY <1>1, <1>2 DEF Pending, InSeq, Holds
    <2> QED BY <1>1, <2>4, <2>5, KeepsLost
<1>3. CASE /\ queue # <<>> /\ queue' = Tail(queue)
           /\ pc' = [pc EXCEPT ![d] = "register"]
           /\ job' = [job EXCEPT ![d] = j]
    <2>1. Tidy'
        <3>1. "register" \in HoldsJob
            BY DEF HoldsJob
        <3> QED BY <1>1, <1>3, <3>1, MoveTidy DEF LostInv
    <2>2. j.task = h[1] /\ j.attempt = h[2]
        BY DEF Holding
    <2>3. ASSUME NEW t \in Task, NEW a \in Attempt, Pending(t, a)
          PROVE  Pending(t, a)'
        <3>1. CASE InSeq(<<t, a>>, queue)
            <4>1. CASE <<t, a>> = h
                <5>1. Holds(d, t, a)'
                    BY <1>1, <1>3, <2>2, <4>1 DEF Holds
                <5> QED BY <1>1, <5>1 DEF Pending
            <4>2. CASE InSeq(<<t, a>>, queue')
                BY <4>2 DEF Pending, InSeq
            <4> QED BY <1>1, <1>3, <3>1, <4>1, <4>2, TailIn
        <3>2. CASE \E l \in Launcher : Holds(l, t, a)
            <4>1. PICK l \in Launcher : Holds(l, t, a)
                BY <3>2
            <4>2. l # d
                BY <1>1, <4>1, IdleHoldsNone DEF LostInv
            <4>3. Holds(l, t, a)'
                BY <1>1, <1>3, <4>1, <4>2, MoveHolds
            <4> QED BY <4>3 DEF Pending
        <3>3. CASE <<t, a>> \in answered \/ InSeq(<<t, a>>, assigns)
            BY <1>1, <3>3 DEF Pending, InSeq
        <3> QED BY <2>3, <3>1, <3>2, <3>3 DEF Pending
    <2> QED BY <1>1, <2>1, <2>3, KeepsLost
<1> QED BY <1>2, <1>3 DEF DrainStart, DrainNext

\* However the worker and any number of drains race for the slots, a launcher
\* lets go of an assignment only after answering or re-queueing it, and takes
\* one only when it holds none.
THEOREM LostInvHolds == Spec => []LostInv
<1>1. Init => LostInv
    <2> SUFFICES ASSUME Init PROVE LostInv
        OBVIOUS
    <2>1. \A t \in Task : 1..dispatched[t] = {}
        BY DEF Init
    <2>2. NoAssignmentLost
        BY <2>1 DEF NoAssignmentLost
    <2>3. Tidy
        BY DEF Init, Tidy
    <2> QED BY <2>2, <2>3 DEF LostInv
<1>2. TypeInv /\ LostInv /\ [Next]_vars => LostInv'
    <2> SUFFICES ASSUME TypeInv, LostInv, [Next]_vars PROVE LostInv'
        OBVIOUS
    <2>1. ASSUME NEW t \in Task, Dispatch(t) PROVE LostInv'
        BY <2>1, DispatchKeeps
    <2>2. ASSUME NEW l \in Launcher, Launch(l) PROVE LostInv'
        BY <2>2, LaunchKeeps, KeepsLost DEF LostInv
    <2>3. CASE AssignCheck
        <3>1. \E p \in {"full", "register"} : pc' = [pc EXCEPT ![Worker] = p]
            BY <2>3 DEF AssignCheck
        <3>2. Worker \in Launcher /\ {"full", "register"} \subseteq HoldsJob
            BY DEF Launcher, HoldsJob
        <3>3. job = [job EXCEPT ![Worker] = job[Worker]]
            BY <3>2 DEF TypeInv, TypeOK
        <3>4. UNCHANGED <<dispatched, assigns, queue, answered, job>>
            BY <2>3 DEF AssignCheck
        <3>5. Tidy'
            BY <3>1, <3>2, <3>3, <3>4, MoveTidy DEF LostInv
        <3> QED BY <3>4, <3>5 DEF LostInv, NoAssignmentLost, Holds
    <2>4. CASE WorkerStep
        BY <2>2, <2>3, <2>4, HandleAssignKeeps DEF WorkerStep, Launcher
    <2>5. ASSUME NEW d \in Drain, DrainStep(d) PROVE LostInv'
        BY <2>2, <2>5, DrainKeeps DEF DrainStep, Launcher
    <2>6. ASSUME NEW t \in Task, NEW a \in Attempt,
                 EndTurn(t, a) \/ Crash(t, a) \/ EmitDeath(t, a)
          PROVE  LostInv'
        BY <2>6, FrameKeeps DEF EndTurn, Crash, EmitDeath
    <2>7. ASSUME NEW s \in stops, RunStop(s) PROVE LostInv'
        BY <2>7, FrameKeeps DEF RunStop
    <2>8. CASE StopDead
        BY <2>8, FrameKeeps DEF StopDead
    <2>9. ASSUME NEW e \in exits, ExitStep(e) PROVE LostInv'
        BY <2>9, FrameKeeps DEF ExitStep, ReadMeta, ReportExit
    <2>10. CASE UNCHANGED vars
        BY <2>10, FrameKeeps DEF vars
    <2> QED BY <2>1, <2>4, <2>5, <2>6, <2>7, <2>8, <2>9, <2>10 DEF Next
<1> QED BY <1>1, <1>2, TypeInvHolds, PTL DEF Spec

\* No assignment the orchestrator sent is lost before it is answered.
THEOREM NoAssignmentLostHolds == Spec => []NoAssignmentLost
<1>1. LostInv => NoAssignmentLost
    BY DEF LostInv
<1> QED BY <1>1, LostInvHolds, PTL

-----------------------------------------------------------------------------
(***************************************************************************)
(* Proofs about the end of the sessions of TaskPool and the reports it     *)
(* leads to.  PlaceInv and EngineInv tie an engine to the one place its    *)
(* assignment is in; ExitInv says that a session is stopped once; MetaInv  *)
(* and PatientInv tie the metas and reports to them.                       *)
(***************************************************************************)


\* Whose session does not exist yet, and whose meta is not stored yet.
BeforeSession == {"assign", "full", "register", "reconnect"}
BeforeMeta == BeforeSession \cup {"connecting", "started"}

Held(l) == <<job[l].task, job[l].attempt>>
Waits(t, a) == dispatched[t] < a \/ InSeq(<<t, a>>, assigns) \/ InSeq(<<t, a>>, queue)
At(P, t, a) == \E l \in Launcher : pc[l] \in P /\ Holds(l, t, a)

Distinct(q) == \A i, j \in DOMAIN q : q[i] = q[j] => i = j

\* An assignment is in one place at a time.
PlaceInv ==
    /\ Distinct(assigns) /\ Distinct(queue)
    /\ \A t \in Task, a \in Attempt :
         /\ ~(InSeq(<<t, a>>, assigns) /\ InSeq(<<t, a>>, queue))
         /\ InSeq(<<t, a>>, assigns) \/ InSeq(<<t, a>>, queue) => a <= dispatched[t]
         /\ At(HoldsJob, t, a) => ~Waits(t, a)
    /\ \A l, k \in Launcher : pc[l] \in HoldsJob /\ pc[k] \in HoldsJob /\ Held(l) = Held(k) => l = k

Early(t, a) == Waits(t, a) \/ At(BeforeSession, t, a)
Open(t, a) == Waits(t, a) \/ At(BeforeMeta, t, a)

\* An engine exists only once its session was registered, is the launcher's
\* until it connects, and ends only after it did.
Began(t, a) == eng[<<t, a>>] \notin {"none", "connecting"}
EngineInv ==
    /\ \A t \in Task, a \in Attempt : Early(t, a) => eng[<<t, a>>] = "none"
    /\ \A t \in Task : sess[t] # 0 => eng[<<t, sess[t]>>] # "none"
    /\ \A l \in Launcher : pc[l] = "connecting" =>
         job[l].obj = job[l].attempt /\ eng[Held(l)] = "connecting"
    /\ \A l \in Launcher : pc[l] \in {"started", "send", "abort"} => Began(job[l].task, job[l].obj)
    /\ \A s \in stops : Began(s.task, s.by)
    /\ \A o \in deaths : Began(o[1], o[2])

\* A session that was stopped does not come back, and is stopped once.
ExitInv ==
    /\ \A e \in exits : /\ Began(e.task, e.by) /\ eng[<<e.task, e.started>>] # "none"
                        /\ sess[e.task] # e.started
    /\ \A e, f \in exits : e.task = f.task /\ e.started = f.started => e = f

\* No report of an attempt before its meta is stored, and none while it is.
Reported(t, a) == \E r \in reports : r.task = t /\ r.attempt = a
MetaInv ==
    \A t \in Task, a \in Attempt :
        /\ Open(t, a) =>
             ~Reported(t, a) /\ meta[t] # a /\ \A e \in exits : e.task = t => e.seen # a
        /\ meta[t] = a => ~Reported(t, a)

\* With a patient orchestrator, and only own stops reported, all attempts but the
\* last are reported, and a session, or the exit of one, is that of the last.
Patient == orch = "waits" /\ (\A r \in reports : r.by = r.started)
PatientInv ==
    Patient =>
        /\ \A t \in Task : \A a \in Attempt : a < dispatched[t] => Reported(t, a)
        /\ \A t \in Task : sess[t] # 0 => ~Reported(t, sess[t])
        /\ \A e \in exits : e.by = e.started =>
             ~Reported(e.task, e.started) /\ e.seen \in {0, e.started}
        /\ AttemptEcho /\ SingleReport

LiveInv == PlaceInv /\ EngineInv /\ ExitInv
ReportInv == MetaInv /\ PatientInv

-----------------------------------------------------------------------------
(* Queues of different elements.                                            *)

LEMMA DistinctAppend ==
    ASSUME NEW S, NEW q \in Seq(S), NEW y \in S, Distinct(q), ~InSeq(y, q)
    PROVE  /\ Distinct(Append(q, y))
           /\ \A x : InSeq(x, Append(q, y)) => InSeq(x, q) \/ x = y
<1>1. /\ DOMAIN Append(q, y) = 1..(Len(q) + 1)
      /\ \A i \in 1..Len(q) : Append(q, y)[i] = q[i]
      /\ Append(q, y)[Len(q) + 1] = y
      /\ Len(q) \in Nat /\ DOMAIN q = 1..Len(q)
    OBVIOUS
<1>2. \A i \in 1..(Len(q) + 1) : i \in 1..Len(q) \/ i = Len(q) + 1
    BY <1>1
<1> QED BY <1>1, <1>2 DEF Distinct, InSeq

LEMMA DistinctTail ==
    ASSUME NEW S, NEW q \in Seq(S), q # <<>>, Distinct(q)
    PROVE  /\ Distinct(Tail(q)) /\ ~InSeq(Head(q), Tail(q)) /\ InSeq(Head(q), q)
           /\ \A x : InSeq(x, Tail(q)) => InSeq(x, q)
<1>1. /\ Len(q) \in Nat \ {0} /\ DOMAIN q = 1..Len(q) /\ DOMAIN Tail(q) = 1..(Len(q) - 1)
      /\ \A i \in 1..(Len(q) - 1) : Tail(q)[i] = q[i + 1]
      /\ Head(q) = q[1]
    OBVIOUS
<1>2. \A i \in DOMAIN Tail(q) : i \in Nat /\ i + 1 \in DOMAIN q /\ Tail(q)[i] = q[i + 1] /\ i + 1 # 1
    BY <1>1
<1>3. 1 \in DOMAIN q
    BY <1>1
<1> QED BY <1>1, <1>2, <1>3 DEF Distinct, InSeq

-----------------------------------------------------------------------------
(* An assignment is in one place at a time.                                 *)

\* What a launcher past its check holds is an assignment.
LEMMA HeldIs ==
    ASSUME TypeInv, NEW l \in Launcher, pc[l] \in HoldsJob
    PROVE  /\ Held(l) \in Assignment /\ Held(l) = <<job[l].task, job[l].attempt>>
           /\ job[l].task \in Task /\ job[l].attempt \in Attempt
           /\ At(HoldsJob, job[l].task, job[l].attempt)
BY HeldType DEF Held, At, Holds

\* Nothing is taken or put back: launchers keep what they hold, or let go of it.
LEMMA PlaceFrame ==
    ASSUME TypeInv, PlaceInv, UNCHANGED <<dispatched, assigns, queue>>,
           \A l \in Launcher : pc'[l] \in HoldsJob =>
               pc[l] \in HoldsJob /\ job'[l].task = job[l].task /\ job'[l].attempt = job[l].attempt
    PROVE  PlaceInv'
<1>1. \A t, a : At(HoldsJob, t, a)' => At(HoldsJob, t, a)
    BY DEF At, Holds
<1>2. \A t, a : Waits(t, a)' <=> Waits(t, a)
    BY DEF Waits, InSeq
<1> QED BY <1>1, <1>2 DEF PlaceInv, Held, Distinct, InSeq

\* A new attempt is in no place yet.
LEMMA PlaceDispatch ==
    ASSUME TypeInv, PlaceInv, NEW t \in Task, Dispatch(t)
    PROVE  /\ PlaceInv'
           /\ \A u \in Task, a \in Attempt : Waits(u, a)' => Waits(u, a)
<1> DEFINE x == <<t, dispatched[t] + 1>>
<1>1. /\ dispatched \in [Task -> 0..MaxAttempt] /\ dispatched[t] < MaxAttempt /\ dispatched[t] \in Nat
      /\ dispatched' = [dispatched EXCEPT ![t] = dispatched[t] + 1]
      /\ assigns \in Seq(Assignment) /\ assigns' = Append(assigns, x)
      /\ UNCHANGED <<queue, pc, job>>
    BY DEF TypeInv, TypeOK, Dispatch
<1>2. x \in Assignment /\ dispatched[t] + 1 \in Attempt
    BY <1>1, PoolAssumption DEF Assignment, Attempt
<1>3. ~InSeq(x, assigns)
    BY <1>1, <1>2 DEF PlaceInv
<1>4. /\ Distinct(assigns') /\ \A y : InSeq(y, assigns') => InSeq(y, assigns) \/ y = x
    <2>1. Distinct(assigns)
        BY DEF PlaceInv
    <2> HIDE DEF x
    <2> QED BY ONLY <1>1, <1>2, <1>3, <2>1, DistinctAppend
<1>5. \A u \in Task, a \in Attempt : u # t => dispatched'[u] = dispatched[u]
    BY <1>1
<1>6. dispatched'[t] = dispatched[t] + 1
    BY <1>1
<1>7. \A u \in Task, a \in Attempt : dispatched[u] \in Nat /\ a \in Nat
    BY <1>1 DEF Attempt
<1>8. ASSUME NEW u \in Task, NEW a \in Attempt PROVE Waits(u, a)' => Waits(u, a)
    <2>1. CASE <<u, a>> = x
        BY <1>1, <1>7, <2>1 DEF Waits
    <2>2. CASE <<u, a>> # x
        <3>1. InSeq(<<u, a>>, assigns)' => InSeq(<<u, a>>, assigns)
            BY <1>4, <2>2 DEF InSeq
        <3>2. InSeq(<<u, a>>, queue)' <=> InSeq(<<u, a>>, queue)
            BY <1>1 DEF InSeq
        <3>3. dispatched'[u] < a => dispatched[u] < a
            BY <1>5, <1>6, <1>7
        <3> QED BY <3>1, <3>2, <3>3 DEF Waits
    <2> QED BY <2>1, <2>2
<1>9. ASSUME NEW u \in Task, NEW a \in Attempt
      PROVE  /\ ~(InSeq(<<u, a>>, assigns) /\ InSeq(<<u, a>>, queue))'
             /\ InSeq(<<u, a>>, assigns)' \/ InSeq(<<u, a>>, queue)' => a <= dispatched'[u]
             /\ At(HoldsJob, u, a)' => ~Waits(u, a)'
    <2>1. CASE <<u, a>> = x
        <3>1. ~InSeq(x, queue) /\ ~At(HoldsJob, t, dispatched[t] + 1)
            BY <1>1, <1>2 DEF PlaceInv, Waits
        <3> QED BY <1>1, <1>6, <1>7, <2>1, <3>1 DEF InSeq, At, Holds
    <2>2. CASE <<u, a>> # x
        <3>1. InSeq(<<u, a>>, assigns)' => InSeq(<<u, a>>, assigns)
            BY <1>4, <2>2 DEF InSeq
        <3>2. InSeq(<<u, a>>, queue)' <=> InSeq(<<u, a>>, queue)
            BY <1>1 DEF InSeq
        <3>3. At(HoldsJob, u, a)' => At(HoldsJob, u, a)
            BY <1>1 DEF At, Holds
        <3>4. a <= dispatched[u] => a <= dispatched'[u]
            BY <1>1, <1>5, <1>6, <1>7
        <3> QED BY <1>8, <3>1, <3>2, <3>3, <3>4 DEF PlaceInv
    <2> QED BY <2>1, <2>2
<1>10. Distinct(queue)' /\ \A l, k \in Launcher :
           pc'[l] \in HoldsJob /\ pc'[k] \in HoldsJob /\ Held(l)' = Held(k)' => l = k
    BY <1>1 DEF PlaceInv, Held, Distinct
<1> QED BY <1>4, <1>8, <1>9, <1>10 DEF PlaceInv

\* The head of a queue is taken: it waits no more, and a launcher holds it or nobody.
LEMMA PlaceTake ==
    ASSUME TypeInv, Tidy, PlaceInv, NEW l \in Launcher, pc[l] \notin HoldsJob, NEW h,
           UNCHANGED dispatched,
           \/ assigns # <<>> /\ h = Head(assigns) /\ assigns' = Tail(assigns) /\ queue' = queue
           \/ queue # <<>> /\ h = Head(queue) /\ queue' = Tail(queue) /\ assigns' = assigns,
           \/ UNCHANGED <<pc, job>>
           \/ \E p \in HoldsJob : /\ pc' = [pc EXCEPT ![l] = p]
                                  /\ job' = [job EXCEPT ![l] = Holding(h[1], h[2], 0)]
    PROVE  /\ PlaceInv' /\ h \in Assignment /\ Waits(h[1], h[2]) /\ ~Waits(h[1], h[2])'
           /\ ~At(HoldsJob, h[1], h[2])
           /\ \A u \in Task, a \in Attempt : Waits(u, a)' => Waits(u, a)
           /\ \A u \in Task, a \in Attempt, k \in Launcher :
                  k # l /\ Holds(k, u, a)' => pc'[k] = pc[k] /\ job'[k] = job[k]
<1>1. /\ assigns \in Seq(Assignment) /\ queue \in Seq(Assignment)
      /\ pc \in [Launcher -> LauncherPc] /\ job \in [Launcher -> JobType]
      /\ Distinct(assigns) /\ Distinct(queue)
    BY DEF TypeInv, TypeOK, PlaceInv
<1>2. /\ h \in Assignment /\ Distinct(assigns') /\ Distinct(queue')
      /\ InSeq(h, assigns) \/ InSeq(h, queue)
      /\ \A x : (InSeq(x, assigns') => InSeq(x, assigns)) /\ (InSeq(x, queue') => InSeq(x, queue))
      /\ InSeq(h, assigns) => ~InSeq(h, queue) /\ ~InSeq(h, assigns')
      /\ InSeq(h, queue) => ~InSeq(h, assigns) /\ ~InSeq(h, queue')
    <2>1. \A x \in Assignment : ~(InSeq(x, assigns) /\ InSeq(x, queue))
        BY DEF PlaceInv, Assignment
    <2>2. CASE assigns # <<>> /\ h = Head(assigns) /\ assigns' = Tail(assigns) /\ queue' = queue
        <3>1. h \in Assignment
            BY <1>1, <2>2
        <3>2. /\ Distinct(Tail(assigns)) /\ ~InSeq(Head(assigns), Tail(assigns)) /\ InSeq(Head(assigns), assigns)
              /\ \A x : InSeq(x, Tail(assigns)) => InSeq(x, assigns)
            BY ONLY <1>1, <2>2, DistinctTail
        <3> QED BY <1>1, <2>1, <2>2, <3>1, <3>2
    <2>3. CASE queue # <<>> /\ h = Head(queue) /\ queue' = Tail(queue) /\ assigns' = assigns
        <3>1. h \in Assignment
            BY <1>1, <2>3
        <3>2. /\ Distinct(Tail(queue)) /\ ~InSeq(Head(queue), Tail(queue)) /\ InSeq(Head(queue), queue)
              /\ \A x : InSeq(x, Tail(queue)) => InSeq(x, queue)
            BY ONLY <1>1, <2>3, DistinctTail
        <3> QED BY <1>1, <2>1, <2>3, <3>1, <3>2
    <2> QED BY <2>2, <2>3
<1>3. h = <<h[1], h[2]>> /\ h[1] \in Task /\ h[2] \in Attempt
    BY <1>2 DEF Assignment
<1>4. ~(dispatched[h[1]] < h[2]) /\ ~At(HoldsJob, h[1], h[2]) /\ Waits(h[1], h[2])
    <2>1. h[2] <= dispatched[h[1]] /\ ~At(HoldsJob, h[1], h[2])
        BY <1>2, <1>3 DEF PlaceInv, Waits
    <2>2. dispatched[h[1]] \in Nat /\ h[2] \in Nat
        BY <1>3 DEF TypeInv, TypeOK, Attempt
    <2> QED BY <1>2, <1>3, <2>1, <2>2 DEF Waits
<1>5. ~Waits(h[1], h[2])'
    BY <1>2, <1>3, <1>4 DEF Waits, InSeq
<1>6. \A u \in Task, a \in Attempt : Waits(u, a)' => Waits(u, a)
    BY <1>2 DEF Waits, InSeq
<1>7. \A k \in Launcher : k # l => pc'[k] = pc[k] /\ job'[k] = job[k]
    BY <1>1
<1>8. \/ UNCHANGED <<pc, job>>
      \/ pc'[l] \in HoldsJob /\ job'[l].task = h[1] /\ job'[l].attempt = h[2]
    BY <1>1 DEF Holding
<1>9. ASSUME NEW u \in Task, NEW a \in Attempt
      PROVE  /\ ~(InSeq(<<u, a>>, assigns) /\ InSeq(<<u, a>>, queue))'
             /\ InSeq(<<u, a>>, assigns)' \/ InSeq(<<u, a>>, queue)' => a <= dispatched'[u]
             /\ At(HoldsJob, u, a)' => ~Waits(u, a)'
    <2>1. ~(InSeq(<<u, a>>, assigns) /\ InSeq(<<u, a>>, queue))'
        BY <1>2 DEF PlaceInv, InSeq
    <2>2. InSeq(<<u, a>>, assigns)' \/ InSeq(<<u, a>>, queue)' => a <= dispatched'[u]
        BY <1>2 DEF PlaceInv, InSeq
    <2>3. CASE u = h[1] /\ a = h[2]
        BY <1>5, <2>1, <2>2, <2>3
    <2>4. CASE ~(u = h[1] /\ a = h[2])
        <3>1. At(HoldsJob, u, a)' => At(HoldsJob, u, a)
            BY <1>7, <1>8, <2>4 DEF At, Holds
        <3> QED BY <1>6, <2>1, <2>2, <3>1 DEF PlaceInv
    <2> QED BY <2>3, <2>4
<1>10. ASSUME NEW k \in Launcher, NEW m \in Launcher, pc'[k] \in HoldsJob, pc'[m] \in HoldsJob,
              Held(k)' = Held(m)', k # m
       PROVE  FALSE
    <2>1. \A i \in Launcher : pc[i] \in HoldsJob => Held(i) # h
        BY <1>3, <1>4 DEF At, Holds, Held
    <2>2. \A i \in Launcher : i # l => Held(i)' = Held(i)
        BY <1>7 DEF Held
    <2>3. CASE UNCHANGED <<pc, job>>
        BY <1>10, <2>3 DEF PlaceInv, Held
    <2>4. CASE pc'[l] \in HoldsJob /\ job'[l].task = h[1] /\ job'[l].attempt = h[2]
        <3>1. Held(l)' = h
            BY <1>3, <2>4 DEF Held
        <3>2. CASE k # l /\ m # l
            BY <1>7, <1>10, <2>2, <3>2 DEF PlaceInv
        <3>3. CASE k = l \/ m = l
            BY <1>7, <1>10, <2>1, <2>2, <3>1, <3>3
        <3> QED BY <3>2, <3>3
    <2> QED BY <1>8, <2>3, <2>4
<1>11. PlaceInv'
    BY <1>2, <1>9, <1>10 DEF PlaceInv
<1> QED BY <1>2, <1>4, <1>5, <1>6, <1>7, <1>11

\* A launcher puts back what it holds.
LEMMA PlaceRequeue ==
    ASSUME TypeInv, PlaceInv, NEW l \in Launcher, EnqueueFull(l)
    PROVE  /\ PlaceInv'
           /\ \A u \in Task, a \in Attempt : Waits(u, a)' => Waits(u, a) \/ At({"full"}, u, a)
<1> DEFINE x == Held(l)
<1>1. /\ queue \in Seq(Assignment) /\ pc \in [Launcher -> LauncherPc] /\ job \in [Launcher -> JobType]
      /\ Distinct(queue) /\ Distinct(assigns)
    BY DEF TypeInv, TypeOK, PlaceInv
<1>2. /\ pc[l] = "full" /\ queue' = Append(queue, x) /\ UNCHANGED <<dispatched, assigns>>
      /\ pc' = [pc EXCEPT ![l] = "idle"] /\ job' = [job EXCEPT ![l] = Idle]
    BY DEF EnqueueFull, Held
<1>3. /\ x \in Assignment /\ x = <<job[l].task, job[l].attempt>> /\ pc[l] \in HoldsJob
      /\ job[l].task \in Task /\ job[l].attempt \in Attempt /\ At(HoldsJob, job[l].task, job[l].attempt)
    BY <1>2, HeldIs DEF HoldsJob
<1>4. ~Waits(job[l].task, job[l].attempt)
    BY <1>3 DEF PlaceInv
<1>5. ~InSeq(x, queue) /\ ~InSeq(x, assigns)
    BY <1>3, <1>4 DEF Waits
<1>6. ~(dispatched[job[l].task] < job[l].attempt)
    BY <1>4 DEF Waits
<1> HIDE DEF x
<1>7. /\ Distinct(queue') /\ \A y : InSeq(y, queue') => InSeq(y, queue) \/ y = x
    <2>1. queue \in Seq(Assignment) /\ Distinct(queue) /\ x \in Assignment /\ ~InSeq(x, queue)
        BY <1>1, <1>3, <1>5
    <2>2. queue' = Append(queue, x)
        BY <1>2
    <2> QED BY ONLY <2>1, <2>2, DistinctAppend
<1>8. \A k \in Launcher : k # l => pc'[k] = pc[k] /\ job'[k] = job[k]
    BY <1>1, <1>2
<1>9. pc'[l] \notin HoldsJob
    BY <1>1, <1>2 DEF HoldsJob
<1>10. ASSUME NEW u \in Task, NEW a \in Attempt
       PROVE  /\ ~(InSeq(<<u, a>>, assigns) /\ InSeq(<<u, a>>, queue))'
              /\ InSeq(<<u, a>>, assigns)' \/ InSeq(<<u, a>>, queue)' => a <= dispatched'[u]
              /\ At(HoldsJob, u, a)' => ~Waits(u, a)'
              /\ Waits(u, a)' => Waits(u, a) \/ At({"full"}, u, a)
    <2>1. InSeq(<<u, a>>, assigns)' <=> InSeq(<<u, a>>, assigns)
        BY <1>2 DEF InSeq
    <2>2. CASE <<u, a>> = x
        <3>1. u = job[l].task /\ a = job[l].attempt
            BY <1>3, <2>2
        <3>2. dispatched[u] \in Nat /\ a \in Nat
            BY DEF TypeInv, TypeOK, Attempt
        <3>3. At({"full"}, u, a)
            BY <1>2, <3>1 DEF At, Holds
        <3>4. ~At(HoldsJob, u, a)'
            BY <1>3, <1>8, <1>9, <3>1 DEF PlaceInv, At, Holds, Held
        <3>5. ~InSeq(<<u, a>>, assigns)'
            BY <1>5, <2>1, <2>2
        <3>6. a <= dispatched'[u]
            BY <1>2, <1>6, <3>1, <3>2
        <3> QED BY <3>3, <3>4, <3>5, <3>6
    <2>3. CASE <<u, a>> # x
        <3>1. InSeq(<<u, a>>, queue)' => InSeq(<<u, a>>, queue)
            BY <1>7, <2>3 DEF InSeq
        <3>2. At(HoldsJob, u, a)' => At(HoldsJob, u, a)
            BY <1>8, <1>9 DEF At, Holds
        <3> QED BY <1>2, <2>1, <3>1, <3>2 DEF PlaceInv, Waits
    <2> QED BY <2>2, <2>3
<1>11. \A k, m \in Launcher : pc'[k] \in HoldsJob /\ pc'[m] \in HoldsJob /\ Held(k)' = Held(m)' => k = m
    BY <1>8, <1>9 DEF PlaceInv, Held
<1>12. Distinct(assigns)' /\ Distinct(queue)'
    BY <1>1, <1>2, <1>7 DEF Distinct
<1> QED BY <1>10, <1>11, <1>12 DEF PlaceInv

\* No step takes an assignment back to before its session, or to before its meta.
Forward == \A t \in Task, a \in Attempt : (Early(t, a)' => Early(t, a)) /\ (Open(t, a)' => Open(t, a))

\* What a launcher moved on with, or let go of, is in no other place.
LEMMA MovedOn ==
    ASSUME TypeInv, PlaceInv, NEW l \in Launcher, pc[l] \in HoldsJob, NEW P \in SUBSET HoldsJob,
           UNCHANGED <<dispatched, assigns, queue>>, pc'[l] \notin P,
           \A k \in Launcher \ {l} : pc'[k] = pc[k] /\ job'[k] = job[k],
           NEW t \in Task, NEW a \in Attempt, Holds(l, t, a)
    PROVE  ~Waits(t, a)' /\ ~At(P, t, a)'
<1>1. At(HoldsJob, t, a)
    BY DEF At
<1>2. ~Waits(t, a)
    BY <1>1 DEF PlaceInv
<1>3. \A k \in Launcher : k # l /\ pc[k] \in HoldsJob => ~Holds(k, t, a)
    BY DEF PlaceInv, Held, Holds
<1>4. ~Waits(t, a)'
    BY <1>2 DEF Waits, InSeq
<1>5. ASSUME NEW k \in Launcher, pc'[k] \in P PROVE ~Holds(k, t, a)'
    BY <1>3, <1>5 DEF Holds
<1> QED BY <1>4, <1>5 DEF At

\* A launcher moves forward with its assignment, or lets go of it.
LEMMA LaunchMoves ==
    ASSUME TypeInv, NEW l \in Launcher, Launch(l), ~EnqueueFull(l)
    PROVE  /\ UNCHANGED <<dispatched, assigns, queue, orch>> /\ pc[l] \in HoldsJob
           /\ \A k \in Launcher \ {l} : pc'[k] = pc[k] /\ job'[k] = job[k]
           /\ \/ pc'[l] \notin HoldsJob
              \/ /\ pc'[l] \in HoldsJob /\ job'[l].task = job[l].task /\ job'[l].attempt = job[l].attempt
                 /\ pc'[l] \in BeforeSession => pc[l] \in BeforeSession
                 /\ pc'[l] \in BeforeMeta => pc[l] \in BeforeMeta
<1>1. pc \in [Launcher -> LauncherPc] /\ job \in [Launcher -> JobType]
    BY DEF TypeInv, TypeOK
<1>2. Relaunch(l) \notin HoldsJob
    BY DEF Relaunch, HoldsJob
<1>3. \A o : /\ Holding(job[l].task, job[l].attempt, o).task = job[l].task
             /\ Holding(job[l].task, job[l].attempt, o).attempt = job[l].attempt
    BY DEF Holding
<1> USE DEF HoldsJob, BeforeSession, BeforeMeta
<1>4. CASE Register(l)
    BY <1>1, <1>3, <1>4 DEF Register, Admit
<1>5. CASE Reconnect(l)
    BY <1>1, <1>3, <1>5 DEF Reconnect, Admit
<1>6. CASE RejectLaunch(l) \/ Connect(l) \/ AbortLaunch(l) \/ SendPrompt(l)
    BY <1>1, <1>2, <1>6 DEF RejectLaunch, Connect, AbortLaunch, SendPrompt
<1>7. CASE StoreMeta(l)
    BY <1>1, <1>7 DEF StoreMeta
<1> QED BY <1>4, <1>5, <1>6, <1>7 DEF Launch

LEMMA LaunchPlaces ==
    ASSUME TypeInv, PlaceInv, NEW l \in Launcher, Launch(l) PROVE PlaceInv' /\ Forward
<1>1. CASE EnqueueFull(l)
    <2>1. /\ PlaceInv' /\ \A u \in Task, a \in Attempt : Waits(u, a)' => Waits(u, a) \/ At({"full"}, u, a)
        BY <1>1, PlaceRequeue
    <2>2. /\ \A k \in Launcher : k # l => pc'[k] = pc[k] /\ job'[k] = job[k]
          /\ pc'[l] = "idle"
        BY <1>1 DEF EnqueueFull, TypeInv, TypeOK
    <2>3. \A P, u, a : "idle" \notin P /\ At(P, u, a)' => At(P, u, a)
        BY <2>2 DEF At, Holds
    <2>4. \A u, a : At({"full"}, u, a) => At(BeforeSession, u, a) /\ At(BeforeMeta, u, a)
        BY DEF At, BeforeSession, BeforeMeta
    <2>5. "idle" \notin BeforeSession /\ "idle" \notin BeforeMeta
        BY DEF BeforeSession, BeforeMeta
    <2> QED BY <2>1, <2>3, <2>4, <2>5 DEF Forward, Early, Open
<1>2. CASE ~EnqueueFull(l)
    <2>1. /\ UNCHANGED <<dispatched, assigns, queue>> /\ pc[l] \in HoldsJob
          /\ \A k \in Launcher \ {l} : pc'[k] = pc[k] /\ job'[k] = job[k]
          /\ \/ pc'[l] \notin HoldsJob
             \/ /\ pc'[l] \in HoldsJob /\ job'[l].task = job[l].task /\ job'[l].attempt = job[l].attempt
                /\ pc'[l] \in BeforeSession => pc[l] \in BeforeSession
                /\ pc'[l] \in BeforeMeta => pc[l] \in BeforeMeta
        BY <1>2, LaunchMoves
    <2>2. PlaceInv'
        BY <2>1, PlaceFrame
    <2>3. BeforeSession \subseteq HoldsJob /\ BeforeMeta \subseteq HoldsJob
        BY DEF BeforeSession, BeforeMeta, HoldsJob
    <2>4. \A u, a : (At(BeforeSession, u, a)' => At(BeforeSession, u, a)) /\ (At(BeforeMeta, u, a)' => At(BeforeMeta, u, a))
        BY <2>1, <2>3 DEF At, Holds
    <2>5. \A u, a : Waits(u, a)' <=> Waits(u, a)
        BY <2>1 DEF Waits, InSeq
    <2> QED BY <2>2, <2>4, <2>5 DEF Forward, Early, Open
<1> QED BY <1>1, <1>2

\* The worker takes a message, or checks the pool; a drain starts, takes the next, or ends.
LEMMA TakePlaces ==
    ASSUME TypeInv, Tidy, PlaceInv,
           HandleAssign \/ AssignCheck \/ \E d \in Drain : DrainStart(d) \/ DrainNext(d)
    PROVE  PlaceInv' /\ Forward
<1>1. pc \in [Launcher -> LauncherPc] /\ job \in [Launcher -> JobType] /\ Worker \in Launcher /\ Drain \subseteq Launcher
    BY DEF TypeInv, TypeOK, Launcher
<1>2. BeforeSession \subseteq HoldsJob /\ BeforeMeta \subseteq HoldsJob /\ BeforeSession \subseteq BeforeMeta
    BY DEF BeforeSession, BeforeMeta, HoldsJob
<1>3. ASSUME NEW l \in Launcher, pc[l] \notin HoldsJob, NEW h, UNCHANGED dispatched,
             \/ assigns # <<>> /\ h = Head(assigns) /\ assigns' = Tail(assigns) /\ queue' = queue
             \/ queue # <<>> /\ h = Head(queue) /\ queue' = Tail(queue) /\ assigns' = assigns,
             \/ UNCHANGED <<pc, job>>
             \/ \E p \in HoldsJob : /\ pc' = [pc EXCEPT ![l] = p]
                                    /\ job' = [job EXCEPT ![l] = Holding(h[1], h[2], 0)]
      PROVE  PlaceInv' /\ Forward
    <2>1. /\ PlaceInv' /\ h \in Assignment /\ Waits(h[1], h[2])
          /\ \A u \in Task, a \in Attempt : Waits(u, a)' => Waits(u, a)
        BY <1>3, PlaceTake
    <2>2. \A k \in Launcher : k # l => pc'[k] = pc[k] /\ job'[k] = job[k]
        BY <1>1, <1>3
    <2>3. \A u, a : Holds(l, u, a)' /\ pc'[l] \in HoldsJob => u = h[1] /\ a = h[2]
        BY <1>1, <1>3 DEF Holds, Holding
    <2>4. ASSUME NEW P \in SUBSET HoldsJob, NEW u \in Task, NEW a \in Attempt, At(P, u, a)'
          PROVE  At(P, u, a) \/ Waits(u, a)
        BY <2>1, <2>2, <2>3, <2>4 DEF At, Holds
    <2> QED BY <1>2, <2>1, <2>4 DEF Forward, Early, Open
<1>4. ASSUME UNCHANGED <<dispatched, assigns, queue, job>>, NEW l \in Launcher, NEW p, pc' = [pc EXCEPT ![l] = p],
             p \in HoldsJob => pc[l] \in BeforeSession
      PROVE  PlaceInv' /\ Forward
    <2>1. \A k \in Launcher : pc'[k] \in HoldsJob => pc[k] \in HoldsJob /\ (pc'[k] = pc[k] \/ pc[k] \in BeforeSession)
        BY <1>1, <1>2, <1>4
    <2>2. PlaceInv'
        BY <1>4, <2>1, PlaceFrame
    <2>3. \A u, a : (At(BeforeSession, u, a)' => At(BeforeSession, u, a)) /\ (At(BeforeMeta, u, a)' => At(BeforeMeta, u, a))
        BY <1>2, <1>4, <2>1 DEF At, Holds
    <2>4. \A u, a : Waits(u, a)' <=> Waits(u, a)
        BY <1>4 DEF Waits, InSeq
    <2> QED BY <2>2, <2>3, <2>4 DEF Forward, Early, Open
<1>5. CASE HandleAssign
    <2>1. "assign" \in HoldsJob /\ pc[Worker] \notin HoldsJob
        BY <1>5 DEF HoldsJob, HandleAssign
    <2> QED BY <1>1, <1>3, <1>5, <2>1 DEF HandleAssign
<1>6. CASE AssignCheck
    <2>1. \E p \in {"full", "register"} : pc' = [pc EXCEPT ![Worker] = p]
        BY <1>6 DEF AssignCheck
    <2>2. pc[Worker] \in BeforeSession
        BY <1>6 DEF AssignCheck, BeforeSession
    <2> QED BY <1>1, <1>4, <1>6, <2>1, <2>2 DEF AssignCheck
<1>7. ASSUME NEW d \in Drain, DrainStart(d) \/ DrainNext(d) PROVE PlaceInv' /\ Forward
    <2>1. "register" \in HoldsJob /\ pc[d] \notin HoldsJob /\ "idle" \notin HoldsJob /\ "check" \notin HoldsJob
        BY <1>7 DEF HoldsJob, DrainStart, DrainNext
    <2>2. CASE /\ UNCHANGED <<dispatched, assigns, queue, job>> /\ \E p \in {"idle", "check"} : pc' = [pc EXCEPT ![d] = p]
        BY <1>1, <1>4, <2>1, <2>2
    <2>3. CASE /\ queue # <<>> /\ queue' = Tail(queue) /\ UNCHANGED <<dispatched, assigns>>
               /\ pc' = [pc EXCEPT ![d] = "register"]
               /\ job' = [job EXCEPT ![d] = Holding(Head(queue)[1], Head(queue)[2], 0)]
        BY <1>1, <1>3, <2>1, <2>3
    <2> QED BY <1>7, <2>2, <2>3 DEF DrainStart, DrainNext
<1> QED BY <1>5, <1>6, <1>7

\* Whatever is done, an assignment stays in one place, and moves forward.
LEMMA PlaceStep ==
    ASSUME TypeInv, Tidy, PlaceInv, [Next]_vars PROVE PlaceInv' /\ Forward
<1>1. ASSUME NEW t \in Task, Dispatch(t) PROVE PlaceInv' /\ Forward
    <2>1. PlaceInv' /\ \A u \in Task, a \in Attempt : Waits(u, a)' => Waits(u, a)
        BY <1>1, PlaceDispatch
    <2>2. \A P, u, a : At(P, u, a)' <=> At(P, u, a)
        BY <1>1 DEF Dispatch, At, Holds
    <2> QED BY <2>1, <2>2 DEF Forward, Early, Open
<1>2. ASSUME NEW l \in Launcher, Launch(l) PROVE PlaceInv' /\ Forward
    BY <1>2, LaunchPlaces
<1>3. CASE HandleAssign \/ AssignCheck \/ \E d \in Drain : DrainStart(d) \/ DrainNext(d)
    BY <1>3, TakePlaces
<1>4. CASE UNCHANGED <<dispatched, assigns, queue, pc, job>>
    <2>1. PlaceInv'
        BY <1>4, PlaceFrame
    <2>2. \A u, a : Waits(u, a)' <=> Waits(u, a)
        BY <1>4 DEF Waits, InSeq
    <2>3. \A P, u, a : At(P, u, a)' <=> At(P, u, a)
        BY <1>4 DEF At, Holds
    <2> QED BY <2>1, <2>2, <2>3 DEF Forward, Early, Open
<1>5. \/ \E t \in Task : Dispatch(t)
      \/ \E l \in Launcher : Launch(l)
      \/ HandleAssign \/ AssignCheck \/ \E d \in Drain : DrainStart(d) \/ DrainNext(d)
      \/ UNCHANGED <<dispatched, assigns, queue, pc, job>>
    BY DEF Next, WorkerStep, DrainStep, ExitStep, vars, EndTurn, Crash, EmitDeath, RunStop, StopDead, ReadMeta,
           ReportExit, Launcher
<1> QED BY <1>1, <1>2, <1>3, <1>4, <1>5

-----------------------------------------------------------------------------
(* Engines and exits.                                                       *)

\* No step forgets that an engine was started, or that it was connected.
EngineOn == \A o \in Assignment : /\ eng[o] # "none" => eng'[o] # "none"
                                  /\ eng[o] \notin {"none", "connecting"} => eng'[o] \notin {"none", "connecting"}

\* It starts or connects none.
EngineSame == \A o \in Assignment :
    eng'[o] = eng[o] \/ (eng[o] \notin {"none", "connecting"} /\ eng'[o] \notin {"none", "connecting"})

\* A step that starts or connects no engine, and gives no launcher a session.
LEMMA EngineKeeps ==
    ASSUME TypeInv, TypeInv', EngineInv, Forward,
           EngineSame,
           \A t \in Task : sess'[t] # 0 => sess'[t] = sess[t],
           \A l \in Launcher : pc'[l] = "connecting" => pc[l] = "connecting" /\ job'[l] = job[l],
           \A l \in Launcher : pc'[l] \in {"started", "send", "abort"} =>
               Began(job'[l].task, job'[l].obj) \/ (pc[l] \in {"started", "send", "abort"} /\ job'[l] = job[l]),
           \A s \in stops' : s \in stops \/ Began(s.task, s.by),
           \A o \in deaths' : o \in deaths \/ Began(o[1], o[2])
    PROVE  EngineInv' /\ EngineOn
<1> USE DEF EngineSame
<1>1. EngineOn
    BY DEF EngineOn
<1>2. ASSUME NEW t, NEW a, <<t, a>> \in Assignment, Began(t, a) PROVE Began(t, a)'
    BY <1>2 DEF Began
<1>3. /\ \A s \in stops' : <<s.task, s.by>> \in Assignment
      /\ \A o \in deaths' : <<o[1], o[2]>> \in Assignment
      /\ \A t \in Task : sess'[t] # 0 => <<t, sess'[t]>> \in Assignment
    BY DEF TypeInv, TypeOK, Assignment, Attempt
<1>4. \A l \in Launcher : pc'[l] \in HoldsObject => <<job'[l].task, job'[l].obj>> \in Assignment /\ Held(l)' \in Assignment
    BY DEF TypeInv, JobOK, HoldsJob, HoldsObject, Held, Assignment
<1>5. \A t \in Task, a \in Attempt : <<t, a>> \in Assignment
    BY DEF Assignment
<1>6. \A t \in Task, a \in Attempt : Early(t, a)' => eng'[<<t, a>>] = "none"
    BY <1>5 DEF EngineInv, Forward
<1>7. \A t \in Task : sess'[t] # 0 => eng'[<<t, sess'[t]>>] # "none"
    BY <1>3 DEF EngineInv
<1>8. \A l \in Launcher : pc'[l] = "connecting" => job'[l].obj = job'[l].attempt /\ eng'[Held(l)'] = "connecting"
    BY <1>4 DEF EngineInv, Held, HoldsObject
<1>9. ASSUME NEW l \in Launcher, pc'[l] \in {"started", "send", "abort"} PROVE Began(job[l].task, job[l].obj)'
    <2>1. <<job'[l].task, job'[l].obj>> \in Assignment
        BY <1>4, <1>9 DEF HoldsObject
    <2>2. Began(job'[l].task, job'[l].obj)
        BY <1>9 DEF EngineInv
    <2> QED BY <2>1, <2>2 DEF Began
<1>10. \A s \in stops' : Began(s.task, s.by)'
    BY <1>2, <1>3 DEF EngineInv
<1>11. \A o \in deaths' : Began(o[1], o[2])'
    BY <1>2, <1>3 DEF EngineInv
<1> QED BY <1>1, <1>6, <1>7, <1>8, <1>9, <1>10, <1>11 DEF EngineInv

\* A session is registered, and its engine starts to connect.
LEMMA AdmitEngine ==
    ASSUME TypeInv, TypeInv', PlaceInv, EngineInv, Forward,
           NEW l \in Launcher, NEW t \in Task, NEW a \in Attempt, Holds(l, t, a), pc[l] \in BeforeSession,
           pc' = [pc EXCEPT ![l] = "connecting"], job' = [job EXCEPT ![l] = Holding(t, a, a)],
           sess' = [sess EXCEPT ![t] = a], eng'[<<t, a>>] = "connecting",
           \A o \in Assignment \ {<<t, a>>} :
               eng'[o] = eng[o] \/ (eng[o] \notin {"none", "connecting"} /\ eng'[o] \notin {"none", "connecting"}),
           UNCHANGED <<dispatched, assigns, queue, stops, deaths>>
    PROVE  EngineInv' /\ EngineOn
<1>1. /\ pc \in [Launcher -> LauncherPc] /\ job \in [Launcher -> JobType] /\ sess \in [Task -> 0..MaxAttempt]
      /\ pc[l] \in HoldsJob /\ BeforeSession \subseteq HoldsJob /\ "connecting" \notin BeforeSession
    BY DEF TypeInv, TypeOK, BeforeSession, HoldsJob
<1>2. /\ \A k \in Launcher \ {l} : pc'[k] = pc[k] /\ job'[k] = job[k] /\ Held(k)' = Held(k)
      /\ pc'[l] = "connecting" /\ job'[l] = Holding(t, a, a) /\ Held(l)' = <<t, a>>
    BY <1>1 DEF Held, Holding
<1>3. eng[<<t, a>>] = "none" /\ <<t, a>> \in Assignment
    BY DEF EngineInv, Early, At, Assignment
<1>4. ~Early(t, a)'
    <2>1. \A k \in Launcher \ {l} : pc'[k] = pc[k] /\ job'[k] = job[k]
        BY <1>2
    <2> QED BY <1>1, <1>2, <2>1, MovedOn DEF Early
<1>5. EngineOn
    BY <1>3 DEF EngineOn
<1>6. /\ \A s \in stops' : <<s.task, s.by>> \in Assignment /\ s \in stops
      /\ \A o \in deaths' : <<o[1], o[2]>> \in Assignment /\ o \in deaths
      /\ \A u \in Task : sess'[u] # 0 => <<u, sess'[u]>> \in Assignment
      /\ \A u \in Task, b \in Attempt : <<u, b>> \in Assignment
    BY DEF TypeInv, TypeOK, Assignment, Attempt
<1>7. ASSUME NEW u, NEW b, <<u, b>> \in Assignment, Began(u, b) PROVE Began(u, b)'
    BY <1>5, <1>7 DEF Began, EngineOn
<1>8. ASSUME NEW u \in Task, NEW b \in Attempt, Early(u, b)' PROVE eng'[<<u, b>>] = "none"
    <2>1. <<u, b>> # <<t, a>>
        BY <1>4, <1>8
    <2> QED BY <1>6, <1>8, <2>1 DEF EngineInv, Forward
<1>9. ASSUME NEW u \in Task, sess'[u] # 0 PROVE eng'[<<u, sess'[u]>>] # "none"
    <2>1. CASE u = t
        BY <1>1, <2>1
    <2>2. CASE u # t
        BY <1>1, <1>5, <1>6, <1>9, <2>2 DEF EngineInv, EngineOn
    <2> QED BY <2>1, <2>2
<1>10. ASSUME NEW k \in Launcher, pc'[k] = "connecting"
       PROVE  job'[k].obj = job'[k].attempt /\ eng'[Held(k)'] = "connecting"
    <2>1. CASE k = l
        BY <1>2, <2>1 DEF Holding
    <2>2. CASE k # l
        <3>1. pc[k] \in HoldsJob /\ Held(k) # <<t, a>>
            BY <1>1, <1>2, <1>10, <2>2 DEF PlaceInv, HoldsJob, Held, Holds
        <3>2. Held(k) \in Assignment
            BY <3>1, HeldIs
        <3> QED BY <1>2, <1>10, <2>2, <3>1, <3>2 DEF EngineInv
    <2> QED BY <2>1, <2>2
<1>11. ASSUME NEW k \in Launcher, pc'[k] \in {"started", "send", "abort"} PROVE Began(job[k].task, job[k].obj)'
    <2>1. k # l
        BY <1>2, <1>11
    <2>2. Began(job[k].task, job[k].obj) /\ <<job[k].task, job[k].obj>> \in Assignment
        BY <1>2, <1>11, <2>1 DEF EngineInv, TypeInv, JobOK, HoldsJob, HoldsObject, Assignment
    <2>3. job'[k] = job[k]
        BY <1>2, <2>1
    <2>4. eng'[<<job[k].task, job[k].obj>>] \notin {"none", "connecting"}
        BY <1>5, <2>2 DEF Began, EngineOn
    <2> QED BY <2>3, <2>4 DEF Began
<1>12. \A s \in stops' : Began(s.task, s.by)'
    BY <1>6, <1>7 DEF EngineInv
<1>13. \A o \in deaths' : Began(o[1], o[2])'
    BY <1>6, <1>7 DEF EngineInv
<1> QED BY <1>5, <1>8, <1>9, <1>10, <1>11, <1>12, <1>13 DEF EngineInv

\* The engine of a launcher connects, or fails to.
LEMMA ConnectEngine ==
    ASSUME TypeInv, TypeInv', PlaceInv, EngineInv, Forward, NEW l \in Launcher, Connect(l)
    PROVE  EngineInv' /\ EngineOn /\ eng[Held(l)] = "connecting"
<1> DEFINE t == job[l].task
           a == job[l].attempt
<1>1. /\ pc \in [Launcher -> LauncherPc] /\ job \in [Launcher -> JobType] /\ sess \in [Task -> 0..MaxAttempt]
      /\ eng \in [Assignment -> EngineState] /\ pc[l] = "connecting" /\ pc[l] \in HoldsJob
    BY DEF TypeInv, TypeOK, Connect, HoldsJob
<1>2. <<t, a>> \in Assignment /\ Held(l) = <<t, a>> /\ eng[<<t, a>>] = "connecting" /\ job[l].obj = a
    BY <1>1, HeldIs DEF EngineInv, Held
<1>3. /\ eng'[<<t, a>>] \in {"up", "failed"} /\ \A o \in Assignment \ {<<t, a>>} : eng'[o] = eng[o]
      /\ \A u \in Task : sess'[u] \in {0, sess[u]}
      /\ pc'[l] # "connecting" /\ pc'[l] \in {"started", "idle", "check"} /\ (pc'[l] = "started" => job'[l] = job[l])
      /\ \A k \in Launcher \ {l} : pc'[k] = pc[k] /\ job'[k] = job[k]
      /\ UNCHANGED <<stops, deaths>>
    BY <1>1, <1>2 DEF Connect, Relaunch
<1> HIDE DEF t, a
<1>5. EngineOn
    BY <1>2, <1>3 DEF EngineOn
<1>4. stops' = stops /\ deaths' = deaths
    BY <1>3
<1>6. /\ \A s \in stops' : <<s.task, s.by>> \in Assignment /\ s \in stops
      /\ \A o \in deaths' : <<o[1], o[2]>> \in Assignment /\ o \in deaths
      /\ \A u \in Task : sess'[u] # 0 => <<u, sess'[u]>> \in Assignment
      /\ \A u \in Task, b \in Attempt : <<u, b>> \in Assignment
    BY <1>4 DEF TypeInv, TypeOK, Assignment, Attempt
<1>7. ASSUME NEW u, NEW b, <<u, b>> \in Assignment, Began(u, b) PROVE Began(u, b)'
    BY <1>5, <1>7 DEF Began, EngineOn
<1>8. ASSUME NEW u \in Task, NEW b \in Attempt, Early(u, b)' PROVE eng'[<<u, b>>] = "none"
    <2>1. eng[<<u, b>>] = "none"
        BY <1>8 DEF EngineInv, Forward
    <2> QED BY <1>2, <1>3, <1>6, <2>1
<1>9. ASSUME NEW u \in Task, sess'[u] # 0 PROVE eng'[<<u, sess'[u]>>] # "none"
    BY <1>3, <1>5, <1>6, <1>9 DEF EngineInv, EngineOn
<1>10. ASSUME NEW k \in Launcher, pc'[k] = "connecting"
       PROVE  job'[k].obj = job'[k].attempt /\ eng'[Held(k)'] = "connecting"
    <2>1. k # l
        BY <1>3, <1>10
    <2>2. pc[k] = "connecting" /\ pc[k] \in HoldsJob /\ Held(k)' = Held(k) /\ job'[k] = job[k]
        BY <1>3, <1>10, <2>1 DEF HoldsJob, Held
    <2>3. Held(k) # <<t, a>>
        BY <1>1, <1>2, <2>1, <2>2 DEF PlaceInv
    <2>4. Held(k) \in Assignment
        BY <2>2, HeldIs
    <2> QED BY <1>3, <2>2, <2>3, <2>4 DEF EngineInv
<1>11. ASSUME NEW k \in Launcher, pc'[k] \in {"started", "send", "abort"} PROVE Began(job[k].task, job[k].obj)'
    <2>1. job'[k] = job[k]
        BY <1>3, <1>11
    <2>2. CASE k = l
        <3>1. <<job[k].task, job[k].obj>> = <<t, a>>
            BY <1>2, <2>2 DEF t
        <3> QED BY <1>3, <2>1, <3>1 DEF Began
    <2>3. CASE k # l
        <3>1. Began(job[k].task, job[k].obj) /\ <<job[k].task, job[k].obj>> \in Assignment
            BY <1>3, <1>11, <2>3 DEF EngineInv, TypeInv, JobOK, HoldsJob, HoldsObject, Assignment
        <3>2. eng'[<<job[k].task, job[k].obj>>] \notin {"none", "connecting"}
            BY <1>5, <3>1 DEF Began, EngineOn
        <3> QED BY <2>1, <3>2 DEF Began
    <2> QED BY <2>2, <2>3
<1>12. \A s \in stops' : Began(s.task, s.by)'
    BY <1>6, <1>7 DEF EngineInv
<1>13. \A o \in deaths' : Began(o[1], o[2])'
    BY <1>6, <1>7 DEF EngineInv
<1> QED BY <1>2, <1>5, <1>8, <1>9, <1>10, <1>11, <1>12, <1>13 DEF EngineInv

\* What a stop does to the session of its task, and to no other.
LEMMA StopShape ==
    ASSUME TypeInv, NEW t \in Task, NEW by \in Attempt, NEW code, StopWithExitCode(t, by, code)
    PROVE  /\ EngineSame /\ \A u \in Task : sess'[u] = IF u = t THEN 0 ELSE sess[u]
           /\ \/ sess[t] = 0 /\ exits' = exits
              \/ /\ sess[t] # 0 /\ <<t, sess[t]>> \in Assignment
                 /\ exits' = exits \cup {[task |-> t, started |-> sess[t], by |-> by, code |-> code, seen |-> 0]}
<1>1. sess \in [Task -> 0..MaxAttempt] /\ eng \in [Assignment -> EngineState]
    BY DEF TypeInv, TypeOK
<1>2. CASE sess[t] = 0
    BY <1>1, <1>2 DEF StopWithExitCode, EngineSame
<1>3. CASE sess[t] # 0
    <2>1. <<t, sess[t]>> \in Assignment
        BY <1>1, <1>3 DEF Assignment, Attempt
    <2>2. /\ eng' = [eng EXCEPT ![<<t, sess[t]>>] = Disconnected(@)] /\ sess' = [sess EXCEPT ![t] = 0]
          /\ exits' = exits \cup {[task |-> t, started |-> sess[t], by |-> by, code |-> code, seen |-> 0]}
        BY <1>3 DEF StopWithExitCode
    <2>3. EngineSame
        BY <1>1, <2>1, <2>2 DEF EngineSame, Disconnected
    <2> QED BY <1>1, <1>3, <2>1, <2>2, <2>3
<1> QED BY <1>2, <1>3

\* Taking an assignment, putting it back, reporting: no engine is touched.
LEMMA QuietEngine ==
    ASSUME TypeInv, TypeInv', EngineInv, Forward,
           \/ \E t \in Task : Dispatch(t)
           \/ HandleAssign \/ AssignCheck
           \/ \E d \in Drain : DrainStart(d) \/ DrainNext(d)
           \/ \E l \in Launcher : EnqueueFull(l) \/ RejectLaunch(l) \/ StoreMeta(l)
           \/ \E e \in exits : ExitStep(e)
           \/ UNCHANGED vars
    PROVE  EngineInv' /\ EngineOn
<1>1. pc \in [Launcher -> LauncherPc] /\ job \in [Launcher -> JobType] /\ Worker \in Launcher /\ Drain \subseteq Launcher
    BY DEF TypeInv, TypeOK, Launcher
<1>2. UNCHANGED <<eng, sess, stops, deaths>>
    BY DEF Dispatch, HandleAssign, AssignCheck, DrainStart, DrainNext, EnqueueFull, RejectLaunch, StoreMeta,
           ExitStep, ReadMeta, ReportExit, vars
<1>3. \A l \in Launcher : /\ pc'[l] = "connecting" => pc[l] = "connecting" /\ job'[l] = job[l]
                          /\ pc'[l] \in {"started", "send", "abort"} => pc[l] \in {"started", "send", "abort"} /\ job'[l] = job[l]
  <2> DEFINE Keeps(l) ==
               /\ pc'[l] = "connecting" => pc[l] = "connecting" /\ job'[l] = job[l]
               /\ pc'[l] \in {"started", "send", "abort"} => pc[l] \in {"started", "send", "abort"} /\ job'[l] = job[l]
  <2>1. ASSUME UNCHANGED <<pc, job>> PROVE \A l \in Launcher : Keeps(l)
    BY <2>1
  <2>2. ASSUME HandleAssign \/ AssignCheck PROVE \A l \in Launcher : Keeps(l)
    BY <1>1, <2>2 DEF HandleAssign, AssignCheck
  <2>3. ASSUME NEW d \in Drain, DrainStart(d) \/ DrainNext(d) PROVE \A l \in Launcher : Keeps(l)
    BY <1>1, <2>3 DEF DrainStart, DrainNext
  <2>4. ASSUME NEW k \in Launcher, EnqueueFull(k) \/ RejectLaunch(k) \/ StoreMeta(k) PROVE \A l \in Launcher : Keeps(l)
    BY <1>1, <2>4 DEF EnqueueFull, RejectLaunch, StoreMeta, Relaunch
  <2>5. ASSUME \/ \E t \in Task : Dispatch(t)
               \/ \E e \in exits : ExitStep(e)
               \/ UNCHANGED vars
        PROVE  UNCHANGED <<pc, job>>
    BY <2>5 DEF Dispatch, ExitStep, ReadMeta, ReportExit, vars
  <2> HIDE DEF Keeps
  <2>6. \A l \in Launcher : Keeps(l)
    BY <2>1, <2>2, <2>3, <2>4, <2>5
  <2> QED BY <2>6 DEF Keeps
<1>4. EngineSame
    BY <1>2 DEF EngineSame
<1> QED BY <1>2, <1>3, <1>4, EngineKeeps

\* An engine ends its turn or dies, its session is stopped.
LEMMA CloseEngine ==
    ASSUME TypeInv, TypeInv', EngineInv, Forward,
           \/ \E t \in Task, a \in Attempt : EndTurn(t, a) \/ Crash(t, a) \/ EmitDeath(t, a)
           \/ \E s \in stops : RunStop(s)
           \/ StopDead
    PROVE  EngineInv' /\ EngineOn
<1>1. /\ UNCHANGED <<pc, job>> /\ sess \in [Task -> 0..MaxAttempt] /\ eng \in [Assignment -> EngineState]
    BY DEF TypeInv, TypeOK, EndTurn, Crash, EmitDeath, RunStop, StopDead
<1>2. \A l \in Launcher : /\ pc'[l] = "connecting" => pc[l] = "connecting" /\ job'[l] = job[l]
                          /\ pc'[l] \in {"started", "send", "abort"} => pc[l] \in {"started", "send", "abort"} /\ job'[l] = job[l]
    BY <1>1
<1>3. ASSUME EngineSame, \A t \in Task : sess'[t] # 0 => sess'[t] = sess[t],
             \A s \in stops' : s \in stops \/ Began(s.task, s.by),
             \A o \in deaths' : o \in deaths \/ Began(o[1], o[2])
      PROVE  EngineInv' /\ EngineOn
    BY <1>2, <1>3, EngineKeeps
<1>4. ASSUME NEW t \in Task, NEW a \in Attempt, EndTurn(t, a) \/ Crash(t, a) \/ EmitDeath(t, a)
      PROVE  EngineInv' /\ EngineOn
    <2>1. <<t, a>> \in Assignment
        BY DEF Assignment
    <2>2. EngineSame /\ sess' = sess
        BY <1>1, <1>4, <2>1 DEF EndTurn, Crash, EmitDeath, Up, EngineSame
    <2>3. Began(t, a)
        BY <1>4 DEF EndTurn, Crash, EmitDeath, Up, Began, EngineInv
    <2>4. /\ \A s \in stops' : s \in stops \/ (s.task = t /\ s.by = a)
          /\ \A o \in deaths' : o \in deaths \/ o = <<t, a>>
        BY <1>4 DEF EndTurn, Crash, EmitDeath, Terminal
    <2> QED BY <1>3, <2>2, <2>3, <2>4
<1>5. ASSUME NEW s \in stops, RunStop(s) PROVE EngineInv' /\ EngineOn
    <2>1. s.task \in Task /\ s.by \in Attempt
        BY DEF TypeInv, TypeOK
    <2>2. StopWithExitCode(s.task, s.by, s.code) /\ stops' \subseteq stops /\ deaths' = deaths
        BY <1>5 DEF RunStop
    <2>3. EngineSame /\ \A u \in Task : sess'[u] # 0 => sess'[u] = sess[u]
        BY <2>1, <2>2, StopShape
    <2> QED BY <1>3, <2>2, <2>3
<1>6. CASE StopDead
    <2>1. UNCHANGED <<stops, deaths>> /\ \A u \in Task : sess'[u] # 0 => sess'[u] = sess[u]
        BY <1>6 DEF StopDead
    <2>2. EngineSame
        BY <1>6 DEF StopDead, EngineSame
    <2> QED BY <1>3, <2>1, <2>2
<1> QED BY <1>4, <1>5, <1>6

\* A launcher resumes or registers a session, sends the prompt or stops it.
LEMMA LaunchEngine ==
    ASSUME TypeInv, TypeInv', PlaceInv, EngineInv, Forward, NEW l \in Launcher, 
           Register(l) \/ Reconnect(l) \/ SendPrompt(l) \/ AbortLaunch(l)
    PROVE  EngineInv' /\ EngineOn
<1> DEFINE t == job[l].task
           a == job[l].attempt
           o == job[l].obj
           Free == ~(Cardinality(ActiveSessions \ {t}) >= MaxConcurrent)
<1>1. /\ pc \in [Launcher -> LauncherPc] /\ job \in [Launcher -> JobType] /\ sess \in [Task -> 0..MaxAttempt]
      /\ eng \in [Assignment -> EngineState]
    BY DEF TypeInv, TypeOK
<1>2. pc[l] \in HoldsJob /\ t \in Task /\ a \in Attempt /\ Holds(l, t, a) /\ <<t, a>> \in Assignment
    BY HeldIs DEF Register, Reconnect, SendPrompt, AbortLaunch, HoldsJob, Holds, Held
<1>3. UNCHANGED <<dispatched, assigns, queue, stops, deaths>>
    BY DEF Register, Reconnect, SendPrompt, AbortLaunch
<1>4. ASSUME EngineSame, \A u \in Task : sess'[u] # 0 => sess'[u] = sess[u],
             \A k \in Launcher \ {l} : pc'[k] = pc[k] /\ job'[k] = job[k],
             pc'[l] # "connecting",
             pc'[l] \in {"started", "send", "abort"} =>
                 Began(job'[l].task, job'[l].obj) \/ (pc[l] \in {"started", "send", "abort"} /\ job'[l] = job[l])
      PROVE  EngineInv' /\ EngineOn
    <2>1. /\ \A k \in Launcher : pc'[k] = "connecting" => pc[k] = "connecting" /\ job'[k] = job[k]
          /\ \A k \in Launcher : pc'[k] \in {"started", "send", "abort"} =>
               Began(job'[k].task, job'[k].obj) \/ (pc[k] \in {"started", "send", "abort"} /\ job'[k] = job[k])
        BY <1>4
    <2> QED BY <1>3, <1>4, <2>1, EngineKeeps
<1>5. ASSUME NEW e, e = eng \/ e = [eng EXCEPT ![<<t, o>>] = Disconnected(@)],
             Admit(l, t, a), eng' = Registering(e, t, a), pc[l] \in BeforeSession
      PROVE  EngineInv' /\ EngineOn
    <2>1. \A x \in Assignment : e[x] = eng[x] \/ (eng[x] \notin {"none", "connecting"} /\ e[x] \notin {"none", "connecting"})
        BY <1>1, <1>5 DEF Disconnected
    <2>2. CASE ~Free
        <3>1. /\ sess' = [sess EXCEPT ![t] = 0] /\ pc' = [pc EXCEPT ![l] = "full"] /\ job' = job /\ eng' = e
            BY <1>5, <2>2 DEF Admit, Registering
        <3>2. EngineSame
            BY <2>1, <3>1 DEF EngineSame
        <3> QED BY <1>1, <1>4, <3>1, <3>2
    <2>3. CASE Free
        <3>1. /\ sess' = [sess EXCEPT ![t] = a] /\ pc' = [pc EXCEPT ![l] = "connecting"]
              /\ job' = [job EXCEPT ![l] = Holding(t, a, a)] /\ eng' = [e EXCEPT ![<<t, a>>] = "connecting"]
            BY <1>5, <2>3 DEF Admit, Registering
        <3>2. DOMAIN e = Assignment
            BY <1>1, <1>5
        <3>3. /\ eng'[<<t, a>>] = "connecting"
              /\ \A x \in Assignment \ {<<t, a>>} :
                    eng'[x] = eng[x] \/ (eng[x] \notin {"none", "connecting"} /\ eng'[x] \notin {"none", "connecting"})
            BY <1>2, <2>1, <3>1, <3>2
        <3> HIDE DEF t, a, Free
        <3> QED BY <1>2, <1>3, <1>5, <3>1, <3>3, AdmitEngine
    <2> QED BY <2>2, <2>3
<1>6. CASE Register(l)
    <2>1. CASE /\ sess[t] # 0 /\ Up(t, sess[t]) /\ pc' = [pc EXCEPT ![l] = "started"]
               /\ job' = [job EXCEPT ![l] = Holding(t, a, sess[t])] /\ UNCHANGED <<sess, eng>>
        <3>1. Began(job'[l].task, job'[l].obj)
            BY <1>1, <2>1 DEF Began, Up, Holding
        <3>2. EngineSame
            BY <2>1 DEF EngineSame
        <3> QED BY <1>1, <1>4, <2>1, <3>1, <3>2
    <2>2. CASE /\ pc' = [pc EXCEPT ![l] = "reconnect"] /\ UNCHANGED <<sess, eng>>
               /\ job' = [job EXCEPT ![l] = Holding(t, a, sess[t])]
        <3>1. EngineSame
            BY <2>2 DEF EngineSame
        <3> QED BY <1>1, <1>4, <2>2, <3>1
    <2>3. CASE Admit(l, t, a) /\ eng' = Registering(eng, t, a)
        <3>1. pc[l] \in BeforeSession
            BY <1>6 DEF Register, BeforeSession
        <3> QED BY <1>5, <2>3, <3>1
    <2> QED BY <1>6, <2>1, <2>2, <2>3 DEF Register
<1>7. CASE Reconnect(l)
    <2>1. CASE /\ eng[<<t, o>>] \in {"up", "working", "dead", "closed"}
               /\ eng' = [eng EXCEPT ![<<t, o>>] = IF @ \in {"dead", "closed"} THEN "up" ELSE @]
               /\ pc' = [pc EXCEPT ![l] = "started"] /\ UNCHANGED <<sess, job>>
        <3>1. Began(job'[l].task, job'[l].obj)
            BY <1>1, <2>1 DEF Began
        <3>2. EngineSame
            BY <1>1, <2>1 DEF EngineSame
        <3> QED BY <1>1, <1>4, <2>1, <3>1, <3>2
    <2>2. CASE Admit(l, t, a) /\ eng' = Registering([eng EXCEPT ![<<t, o>>] = Disconnected(@)], t, a)
        <3>1. pc[l] \in BeforeSession
            BY <1>7 DEF Reconnect, BeforeSession
        <3> QED BY <1>5, <2>2, <3>1
    <2> QED BY <1>7, <2>1, <2>2 DEF Reconnect
<1>8. CASE SendPrompt(l)
    <2>1. /\ sess' = sess /\ pc[l] = "send" /\ pc'[l] \in {"abort", "idle", "check"}
          /\ pc'[l] = "abort" => job'[l] = job[l]
          /\ \A k \in Launcher \ {l} : pc'[k] = pc[k] /\ job'[k] = job[k]
        BY <1>1, <1>8 DEF SendPrompt, Relaunch
    <2>2. EngineSame
        BY <1>1, <1>8 DEF SendPrompt, EngineSame, Up
    <2> QED BY <1>4, <2>1, <2>2
<1>9. CASE AbortLaunch(l)
    <2>1. /\ StopWithExitCode(t, o, 1) /\ pc'[l] \in {"idle", "check"}
          /\ \A k \in Launcher \ {l} : pc'[k] = pc[k] /\ job'[k] = job[k]
        BY <1>1, <1>9 DEF AbortLaunch, Relaunch
    <2>2. o \in Attempt
        BY <1>9 DEF TypeInv, JobOK, HoldsObject, AbortLaunch
    <2>3. EngineSame /\ \A u \in Task : sess'[u] # 0 => sess'[u] = sess[u]
        BY <1>2, <2>1, <2>2, StopShape
    <2> QED BY <1>4, <2>1, <2>3
<1> QED BY <1>6, <1>7, <1>8, <1>9

LEMMA EngineStep ==
    ASSUME TypeInv, TypeInv', PlaceInv, EngineInv, Forward, [Next]_vars PROVE EngineInv' /\ EngineOn
<1>1. ASSUME NEW l \in Launcher, Launch(l) PROVE EngineInv' /\ EngineOn
    BY <1>1, QuietEngine, LaunchEngine, ConnectEngine DEF Launch
<1>2. \/ \E l \in Launcher : Launch(l)
      \/ \E t \in Task, a \in Attempt : EndTurn(t, a) \/ Crash(t, a) \/ EmitDeath(t, a)
      \/ \E s \in stops : RunStop(s)
      \/ StopDead
      \/ \E t \in Task : Dispatch(t)
      \/ HandleAssign \/ AssignCheck
      \/ \E d \in Drain : DrainStart(d) \/ DrainNext(d)
      \/ \E e \in exits : ExitStep(e)
      \/ UNCHANGED vars
    BY DEF Next, WorkerStep, DrainStep, Launcher
<1> QED BY <1>1, <1>2, QuietEngine, CloseEngine

\* Which session a step registers: one whose engine did not exist.
SessionNew == \A t \in Task : sess'[t] # 0 /\ sess'[t] # sess[t] => eng[<<t, sess'[t]>>] = "none"

\* Exits that were there before, changed only in what they read.
LEMMA ExitKeeps ==
    ASSUME TypeInv, TypeInv', EngineInv, ExitInv, EngineOn, SessionNew,
           \/ exits' \subseteq exits
           \/ \E e \in exits : \E m : exits' = (exits \ {e}) \cup {[e EXCEPT !.seen = m]}
           \/ \E t \in Task, by \in Attempt : \E code :
                 /\ sess[t] # 0 /\ sess'[t] = 0 /\ Began(t, by)
                 /\ exits' = exits \cup {[task |-> t, started |-> sess[t], by |-> by, code |-> code, seen |-> 0]}
    PROVE  ExitInv'
<1>1. exits \subseteq ExitType /\ exits' \subseteq ExitType
    BY DEF TypeInv, TypeOK
<1>2. \A e \in ExitType : <<e.task, e.by>> \in Assignment /\ <<e.task, e.started>> \in Assignment
                          /\ e.task \in Task /\ e.started # 0
    BY DEF ExitType, Assignment, Attempt
<1>3. ASSUME NEW t \in Task, NEW s \in Attempt, NEW b \in Attempt,
             Began(t, b), eng[<<t, s>>] # "none", sess[t] # s \/ sess'[t] = 0
      PROVE  /\ Began(t, b)' /\ eng'[<<t, s>>] # "none" /\ sess'[t] # s
    <2>1. <<t, s>> \in Assignment /\ <<t, b>> \in Assignment /\ s # 0
        BY DEF Assignment, Attempt
    <2>2. eng'[<<t, b>>] \notin {"none", "connecting"} /\ eng'[<<t, s>>] # "none"
        BY <1>3, <2>1 DEF EngineOn, Began
    <2>3. sess'[t] # s
        BY <1>3, <2>1 DEF SessionNew
    <2> QED BY <2>2, <2>3 DEF Began
<1>4. ASSUME NEW f \in exits',
             \/ \E e \in exits : f.task = e.task /\ f.started = e.started /\ f.by = e.by
             \/ f.started = sess[f.task] /\ sess[f.task] # 0 /\ sess'[f.task] = 0 /\ Began(f.task, f.by)
      PROVE  Began(f.task, f.by)' /\ eng'[<<f.task, f.started>>] # "none" /\ sess'[f.task] # f.started
    <2>1. f.task \in Task /\ f.started \in Attempt /\ f.by \in Attempt
        BY <1>1 DEF ExitType
    <2>2. Began(f.task, f.by) /\ eng[<<f.task, f.started>>] # "none"
          /\ (sess[f.task] # f.started \/ sess'[f.task] = 0)
        BY <1>4, <2>1 DEF ExitInv, EngineInv
    <2>3. \A t \in Task, s \in Attempt, b \in Attempt :
              Began(t, b) /\ eng[<<t, s>>] # "none" /\ (sess[t] # s \/ sess'[t] = 0)
              => eng'[<<t, b>>] \notin {"none", "connecting"} /\ eng'[<<t, s>>] # "none" /\ sess'[t] # s
        BY <1>3 DEF Began
    <2>4. /\ eng'[<<f.task, f.by>>] \notin {"none", "connecting"}
          /\ eng'[<<f.task, f.started>>] # "none" /\ sess'[f.task] # f.started
        BY <2>1, <2>2, <2>3
    <2> QED BY <2>4 DEF Began
<1>5. CASE exits' \subseteq exits
    BY <1>4, <1>5 DEF ExitInv
<1>6. ASSUME NEW e \in exits, NEW m, exits' = (exits \ {e}) \cup {[e EXCEPT !.seen = m]} PROVE ExitInv'
    <2>1. \A f \in exits' : \E g \in exits :
              /\ f.task = g.task /\ f.started = g.started /\ f.by = g.by
              /\ (f = g /\ f # e) \/ (f = [e EXCEPT !.seen = m] /\ g = e)
        BY <1>1, <1>6 DEF ExitType
    <2>2. \A f, g \in exits' : f.task = g.task /\ f.started = g.started => f = g
        BY <2>1 DEF ExitInv
    <2> QED BY <1>4, <2>1, <2>2 DEF ExitInv
<1>7. ASSUME NEW t \in Task, NEW by \in Attempt, NEW code, sess[t] # 0, sess'[t] = 0, Began(t, by),
             exits' = exits \cup {[task |-> t, started |-> sess[t], by |-> by, code |-> code, seen |-> 0]}
      PROVE  ExitInv'
    <2> DEFINE x == [task |-> t, started |-> sess[t], by |-> by, code |-> code, seen |-> 0]
    <2>1. \A f \in exits' : f \in exits \/ f = x
        BY <1>7
    <2>2. x.task = t /\ x.started = sess[t] /\ x.by = by
        OBVIOUS
    <2> HIDE DEF x
    <2>3. \A e \in exits : ~(e.task = x.task /\ e.started = x.started)
        BY <2>2 DEF ExitInv
    <2>4. \A f, g \in exits' : f.task = g.task /\ f.started = g.started => f = g
        BY <2>1, <2>3 DEF ExitInv
    <2>5. \A f \in exits' :
             \/ \E e \in exits : f.task = e.task /\ f.started = e.started /\ f.by = e.by
             \/ f.started = sess[f.task] /\ sess[f.task] # 0 /\ sess'[f.task] = 0 /\ Began(f.task, f.by)
        BY <1>7, <2>1, <2>2
    <2> QED BY <1>4, <2>4, <2>5 DEF ExitInv
<1> QED BY <1>5, <1>6, <1>7

\* Sessions are registered by launchers, and before that their engine does not exist.
LEMMA SessionStep ==
    ASSUME TypeInv, EngineInv, [Next]_vars
    PROVE  /\ SessionNew
           /\ \A t \in Task : sess'[t] # 0 /\ sess'[t] # sess[t] => At(BeforeSession, t, sess'[t])
<1>1. sess \in [Task -> 0..MaxAttempt]
    BY DEF TypeInv, TypeOK
<1>2. ASSUME NEW l \in Launcher, Launch(l), NEW t \in Task, sess'[t] # 0, sess'[t] # sess[t]
      PROVE  At(BeforeSession, t, sess'[t]) /\ sess'[t] \in Attempt
    <2>1. CASE Register(l) \/ Reconnect(l)
        <3>1. pc[l] \in HoldsJob /\ pc[l] \in BeforeSession /\ job[l].attempt \in Attempt
            BY <2>1, HeldIs DEF Register, Reconnect, HoldsJob, BeforeSession
        <3>2. t = job[l].task /\ sess'[t] = job[l].attempt
            BY <1>1, <1>2, <2>1 DEF Register, Reconnect, Admit
        <3> QED BY <3>1, <3>2 DEF At, Holds
    <2>2. CASE AbortLaunch(l)
        BY <1>1, <1>2, <2>2 DEF AbortLaunch, StopWithExitCode
    <2>3. CASE Connect(l)
        BY <1>1, <1>2, <2>3 DEF Connect
    <2>4. CASE EnqueueFull(l) \/ RejectLaunch(l) \/ StoreMeta(l) \/ SendPrompt(l)
        BY <1>2, <2>4 DEF EnqueueFull, RejectLaunch, StoreMeta, SendPrompt
    <2> QED BY <1>2, <2>1, <2>2, <2>3, <2>4 DEF Launch
<1>3. ASSUME NEW t \in Task, sess'[t] # 0, sess'[t] # sess[t] PROVE \E l \in Launcher : Launch(l)
    <2>1. CASE \E s \in stops : RunStop(s)
        BY <1>1, <1>3, <2>1 DEF RunStop, StopWithExitCode
    <2>2. CASE StopDead
        BY <1>1, <1>3, <2>2 DEF StopDead
    <2>3. CASE sess' = sess
        BY <1>3, <2>3
    <2>4. \/ \E l \in Launcher : Launch(l)
          \/ \E s \in stops : RunStop(s)
          \/ StopDead \/ sess' = sess
        BY DEF Next, WorkerStep, DrainStep, ExitStep, Launcher, vars, Dispatch, HandleAssign, AssignCheck, DrainStart,
               DrainNext, EndTurn, Crash, EmitDeath, ReadMeta, ReportExit
    <2> QED BY <2>1, <2>2, <2>3, <2>4
<1>4. \A t \in Task : sess'[t] # 0 /\ sess'[t] # sess[t] => At(BeforeSession, t, sess'[t]) /\ sess'[t] \in Attempt
    BY <1>2, <1>3
<1> QED BY <1>4 DEF SessionNew, EngineInv, Early

LEMMA ExitStepInv ==
    ASSUME TypeInv, TypeInv', EngineInv, ExitInv, EngineOn, [Next]_vars PROVE ExitInv'
<1>1. SessionNew
    BY SessionStep
<1>2. ASSUME NEW t \in Task, NEW by \in Attempt, NEW code, StopWithExitCode(t, by, code), Began(t, by)
      PROVE  ExitInv'
    <2>1. /\ sess'[t] = 0
          /\ \/ exits' = exits
             \/ /\ sess[t] # 0
                /\ exits' = exits \cup {[task |-> t, started |-> sess[t], by |-> by, code |-> code, seen |-> 0]}
        BY <1>2, StopShape
    <2> QED BY <1>1, <1>2, <2>1, ExitKeeps
<1>3. ASSUME NEW l \in Launcher, AbortLaunch(l) PROVE ExitInv'
    <2>1. StopWithExitCode(job[l].task, job[l].obj, 1) /\ pc[l] = "abort"
        BY <1>3 DEF AbortLaunch
    <2>2. job[l].task \in Task /\ job[l].obj \in Attempt
        BY <2>1 DEF TypeInv, JobOK, HoldsJob, HoldsObject
    <2>3. Began(job[l].task, job[l].obj)
        BY <2>1 DEF EngineInv
    <2> QED BY <1>2, <2>1, <2>2, <2>3
<1>4. ASSUME NEW s \in stops, RunStop(s) PROVE ExitInv'
    <2>1. s.task \in Task /\ s.by \in Attempt /\ Began(s.task, s.by)
        BY DEF TypeInv, TypeOK, EngineInv
    <2> QED BY <1>2, <1>4, <2>1 DEF RunStop
<1>5. ASSUME NEW e \in exits, ExitStep(e) PROVE ExitInv'
    <2>1. \/ exits' \subseteq exits
          \/ exits' = (exits \ {e}) \cup {[e EXCEPT !.seen = meta[e.task]]}
        BY <1>5 DEF ExitStep, ReadMeta, ReportExit
    <2> QED BY <1>1, <2>1, ExitKeeps
<1>6. CASE exits' = exits
    BY <1>1, <1>6, ExitKeeps
<1>7. \/ \E l \in Launcher : AbortLaunch(l)
      \/ \E s \in stops : RunStop(s)
      \/ \E e \in exits : ExitStep(e)
      \/ exits' = exits
    BY DEF Next, WorkerStep, DrainStep, Launch, Launcher, vars, Dispatch, HandleAssign, AssignCheck, DrainStart,
           DrainNext, EndTurn, Crash, EmitDeath, StopDead, EnqueueFull, RejectLaunch, StoreMeta, Register, Reconnect,
           SendPrompt, Connect
<1> QED BY <1>3, <1>4, <1>5, <1>6, <1>7

\* The invariant of sessions and exits.
THEOREM LiveInvHolds == Spec => []LiveInv
<1>1. Init => LiveInv
    <2> SUFFICES ASSUME Init PROVE LiveInv
        OBVIOUS
    <2>1. \A P \in SUBSET HoldsJob : \A t, a : ~At(P, t, a)
        BY DEF Init, At, HoldsJob
    <2>2. BeforeSession \in SUBSET HoldsJob /\ HoldsJob \in SUBSET HoldsJob
        BY DEF BeforeSession, HoldsJob
    <2>3. \A t, a : ~InSeq(<<t, a>>, assigns) /\ ~InSeq(<<t, a>>, queue)
        BY DEF Init, InSeq
    <2>4. PlaceInv
        BY <2>1, <2>2, <2>3 DEF Init, PlaceInv, Distinct, HoldsJob
    <2>5. EngineInv /\ ExitInv
        BY DEF Init, EngineInv, ExitInv, Assignment
    <2> QED BY <2>4, <2>5 DEF LiveInv
<1>2. TypeInv /\ TypeInv' /\ LostInv /\ LiveInv /\ [Next]_vars => LiveInv'
    BY PlaceStep, EngineStep, ExitStepInv DEF LiveInv, LostInv
<1> QED BY <1>1, <1>2, TypeInvHolds, LostInvHolds, PTL DEF Spec

\* A session whose engine is connected leaves the map with an exit report on
\* its way, or by the late failure of a launch that holds another object of
\* the task.  A failing handshake holds an engine that never connected, a
\* failing Reconnect one that is not connected, and each session is stopped
\* once: the exit of the step is a new one.
THEOREM LiveSessionKeptHolds == Spec => LiveSessionKept
<1>1. ASSUME TypeInv, LiveInv, [Next]_vars, NEW t \in Task, sess[t] # 0, Up(t, sess[t]), sess'[t] # sess[t]
      PROVE  \/ \E e \in exits' \ exits : e.task = t /\ e.started = sess[t]
             \/ \E l \in Launcher : /\ pc[l] \in {"connecting", "reconnect"}
                                    /\ job[l].task = t
                                    /\ job[l].obj # sess[t]
    <2>1. sess \in [Task -> 0..MaxAttempt] /\ eng \in [Assignment -> EngineState]
        BY <1>1 DEF TypeInv, TypeOK
    <2>2. ASSUME NEW u \in Task, NEW by \in Attempt, NEW code, StopWithExitCode(u, by, code)
          PROVE  \E e \in exits' \ exits : e.task = t /\ e.started = sess[t]
        <3> DEFINE x == [task |-> t, started |-> sess[t], by |-> by, code |-> code, seen |-> 0]
        <3>1. u = t /\ x \in exits'
            BY <1>1, <2>2, StopShape
        <3>2. x.task = t /\ x.started = sess[t]
            OBVIOUS
        <3> HIDE DEF x
        <3>3. x \notin exits
            BY <1>1, <3>2 DEF LiveInv, ExitInv
        <3> QED BY <3>1, <3>2, <3>3
    <2>3. ASSUME NEW l \in Launcher, Register(l) PROVE FALSE
        BY <1>1, <2>1, <2>3 DEF Register, Admit
    <2>4. ASSUME NEW l \in Launcher, Reconnect(l)
          PROVE  pc[l] = "reconnect" /\ job[l].task = t /\ job[l].obj # sess[t]
        BY <1>1, <2>1, <2>4 DEF Reconnect, Admit, Up
    <2>5. ASSUME NEW l \in Launcher, Connect(l)
          PROVE  pc[l] = "connecting" /\ job[l].task = t /\ job[l].obj # sess[t]
        BY <1>1, <2>1, <2>5 DEF Connect, Up, LiveInv, EngineInv, Held
    <2>6. ASSUME NEW l \in Launcher, AbortLaunch(l)
          PROVE  \E e \in exits' \ exits : e.task = t /\ e.started = sess[t]
        <3>1. job[l].task \in Task /\ job[l].obj \in Attempt
            BY <1>1, <2>6 DEF AbortLaunch, TypeInv, JobOK, HoldsJob, HoldsObject
        <3> QED BY <2>2, <2>6, <3>1 DEF AbortLaunch
    <2>7. ASSUME NEW s \in stops, RunStop(s)
          PROVE  \E e \in exits' \ exits : e.task = t /\ e.started = sess[t]
        <3>1. s.task \in Task /\ s.by \in Attempt
            BY <1>1 DEF TypeInv, TypeOK
        <3> QED BY <2>2, <2>7, <3>1 DEF RunStop
    <2>8. CASE StopDead
        BY <1>1, <2>1, <2>8 DEF StopDead, Up
    <2>9. \/ \E l \in Launcher : Register(l) \/ Reconnect(l) \/ Connect(l) \/ AbortLaunch(l)
          \/ \E s \in stops : RunStop(s)
          \/ StopDead \/ sess' = sess
        BY <1>1 DEF Next, WorkerStep, DrainStep, ExitStep, Launch, Launcher, vars, Dispatch, HandleAssign, AssignCheck,
               DrainStart, DrainNext, EndTurn, Crash, EmitDeath, ReadMeta, ReportExit, EnqueueFull, RejectLaunch,
               StoreMeta, SendPrompt
    <2> QED BY <1>1, <2>3, <2>4, <2>5, <2>6, <2>7, <2>8, <2>9
<1>2. TypeInv /\ LiveInv /\ [Next]_vars =>
        [\A t \in Task :
         sess[t] # 0 /\ Up(t, sess[t]) /\ sess'[t] # sess[t] =>
            \/ \E e \in exits' \ exits : e.task = t /\ e.started = sess[t]
            \/ \E l \in Launcher : /\ pc[l] \in {"connecting", "reconnect"}
                                   /\ job[l].task = t
                                   /\ job[l].obj # sess[t]]_vars
    BY <1>1
<1> QED BY <1>2, TypeInvHolds, LiveInvHolds, PTL DEF Spec, LiveSessionKept

-----------------------------------------------------------------------------
(* Reports.                                                                 *)

\* A launch that fails, or is refused, reports an attempt whose meta was never
\* stored, whose session never was or only now left the map, and without exits.
Fails(t, a) ==
    /\ Open(t, a) /\ ~Open(t, a)' /\ eng[<<t, a>>] \in {"none", "connecting"} /\ sess'[t] # a
    /\ reports' = reports \cup {Report(t, a, a, a, 1)}
    /\ UNCHANGED <<exits, meta, orch, dispatched>> /\ \A u \in Task : sess'[u] \in {0, sess[u]}

LEMMA FailedLaunch ==
    ASSUME TypeInv, Tidy, PlaceInv, EngineInv,
           \/ HandleAssign /\ reports' # reports
           \/ \E l \in Launcher : RejectLaunch(l) \/ (Connect(l) /\ reports' # reports)
    PROVE  \E t \in Task, a \in Attempt : Fails(t, a)
<1>1. /\ pc \in [Launcher -> LauncherPc] /\ job \in [Launcher -> JobType] /\ sess \in [Task -> 0..MaxAttempt]
      /\ Worker \in Launcher /\ \A t \in Task, a \in Attempt : <<t, a>> \in Assignment /\ a # 0
    BY DEF TypeInv, TypeOK, Launcher, Assignment, Attempt
<1>2. CASE HandleAssign /\ reports' # reports
    <2> DEFINE h == Head(assigns)
    <2>1. /\ pc[Worker] \notin HoldsJob /\ assigns # <<>> /\ assigns' = Tail(assigns)
          /\ UNCHANGED <<queue, pc, job, dispatched, orch, sess, exits, meta>>
          /\ reports' = reports \cup {Report(h[1], h[2], h[2], h[2], 1)}
        BY <1>2 DEF HandleAssign, HoldsJob
    <2>2. PICK x : x = h
        OBVIOUS
    <2>3. x \in Assignment /\ Waits(x[1], x[2]) /\ ~Waits(x[1], x[2])' /\ ~At(HoldsJob, x[1], x[2])
        BY <1>1, <2>1, <2>2, PlaceTake
    <2>4. x[1] \in Task /\ x[2] \in Attempt
        BY <2>3 DEF Assignment
    <2>5. Open(x[1], x[2]) /\ Early(x[1], x[2])
        BY <2>3 DEF Open, Early
    <2>6. ~At(BeforeMeta, x[1], x[2])'
        BY <2>1, <2>3 DEF At, Holds, BeforeMeta, BeforeSession, HoldsJob
    <2>7. ~Open(x[1], x[2])'
        BY <2>3, <2>6 DEF Open
    <2>8. eng[<<x[1], x[2]>>] = "none" /\ sess[x[1]] # x[2]
        BY <1>1, <2>4, <2>5 DEF EngineInv
    <2> QED BY <2>1, <2>2, <2>4, <2>5, <2>7, <2>8 DEF Fails
<1>3. ASSUME NEW l \in Launcher, RejectLaunch(l) \/ (Connect(l) /\ reports' # reports)
      PROVE  \E t \in Task, a \in Attempt : Fails(t, a)
    <2>1. /\ pc[l] \in {"register", "connecting"} /\ pc[l] \in HoldsJob /\ pc[l] \in BeforeMeta
          /\ pc'[l] \notin HoldsJob /\ \A k \in Launcher \ {l} : pc'[k] = pc[k] /\ job'[k] = job[k]
          /\ UNCHANGED <<assigns, queue, dispatched, orch, exits, meta>>
          /\ reports' = reports \cup {Report(job[l].task, job[l].attempt, job[l].attempt, job[l].attempt, 1)}
          /\ \/ sess' = sess /\ pc[l] = "register"
             \/ sess' = [sess EXCEPT ![job[l].task] = 0] /\ pc[l] = "connecting"
        BY <1>1, <1>3 DEF RejectLaunch, Connect, Relaunch, HoldsJob, BeforeMeta, BeforeSession
    <2>2. PICK t \in Task, a \in Attempt : t = job[l].task /\ a = job[l].attempt
        BY <2>1, HeldIs
    <2>3. Holds(l, t, a) /\ BeforeMeta \in SUBSET HoldsJob /\ pc'[l] \notin BeforeMeta
        BY <2>1, <2>2 DEF Holds, BeforeMeta, BeforeSession, HoldsJob
    <2>4. ~Waits(t, a)' /\ ~At(BeforeMeta, t, a)'
        BY <2>1, <2>3, MovedOn
    <2>5. Open(t, a) /\ ~Open(t, a)'
        BY <2>1, <2>3, <2>4 DEF Open, At
    <2>6. pc[l] = "register" => eng[<<t, a>>] = "none"
        BY <2>3 DEF EngineInv, Early, At, BeforeSession
    <2>7. pc[l] = "connecting" => eng[<<t, a>>] = "connecting"
        BY <2>2 DEF EngineInv, Held
    <2>8. sess'[t] # a /\ \A u \in Task : sess'[u] \in {0, sess[u]}
        BY <1>1, <2>1, <2>2, <2>6 DEF EngineInv
    <2> QED BY <2>1, <2>2, <2>5, <2>6, <2>7, <2>8 DEF Fails
<1> QED BY <1>2, <1>3

\* A session is stopped, and its exit started.
Exits ==
    /\ UNCHANGED <<reports, meta, orch, dispatched>> /\ \A u \in Task : sess'[u] \in {0, sess[u]}
    /\ \E t \in Task, by \in Attempt : \E code :
         /\ sess[t] # 0 /\ <<t, sess[t]>> \in Assignment
         /\ exits' = exits \cup {[task |-> t, started |-> sess[t], by |-> by, code |-> code, seen |-> 0]}

\* Reports and metas: all that a step does to them.
LEMMA ReportCases ==
    ASSUME TypeInv, Tidy, PlaceInv, EngineInv, [Next]_vars
    PROVE  \/ \E t \in Task, a \in Attempt : Fails(t, a)
           \/ \E l \in Launcher : StoreMeta(l)
           \/ \E e \in exits : ReadMeta(e) \/ ReportExit(e)
           \/ \E t \in Task : Dispatch(t)
           \/ UNCHANGED <<reports, meta, orch, dispatched, exits>>
           \/ Exits
<1>1. ASSUME NEW t \in Task, NEW by \in Attempt, NEW code, StopWithExitCode(t, by, code)
      PROVE  \/ exits' = exits
             \/ (UNCHANGED <<reports, meta, orch, dispatched>> => Exits)
    <2>1. CASE exits' = exits
        BY <2>1
    <2>2. CASE /\ sess[t] # 0 /\ <<t, sess[t]>> \in Assignment
               /\ exits' = exits \cup {[task |-> t, started |-> sess[t], by |-> by, code |-> code, seen |-> 0]}
        <3>1. \A u \in Task : sess'[u] \in {0, sess[u]}
            BY <1>1, StopShape
        <3> QED BY <2>2, <3>1 DEF Exits
    <2> QED BY <1>1, <2>1, <2>2, StopShape
<1>2. ASSUME NEW l \in Launcher, AbortLaunch(l)
      PROVE  /\ StopWithExitCode(job[l].task, job[l].obj, 1) /\ UNCHANGED <<reports, meta, orch, dispatched>>
             /\ job[l].task \in Task /\ job[l].obj \in Attempt
    BY <1>2 DEF AbortLaunch, TypeInv, JobOK, HoldsJob, HoldsObject
<1>3. ASSUME NEW s \in stops, RunStop(s)
      PROVE  /\ StopWithExitCode(s.task, s.by, s.code) /\ UNCHANGED <<reports, meta, orch, dispatched>>
             /\ s.task \in Task /\ s.by \in Attempt
    BY <1>3 DEF RunStop, TypeInv, TypeOK
<1>4. \/ HandleAssign /\ reports' # reports
      \/ \E l \in Launcher : RejectLaunch(l) \/ (Connect(l) /\ reports' # reports)
      \/ \E l \in Launcher : StoreMeta(l)
      \/ \E e \in exits : ReadMeta(e) \/ ReportExit(e)
      \/ \E t \in Task : Dispatch(t)
      \/ \E l \in Launcher : AbortLaunch(l)
      \/ \E s \in stops : RunStop(s)
      \/ UNCHANGED <<reports, meta, orch, dispatched, exits>>
  <2> DEFINE quiet == UNCHANGED <<reports, meta, orch, dispatched, exits>>
  <2>1. ASSUME WorkerStep
        PROVE  \/ HandleAssign /\ reports' # reports
               \/ quiet
               \/ Launch(Worker)
    BY <2>1 DEF WorkerStep, HandleAssign, AssignCheck
  <2>2. ASSUME NEW d \in Drain, DrainStep(d) PROVE quiet \/ Launch(d)
    BY <2>2 DEF DrainStep, DrainStart, DrainNext
  <2>3. ASSUME NEW l \in Launcher, Launch(l)
        PROVE  \/ RejectLaunch(l) \/ (Connect(l) /\ reports' # reports) \/ StoreMeta(l) \/ AbortLaunch(l)
               \/ quiet
    BY <2>3 DEF Launch, EnqueueFull, Register, Reconnect, Connect, SendPrompt
  <2>4. ASSUME NEW t \in Task, NEW a \in Attempt, EndTurn(t, a) \/ Crash(t, a) \/ EmitDeath(t, a) PROVE quiet
    BY <2>4 DEF EndTurn, Crash, EmitDeath
  <2>5. ASSUME StopDead \/ UNCHANGED vars PROVE quiet
    BY <2>5 DEF StopDead, vars
  <2> HIDE DEF quiet
  <2>6. \/ WorkerStep
        \/ \E d \in Drain : DrainStep(d)
        \/ \E t \in Task, a \in Attempt : EndTurn(t, a) \/ Crash(t, a) \/ EmitDeath(t, a)
        \/ \E e \in exits : ReadMeta(e) \/ ReportExit(e)
        \/ \E t \in Task : Dispatch(t)
        \/ \E s \in stops : RunStop(s)
        \/ StopDead \/ UNCHANGED vars
    BY DEF Next, ExitStep
  <2> QED BY <2>1, <2>2, <2>3, <2>4, <2>5, <2>6 DEF quiet, Launcher
<1>5. ASSUME NEW l \in Launcher, AbortLaunch(l) PROVE UNCHANGED <<reports, meta, orch, dispatched, exits>> \/ Exits
    BY <1>1, <1>2, <1>5
<1>6. ASSUME NEW s \in stops, RunStop(s) PROVE UNCHANGED <<reports, meta, orch, dispatched, exits>> \/ Exits
    BY <1>1, <1>3, <1>6
<1> QED BY <1>4, <1>5, <1>6, FailedLaunch

\* The meta a launch stores is not reported yet, and stored once.
LEMMA StoredMeta ==
    ASSUME TypeInv, PlaceInv, NEW l \in Launcher, StoreMeta(l)
    PROVE  \E t \in Task, a \in Attempt :
             /\ Open(t, a) /\ ~Open(t, a)' /\ meta' = [meta EXCEPT ![t] = a]
             /\ UNCHANGED <<reports, exits, orch, dispatched, sess>>
<1>1. /\ pc[l] \in HoldsJob /\ pc[l] \in BeforeMeta /\ pc'[l] \notin BeforeMeta /\ UNCHANGED <<dispatched, assigns, queue>>
      /\ \A k \in Launcher \ {l} : pc'[k] = pc[k] /\ job'[k] = job[k]
      /\ UNCHANGED <<reports, exits, orch, dispatched, sess>>
    BY DEF StoreMeta, TypeInv, TypeOK, HoldsJob, BeforeMeta, BeforeSession
<1>2. PICK t \in Task, a \in Attempt : t = job[l].task /\ a = job[l].attempt
    BY <1>1, HeldIs
<1>3. Holds(l, t, a) /\ BeforeMeta \in SUBSET HoldsJob
    BY <1>2 DEF Holds, BeforeMeta, BeforeSession, HoldsJob
<1>4. ~Waits(t, a)' /\ ~At(BeforeMeta, t, a)'
    BY <1>1, <1>3, MovedOn
<1> QED BY <1>1, <1>2, <1>3, <1>4 DEF Open, At, StoreMeta

LEMMA MetaStep ==
    ASSUME TypeInv, Tidy, PlaceInv, EngineInv, Forward, MetaInv, [Next]_vars PROVE MetaInv'
<1>1. /\ meta \in [Task -> 0..MaxAttempt] /\ exits \subseteq ExitType
      /\ \A a \in Attempt : a # 0 /\ a \in Nat
    BY DEF TypeInv, TypeOK, Attempt
<1>2. \A t \in Task, a \in Attempt : Open(t, a)' =>
          Open(t, a) /\ ~Reported(t, a) /\ meta[t] # a /\ \A e \in exits : e.task = t => e.seen # a
    BY DEF MetaInv, Forward
<1>3. \A t \in Task, a \in Attempt : meta[t] = a => ~Reported(t, a) /\ ~Open(t, a)
    BY DEF MetaInv
<1>4. ASSUME NEW t \in Task, NEW a \in Attempt, Fails(t, a) PROVE MetaInv'
    <2>1. \A u \in Task, b \in Attempt : Reported(u, b)' => Reported(u, b) \/ (u = t /\ b = a)
        BY <1>4 DEF Fails, Reported, Report
    <2>2. meta' = meta /\ exits' = exits /\ meta[t] # a /\ ~Open(t, a)'
        BY <1>4 DEF Fails, MetaInv
    <2> QED BY <1>2, <1>3, <2>1, <2>2 DEF MetaInv
<1>5. ASSUME NEW t \in Task, NEW a \in Attempt, Open(t, a), ~Open(t, a)', meta' = [meta EXCEPT ![t] = a],
             UNCHANGED <<reports, exits>>
      PROVE  MetaInv'
    <2>1. \A u \in Task : meta'[u] = IF u = t THEN a ELSE meta[u]
        BY <1>1, <1>5
    <2>2. \A u \in Task, b \in Attempt : Reported(u, b)' <=> Reported(u, b)
        BY <1>5 DEF Reported
    <2>3. ~Reported(t, a)
        BY <1>5 DEF MetaInv
    <2> QED BY <1>2, <1>3, <1>5, <2>1, <2>2, <2>3 DEF MetaInv
<1>6. ASSUME NEW e \in exits, ReadMeta(e) PROVE MetaInv'
    <2>1. UNCHANGED <<meta, reports>> /\ e.task \in Task
        BY <1>1, <1>6 DEF ReadMeta, ExitType
    <2>2. \A u \in Task, b \in Attempt : Reported(u, b)' <=> Reported(u, b)
        BY <2>1 DEF Reported
    <2>3. \A f \in exits' : f \in exits \/ (f.task = e.task /\ f.seen = meta[e.task])
        BY <1>1, <1>6 DEF ReadMeta, ExitType
    <2> QED BY <1>2, <1>3, <2>1, <2>2, <2>3 DEF MetaInv
<1>7. ASSUME NEW e \in exits, ReportExit(e) PROVE MetaInv'
    <2>1. e.task \in Task /\ e.seen \in Attempt /\ exits' \subseteq exits
        BY <1>1, <1>7 DEF ReportExit, ExitType, Attempt
    <2>2. \A u \in Task : meta'[u] = IF u = e.task THEN 0 ELSE meta[u]
        BY <1>1, <1>7 DEF ReportExit
    <2>3. \A u \in Task, b \in Attempt : Reported(u, b)' => Reported(u, b) \/ (u = e.task /\ b = e.seen)
        BY <1>7 DEF ReportExit, Reported, Report
    <2>4. ~Open(e.task, e.seen)'
        BY <1>2, <2>1
    <2> QED BY <1>1, <1>2, <1>3, <2>1, <2>2, <2>3, <2>4 DEF MetaInv
<1>8. ASSUME UNCHANGED <<reports, meta>>, \A e \in exits' : e \in exits \/ e.seen = 0 PROVE MetaInv'
    <2>1. \A u \in Task, b \in Attempt : Reported(u, b)' <=> Reported(u, b)
        BY <1>8 DEF Reported
    <2> QED BY <1>1, <1>2, <1>3, <1>8, <2>1 DEF MetaInv
<1>9. ASSUME NEW t \in Task, Dispatch(t) PROVE MetaInv'
    BY <1>8, <1>9 DEF Dispatch
<1>10. ASSUME NEW l \in Launcher, StoreMeta(l) PROVE MetaInv'
    BY <1>5, <1>10, StoredMeta
<1>11. CASE Exits
    <2>1. \A e \in exits' : e \in exits \/ e.seen = 0
        BY <1>11 DEF Exits
    <2> QED BY <1>8, <1>11, <2>1 DEF Exits
<1>12. CASE UNCHANGED <<reports, meta, orch, dispatched, exits>>
    BY <1>8, <1>12
<1> QED BY <1>4, <1>6, <1>7, <1>9, <1>10, <1>11, <1>12, ReportCases

\* One report at most, of an attempt not reported before, and of a session
\* that neither is in the map nor has an exit of its own any more.
LEMMA PatientKeeps ==
    ASSUME TypeInv, PatientInv, Patient', orch' = orch, dispatched' = dispatched,
           NEW r \in ReportType,
           reports' = reports \/ reports' = reports \cup {r},
           reports' # reports =>
               /\ r.attempt = r.started /\ ~Reported(r.task, r.attempt) /\ sess'[r.task] # r.started
               /\ \A e \in exits' : e.by = e.started /\ e.task = r.task => e.started # r.started,
           \A t \in Task : sess'[t] # 0 /\ sess'[t] # sess[t] => ~Reported(t, sess'[t]),
           \A e \in exits' : e \in exits \/ (e.by = e.started =>
               ~Reported(e.task, e.started) /\ e.seen \in {0, e.started})
    PROVE  PatientInv'
<1>1. Patient
    BY DEF Patient
<1>2. /\ \A t \in Task : \A a \in Attempt : a < dispatched[t] => Reported(t, a)
      /\ \A t \in Task : sess[t] # 0 => ~Reported(t, sess[t])
      /\ \A e \in exits : e.by = e.started =>
             ~Reported(e.task, e.started) /\ e.seen \in {0, e.started}
      /\ AttemptEcho /\ SingleReport
    BY <1>1 DEF PatientInv
<1>3. \A t, a : Reported(t, a) => Reported(t, a)'
    BY DEF Reported
<1>4. ASSUME NEW t, NEW a, Reported(t, a)', ~Reported(t, a)
      PROVE  reports' # reports /\ t = r.task /\ a = r.attempt
    BY <1>4 DEF Reported
<1>5. ASSUME NEW t \in Task, sess'[t] # 0 PROVE ~Reported(t, sess[t])'
    <2>1. PICK a : a = sess'[t]
        OBVIOUS
    <2>2. ~Reported(t, a)
        BY <1>2, <1>5, <2>1
    <2>3. ~Reported(t, a)'
        BY <1>4, <1>5, <2>1, <2>2
    <2> QED BY <2>1, <2>3 DEF Reported
<1>6. ASSUME NEW e \in exits', e.by = e.started
      PROVE  ~Reported(e.task, e.started)' /\ e.seen \in {0, e.started}
    <2>1. ~Reported(e.task, e.started) /\ e.seen \in {0, e.started}
        BY <1>2, <1>6
    <2> QED BY <1>4, <1>6, <2>1
<1>7. AttemptEcho' /\ SingleReport'
    <2>1. CASE reports' = reports
        BY <1>2, <2>1 DEF AttemptEcho, SingleReport
    <2>2. CASE reports' # reports
        <3>1. \A q \in reports : ~(q.task = r.task /\ q.attempt = r.attempt)
            BY <2>2 DEF Reported
        <3>2. \A q \in reports' : q \in reports \/ q = r
            BY <2>2
        <3> QED BY <1>2, <2>2, <3>1, <3>2 DEF AttemptEcho, SingleReport
    <2> QED BY <2>1, <2>2
<1>8. \A t \in Task : \A a \in Attempt : a < dispatched'[t] => Reported(t, a)'
    BY <1>2, <1>3
<1> QED BY <1>5, <1>6, <1>7, <1>8 DEF PatientInv

LEMMA PatientStep ==
    ASSUME TypeInv, TypeInv', Tidy, PlaceInv, EngineInv, ExitInv, Forward, MetaInv, PatientInv, [Next]_vars
    PROVE  PatientInv'
<1> SUFFICES ASSUME Patient' PROVE PatientInv'
    BY DEF PatientInv
<1>1. /\ meta \in [Task -> 0..MaxAttempt] /\ sess \in [Task -> 0..MaxAttempt] /\ exits \subseteq ExitType
      /\ dispatched \in [Task -> 0..MaxAttempt]
      /\ \A a \in Attempt : a # 0 /\ a \in Nat
      /\ \A t \in Task, a \in Attempt : <<t, a>> \in Assignment /\ dispatched[t] \in Nat
      /\ \A t \in Task, a \in Attempt : Report(t, a, a, a, 1) \in ReportType
    BY DEF TypeInv, TypeOK, Attempt, Assignment, Report, ReportType
<1>2. \A t \in Task : sess'[t] # 0 /\ sess'[t] # sess[t] => ~Reported(t, sess'[t])
    <2>1. \A t \in Task : sess'[t] # 0 /\ sess'[t] # sess[t] => At(BeforeSession, t, sess'[t])
        BY SessionStep
    <2>2. \A t, a : At(BeforeSession, t, a) => Open(t, a)
        BY DEF Open, At, BeforeMeta
    <2>3. \A t \in Task : sess'[t] # 0 => sess'[t] \in Attempt
        BY DEF TypeInv, TypeOK, Attempt
    <2> QED BY <2>1, <2>2, <2>3 DEF MetaInv
<1>3. \E r : r \in ReportType
    <2>1. \E t : t \in Task
        BY PoolAssumption
    <2>2. 1 \in Attempt
        BY PoolAssumption DEF Attempt
    <2> QED BY <1>1, <2>1, <2>2
<1>4. ASSUME NEW t \in Task, NEW a \in Attempt, Fails(t, a) PROVE PatientInv'
    <2> DEFINE r == Report(t, a, a, a, 1)
    <2>1. /\ r \in ReportType /\ r.task = t /\ r.attempt = a /\ r.started = a
        BY <1>1 DEF Report
    <2> HIDE DEF r
    <2>2. ~Reported(t, a) /\ sess'[t] # a /\ reports' = reports \cup {r} /\ UNCHANGED <<exits, orch, dispatched>>
        BY <1>4 DEF Fails, MetaInv, r
    <2>3. \A e \in exits : e.by = e.started /\ e.task = t => e.started # a
        BY <1>4 DEF Fails, ExitInv, Began
    <2> QED BY <1>2, <2>1, <2>2, <2>3, PatientKeeps
<1>5. ASSUME UNCHANGED <<reports, orch, dispatched>>,
             \A e \in exits' : e \in exits \/ (e.by = e.started =>
               ~Reported(e.task, e.started) /\ e.seen \in {0, e.started})
      PROVE  PatientInv'
    BY <1>2, <1>3, <1>5, PatientKeeps
<1>6. ASSUME NEW l \in Launcher, StoreMeta(l) PROVE PatientInv'
    BY <1>5, <1>6 DEF StoreMeta
<1>7. CASE Exits
    <2>1. Patient /\ \A t \in Task : sess[t] # 0 => ~Reported(t, sess[t])
        BY <1>7 DEF Exits, PatientInv, Patient
    <2>2. ASSUME NEW t \in Task, NEW by \in Attempt, NEW code, sess[t] # 0,
                 exits' = exits \cup {[task |-> t, started |-> sess[t], by |-> by, code |-> code, seen |-> 0]}
          PROVE  \A e \in exits' : e \in exits \/ (~Reported(e.task, e.started) /\ e.seen \in {0, e.started})
        BY <2>1, <2>2
    <2> QED BY <1>5, <1>7, <2>2 DEF Exits
<1>8. CASE UNCHANGED <<reports, meta, orch, dispatched, exits>>
    BY <1>5, <1>8
<1>9. ASSUME NEW e \in exits, ReadMeta(e) PROVE PatientInv'
    <2>1. Patient /\ UNCHANGED <<reports, orch, dispatched>>
        BY <1>9 DEF ReadMeta, Patient
    <2>2. e.task \in Task /\ e.started \in Attempt
        BY <1>1 DEF ExitType
    <2>3. CASE meta[e.task] = 0
        BY <1>5, <1>9, <2>1, <2>3 DEF ReadMeta
    <2>4. CASE meta[e.task] # 0
        <3> DEFINE m == meta[e.task]
        <3>1. m \in Attempt
            BY <1>1, <2>2, <2>4 DEF Attempt
        <3>2. ~Reported(e.task, m) /\ ~Waits(e.task, m)
            BY <2>2, <3>1 DEF MetaInv, Open
        <3>3. ~Waits(e.task, e.started)
            BY <2>2 DEF ExitInv, EngineInv, Early
        <3>4. ASSUME e.by = e.started PROVE ~Reported(e.task, e.started) /\ m = e.started
            <4>1. ~Reported(e.task, e.started)
                BY <2>1, <3>4 DEF PatientInv
            <4>2. /\ ~(e.started < dispatched[e.task]) /\ ~(m < dispatched[e.task])
                  /\ ~(dispatched[e.task] < e.started) /\ ~(dispatched[e.task] < m)
                BY <2>1, <2>2, <3>1, <3>2, <3>3, <4>1 DEF PatientInv, Waits
            <4> QED BY <1>1, <2>2, <3>1, <4>1, <4>2
        <3> HIDE DEF m
        <3>5. \A f \in exits' : f \in exits \/ (f.task = e.task /\ f.started = e.started /\ f.by = e.by /\ f.seen = m)
            BY <1>1, <1>9 DEF ReadMeta, ExitType, m
        <3> QED BY <1>5, <2>1, <3>4, <3>5
    <2> QED BY <2>3, <2>4
<1>10. ASSUME NEW e \in exits, ReportExit(e) PROVE PatientInv'
    <2> DEFINE r == Report(e.task, e.seen, e.started, e.by, e.code)
    <2>1. e.task \in Task /\ e.seen \in Attempt /\ e.started \in Attempt /\ e.by \in Attempt /\ e.code \in {0, 1}
        BY <1>1, <1>10 DEF ExitType, ReportExit, Attempt
    <2>2. r \in ReportType /\ r.task = e.task /\ r.attempt = e.seen /\ r.started = e.started /\ r.by = e.by
        BY <2>1 DEF Report, ReportType
    <2>3. /\ reports' = reports \cup {r} /\ UNCHANGED <<orch, dispatched, sess>> /\ exits' = exits \ {e}
        BY <1>10 DEF ReportExit
    <2> HIDE DEF r
    <2>4. e.by = e.started /\ Patient
        BY <2>2, <2>3 DEF Patient
    <2>5. e.seen = e.started /\ ~Reported(e.task, e.started)
        BY <1>1, <2>1, <2>4 DEF PatientInv
    <2>6. sess'[e.task] # e.started /\ \A f \in exits' : f.task = e.task => f.started # e.started
        BY <2>3 DEF ExitInv
    <2> QED BY <1>2, <2>2, <2>3, <2>5, <2>6, PatientKeeps
<1>11. ASSUME NEW t \in Task, Dispatch(t) PROVE PatientInv'
    <2>1. UNCHANGED <<orch, reports, exits, sess>> /\ dispatched' = [dispatched EXCEPT ![t] = @ + 1]
        BY <1>11 DEF Dispatch
    <2>2. Patient
        BY <2>1 DEF Patient
    <2>3. dispatched[t] # 0 => Reported(t, dispatched[t])
        BY <1>11, <2>2 DEF Dispatch, Patient, Reported
    <2>4. ASSUME NEW u \in Task, NEW a \in Attempt, a < dispatched'[u] PROVE Reported(u, a)
        <3>1. a < dispatched[u] \/ (u = t /\ a = dispatched[t])
            BY <1>1, <2>1, <2>4
        <3> QED BY <1>1, <2>2, <2>3, <3>1 DEF PatientInv
    <2> QED BY <2>1, <2>2, <2>4 DEF PatientInv, Patient, Reported, AttemptEcho, SingleReport
<1> QED BY <1>4, <1>6, <1>7, <1>8, <1>9, <1>10, <1>11, ReportCases

\* A patient orchestrator can match reports to attempts, excused the sessions
\* stopped for the end of an earlier one of their task.  All its attempts but
\* the last of a task are reported, so the meta a session's exit reads and
\* the attempt that started the session, both unreported, are the last one.
THEOREM ReportsMatchAttemptsHolds == Spec => []ReportsMatchAttempts
<1>1. Init => ReportInv
    <2> SUFFICES ASSUME Init PROVE ReportInv
        OBVIOUS
    <2>1. MetaInv
        BY DEF Init, MetaInv, Reported, Attempt
    <2>2. PatientInv
        BY DEF Init, PatientInv, Reported, Attempt, AttemptEcho, SingleReport
    <2> QED BY <2>1, <2>2 DEF ReportInv
<1>2. TypeInv /\ TypeInv' /\ LostInv /\ LiveInv /\ ReportInv /\ [Next]_vars => ReportInv'
    BY PlaceStep, MetaStep, PatientStep DEF LiveInv, LostInv, ReportInv
<1>3. ReportInv => ReportsMatchAttempts
    BY DEF ReportInv, PatientInv, Patient, ReportsMatchAttempts
<1> QED BY <1>1, <1>2, <1>3, TypeInvHolds, LostInvHolds, LiveInvHolds, PTL DEF Spec

=============================================================================
