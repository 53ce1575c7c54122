----------------------------- MODULE NodePreviews -----------------------------
(***************************************************************************)
(* Runtime and session previews of the node agent                          *)
(* (node/agent/runtimepreview.go, sessionpreview.go): a work item brings   *)
(* an instance up or down, a sweep every minute re-asserts routes, stops   *)
(* idle instances and notices dead ones, and a restarted agent adopts what *)
(* its state files name.                                                   *)
(*                                                                         *)
(* A runtime preview is claimed by instance, but its Coolify application,  *)
(* its state and its file belong to the mission: its slot.  A switch       *)
(* deploys another instance of the mission into the same application.  A   *)
(* session preview has a slot of its own; there the API drives the build.  *)
(* Dispatch, stop and sweep run on the agent's one loop; an up runs in a   *)
(* goroutine beside them.                                                  *)
(***************************************************************************)
EXTENDS Naturals, FiniteSets

CONSTANTS
    Runtime,     \* instances of runtime previews
    Session,     \* instances of session previews
    SlotOf,      \* SlotOf[i]: the mission of a runtime preview, the slot of a session preview
    Port,        \* the port range of runtime previews
    HostPort,    \* the ports the API allocates for the rest: a range disjoint from it
    NoInst,
    Shows,       \* the sets of instances a behaviour may be about
    MaxAsks,     \* bound: activations and stops users ask for, by what is shown
    MaxFaults    \* bound: lost reports, refusals, deaths, reloads and crashes, together

Instance == Runtime \cup Session
Slot == {SlotOf[i] : i \in Instance}
AnyPort == Port \cup HostPort
NoPort == 0

ASSUME NodePreviewsAssumption ==
    /\ NoInst \notin Instance /\ Port \cup HostPort \subseteq Nat \ {0} /\ Port \cap HostPort = {}
    /\ Runtime \cap Session = {} /\ Shows \subseteq SUBSET Instance
    /\ \A i \in Session, j \in Instance : SlotOf[i] = SlotOf[j] => i = j
    /\ \A instances \in Shows : MaxAsks[instances] \in Nat
    /\ MaxFaults \in Nat

VARIABLES
    shown,     \* the instances of this behaviour
    row,       \* row[i]: the API's status of i
    asks,
    faults,
    apps,      \* slots whose Coolify application exists
    box,       \* box[k]: the instance whose container runs in the application of k
    boxPort,   \* the host port that container publishes
    route,     \* route[i]: the port Caddy sends i's host to
    flight,    \* flight[i]: how far the goroutine that brings i up got
    port,      \* port[i]: the port it allocated
    active,    \* byMission, byInstance: the instance tracked in slot k
    stPort,    \* the port in its state
    file,      \* the instance named by the state file of k
    fails,     \* ProbeFails of the state of k
    sweep,     \* states the running sweep has still to look at
    hand,      \* the stop or idle stop the loop is in
    lost,      \* ghost: instances a report of which was lost or never sent
    misled,    \* ghost: slots given a port that an up of another slot held in flight,
               \* or routed again by the state that an up of the slot replaced
    crossed    \* ghost: slots where a stop met an up of the same slot

pvApi   == <<row, asks>>
pvNode  == <<apps, box, boxPort, route>>
pvUp    == <<flight, port>>
pvState == <<active, stPort, file, fails>>
pvLoop  == <<sweep, hand>>
previewVars == <<shown, pvApi, faults, pvNode, pvUp, pvState, pvLoop, lost, misled, crossed>>

NoHand == [inst |-> NoInst, who |-> NoInst, idle |-> FALSE, step |-> "none"]

Siblings(i) == {j \in Instance \ {i} : SlotOf[j] = SlotOf[i]}

Fault == faults < MaxFaults /\ faults' = faults + 1

-----------------------------------------------------------------------------
(* The API: what users ask for, and what a report does to a row.            *)

Down == {"off", "stopped", "failed", "replaced"}

After(r, event) ==
    CASE r = "up" /\ event = "running" -> "running"
      [] r = "up" /\ event = "materialized" -> "building"
      [] r = "ready" /\ event = "routed" -> "running"
      [] r \in {"running", "stopping"} /\ event = "stopped" -> "stopped"
      [] r \notin Down /\ event = "failed" -> "failed"
      [] OTHER -> r

\* reportTo: the row moves, or the report is lost and nothing sends it again.
ReportTo(i, event) ==
    \/ /\ row' = [j \in Instance |->
                    IF j = i THEN After(row[i], event)
                    ELSE IF event = "running" /\ j \in Siblings(i) /\ row[j] = "running"
                      THEN "replaced" ELSE row[j]]
       /\ UNCHANGED <<faults, lost>>
    \/ /\ Fault /\ lost' = lost \cup {i} /\ UNCHANGED row

\* One instance of a mission changes at a time; a running one may be replaced.
Activate(i) ==
    /\ i \in shown /\ asks < MaxAsks[shown] /\ row[i] \in Down
    /\ \A j \in Siblings(i) : row[j] \in Down \cup {"running"}
    /\ row' = [row EXCEPT ![i] = "up"] /\ asks' = asks + 1
    /\ UNCHANGED <<shown, faults, pvNode, pvUp, pvState, pvLoop, lost, misled, crossed>>

AskStop(i) ==
    /\ asks < MaxAsks[shown] /\ row[i] \in {"up", "building", "ready", "running"}
    /\ row' = [row EXCEPT ![i] = "stopping"] /\ asks' = asks + 1
    /\ UNCHANGED <<shown, faults, pvNode, pvUp, pvState, pvLoop, lost, misled, crossed>>

Bound == {boxPort[k] : k \in {s \in Slot : box[s] # NoInst}}

\* The API's allocation: no live row has the port and the node does not use it.
Allocable(i) == {p \in HostPort \ Bound :
                   \A j \in Session \ {i} : port[j] = p => row[j] \in Down}

\* The API builds a session preview and starts its container.
ApiBuilds(i) ==
    /\ row[i] = "building"
    /\ \/ /\ \E p \in Allocable(i) :
               /\ box' = [box EXCEPT ![SlotOf[i]] = i]
               /\ boxPort' = [boxPort EXCEPT ![SlotOf[i]] = p]
               /\ port' = [port EXCEPT ![i] = p]
          /\ apps' = apps \cup {SlotOf[i]}
          /\ row' = [row EXCEPT ![i] = "ready"]
          /\ UNCHANGED faults
       \/ /\ Fault /\ row' = [row EXCEPT ![i] = "failed"]
          /\ UNCHANGED <<apps, box, boxPort, port>>
    /\ UNCHANGED <<shown, asks, route, flight, pvState, pvLoop, lost, misled, crossed>>

-----------------------------------------------------------------------------
(* Bringing an instance up.                                                 *)

Idle == hand = NoHand /\ sweep = {}

\* dispatch: the goroutine holds the claim of its instance.
DispatchUp(i) ==
    /\ Idle /\ row[i] = "up" /\ flight[i] = "none"
    /\ flight' = [flight EXCEPT ![i] = "fetch"]
    /\ UNCHANGED <<shown, pvApi, faults, pvNode, port, pvState, pvLoop, lost, misled, crossed>>

Land(i) == flight' = [flight EXCEPT ![i] = "none"]

\* A step of up that fails: reported, the claim released.
UpFails(i) == ReportTo(i, "failed") /\ Land(i)

\* Mutant: a port that can be bound is taken to be free.
FreeIfBindable(k) == Port \ Bound

\* allocatePort: no other tracked preview has it, and it can be bound.
Free(k) == {p \in Port : /\ \A s \in Slot \ {k} : active[s] # NoInst => stPort[s] # p
                         /\ p \notin Bound}

FindOrCreateApp(k) == apps' = apps \cup {k}

\* Snapshot, objects, repository, git port, application, host port.
UpFetch(i) ==
    LET k == SlotOf[i]
        p == CHOOSE q \in Free(k) : \A r \in Free(k) : q <= r
        also == {SlotOf[j] : j \in {x \in Instance \ (Siblings(i) \cup {i}) :
                                     port[x] = p /\ flight[x] \notin {"none", "fetch"}}}
    IN  /\ i \in Runtime /\ flight[i] = "fetch"
        /\ IF Free(k) = {}
             THEN UpFails(i) /\ UNCHANGED <<port, misled>>
             ELSE /\ port' = [port EXCEPT ![i] = p]
                  /\ misled' = IF also = {} THEN misled ELSE misled \cup also \cup {k}
                  /\ flight' = [flight EXCEPT ![i] = "deploy"]
                  /\ UNCHANGED <<row, faults, lost>>
        /\ FindOrCreateApp(k)
        /\ UNCHANGED <<shown, asks, box, boxPort, route, pvState, pvLoop, crossed>>

\* Session: the repository is served, and the API does the rest.
UpMaterialize(i) ==
    /\ i \in Session /\ flight[i] = "fetch"
    /\ ReportTo(i, "materialized") /\ Land(i)
    /\ UNCHANGED <<shown, asks, pvNode, port, pvState, pvLoop, misled, crossed>>

\* Something in between refuses: the API, Coolify, git, Caddy.
UpRefused(i) ==
    /\ flight[i] \in {"fetch", "deploy", "wire"} /\ faults < MaxFaults
    /\ faults' = faults + 1
    /\ row' = [row EXCEPT ![i] = After(row[i], "failed")] /\ Land(i)
    /\ UNCHANGED <<shown, asks, pvNode, port, pvState, pvLoop, lost, misled, crossed>>

\* awaitDeployment: the deployment fails if another container publishes the port.
PortTaken(k, p) == \E s \in Slot \ {k} : box[s] # NoInst /\ boxPort[s] = p

\* Coolify swaps the container of the application.
UpDeploy(i) ==
    LET k == SlotOf[i] IN
    /\ flight[i] = "deploy"
    /\ IF PortTaken(k, port[i])
         THEN UpFails(i) /\ UNCHANGED <<box, boxPort>>
         ELSE /\ box' = [box EXCEPT ![k] = i] /\ boxPort' = [boxPort EXCEPT ![k] = port[i]]
              /\ flight' = [flight EXCEPT ![i] = "ready"]
              /\ UNCHANGED <<row, faults, lost>>
    /\ UNCHANGED <<shown, asks, apps, route, port, pvState, pvLoop, misled, crossed>>

UpReady(i) ==
    /\ flight[i] = "ready"
    /\ IF port[i] \in Bound
         THEN flight' = [flight EXCEPT ![i] = "wire"] /\ UNCHANGED <<row, faults, lost>>
         ELSE UpFails(i)
    /\ UNCHANGED <<shown, asks, pvNode, port, pvState, pvLoop, misled, crossed>>

UpWire(i) ==
    /\ flight[i] = "wire"
    /\ route' = [route EXCEPT ![i] = port[i]]
    /\ flight' = [flight EXCEPT ![i] = "track"]
    /\ UNCHANGED <<shown, pvApi, faults, apps, box, boxPort, port, pvState, pvLoop, lost, misled, crossed>>

\* setActive, persist
Track(i) ==
    /\ active' = [active EXCEPT ![SlotOf[i]] = i] /\ file' = [file EXCEPT ![SlotOf[i]] = i]
    /\ stPort' = [stPort EXCEPT ![SlotOf[i]] = port[i]]
    /\ fails' = [fails EXCEPT ![SlotOf[i]] = 0]

UpTrack(i) ==
    /\ flight[i] = "track"
    /\ Track(i)
    /\ flight' = [flight EXCEPT ![i] = "report"]
    /\ UNCHANGED <<shown, pvApi, faults, pvNode, port, pvLoop, lost, misled, crossed>>

UpReport(i) ==
    /\ flight[i] = "report"
    /\ ReportTo(i, "running") /\ Land(i)
    /\ UNCHANGED <<shown, asks, pvNode, port, pvState, pvLoop, misled, crossed>>

\* Session, on the loop: the API's container gets its route.
RegisterRoute(i) ==
    /\ Idle /\ row[i] = "ready" /\ flight[i] = "none"
    /\ \/ /\ route' = [route EXCEPT ![i] = port[i]]
          /\ Track(i)
          /\ ReportTo(i, "routed")
       \/ /\ Fault /\ row' = [row EXCEPT ![i] = "failed"]
          /\ UNCHANGED <<route, pvState, lost>>
    /\ UNCHANGED <<shown, asks, apps, box, boxPort, pvUp, pvLoop, misled, crossed>>

-----------------------------------------------------------------------------
(* Stop, idle stop, sweep: the loop.                                        *)

Meets(i) == IF \E j \in Siblings(i) \cup {i} : flight[j] # "none" \/ (j # i /\ active[SlotOf[i]] = j)
              THEN crossed \cup {SlotOf[i]} ELSE crossed

\* stop: the tracked state of the mission, or what a scan by name finds.
RuntimeTarget(i) == IF active[SlotOf[i]] # NoInst THEN active[SlotOf[i]]
                    ELSE IF SlotOf[i] \in apps THEN i ELSE NoInst

\* A session preview is stopped by the application its item names.
SessionTarget(i) == IF SlotOf[i] \in apps THEN i ELSE NoInst

DispatchStop(i) ==
    LET who == IF i \in Runtime THEN RuntimeTarget(i) ELSE SessionTarget(i)
    IN  /\ Idle /\ row[i] = "stopping" /\ flight[i] = "none"
        /\ hand' = [inst |-> i, who |-> who, idle |-> FALSE,
                    step |-> IF who = NoInst THEN "clear" ELSE "container"]
        /\ crossed' = Meets(i)
        /\ UNCHANGED <<shown, pvApi, faults, pvNode, pvUp, pvState, sweep, lost, misled>>

\* Mutant: a stop that Coolify refused counts as done.
StopContainerBlindly ==
    LET k == SlotOf[hand.inst] IN
    /\ hand.step = "container"
    /\ \/ box' = [box EXCEPT ![k] = NoInst] /\ UNCHANGED faults
       \/ Fault /\ UNCHANGED box
    /\ hand' = [hand EXCEPT !.step = "route"]
    /\ crossed' = Meets(hand.inst)
    /\ UNCHANGED <<shown, pvApi, apps, boxPort, route, pvUp, pvState, sweep, lost, misled>>

StopContainer ==
    LET k == SlotOf[hand.inst] IN
    /\ hand.step = "container"
    /\ box' = [box EXCEPT ![k] = NoInst]
    /\ hand' = [hand EXCEPT !.step = "route"]
    /\ crossed' = Meets(hand.inst)
    /\ UNCHANGED <<shown, pvApi, faults, apps, boxPort, route, pvUp, pvState, sweep, lost, misled>>

RemoveRoute ==
    /\ hand.step = "route"
    /\ route' = [route EXCEPT ![hand.who] = NoPort]
    /\ hand' = [hand EXCEPT !.step = "clear"]
    /\ crossed' = Meets(hand.inst)
    /\ UNCHANGED <<shown, pvApi, faults, apps, box, boxPort, pvUp, pvState, sweep, lost, misled>>

\* Coolify or Caddy refuses: a stop of a runtime preview is reported failed,
\* a session's is offered again, an idle stop is tried by the next sweep.
StopRefused ==
    /\ hand.step \in {"container", "route"} /\ Fault
    /\ row' = IF hand.inst \in Runtime /\ ~hand.idle
                THEN [row EXCEPT ![hand.inst] = After(row[hand.inst], "failed")] ELSE row
    /\ hand' = NoHand
    /\ crossed' = Meets(hand.inst)
    /\ UNCHANGED <<shown, asks, pvNode, pvUp, pvState, sweep, lost, misled>>

\* clearActive, unpersist
Untrack(k) ==
    /\ active' = [active EXCEPT ![k] = NoInst] /\ file' = [file EXCEPT ![k] = NoInst]
    /\ UNCHANGED <<stPort, fails>>

ClearState ==
    /\ hand.step = "clear"
    /\ Untrack(SlotOf[hand.inst])
    /\ hand' = [hand EXCEPT !.step = "report"]
    /\ crossed' = Meets(hand.inst)
    /\ UNCHANGED <<shown, pvApi, faults, pvNode, pvUp, sweep, lost, misled>>

ReportStopped ==
    /\ hand.step = "report"
    /\ ReportTo(hand.inst, "stopped")
    /\ hand' = NoHand
    /\ UNCHANGED <<shown, asks, pvNode, pvUp, pvState, sweep, misled, crossed>>

\* SweepIdle takes its list under the lock and works on it without.
SweepIdle ==
    /\ Idle
    /\ sweep' = {[slot |-> k, inst |-> active[k], at |-> stPort[k], fails |-> fails[k]] :
                   k \in {s \in Slot : active[s] # NoInst}}
    /\ sweep' # {}
    /\ UNCHANGED <<shown, pvApi, faults, pvNode, pvUp, pvState, hand, lost, misled, crossed>>

Count(st, n) == fails' = IF active[st.slot] = st.inst THEN [fails EXCEPT ![st.slot] = n] ELSE fails

\* noteAccess: the access log grew.
Traffic(st) ==
    /\ st.at \in Bound
    /\ Count(st, 0)
    /\ UNCHANGED <<row, faults, lost, active, stPort, file, hand, crossed>>

\* idleExpired
IdleStop(st) ==
    /\ hand' = [inst |-> st.inst, who |-> st.inst, idle |-> TRUE, step |-> "container"]
    /\ crossed' = Meets(st.inst)
    /\ UNCHANGED <<row, faults, lost, pvState>>

\* probeAlive: the third failure gives the instance up.
ProbeAlive(st) ==
    /\ UNCHANGED hand
    /\ IF st.at \in Bound THEN /\ Count(st, 0)
                               /\ UNCHANGED <<row, faults, lost, active, stPort, file, crossed>>
       ELSE IF st.fails < 2 THEN /\ Count(st, st.fails + 1)
                                 /\ UNCHANGED <<row, faults, lost, active, stPort, file, crossed>>
       ELSE /\ Untrack(st.slot)
            /\ crossed' = Meets(st.inst)
            /\ ReportTo(st.inst, "failed")

\* An up of the slot replaced the state the sweep copied, or has wired its route
\* and is about to: the port the sweep puts back may be another preview's by now.
Outdated(st) == active[st.slot] # st.inst \/ stPort[st.slot] # st.at \/ flight[st.inst] = "track"

SweepOne(st) ==
    /\ hand = NoHand /\ st \in sweep
    /\ sweep' = sweep \ {st}
    /\ route' = [route EXCEPT ![st.inst] = st.at]
    /\ misled' = IF Outdated(st) THEN misled \cup {st.slot} ELSE misled
    /\ Traffic(st) \/ IdleStop(st) \/ ProbeAlive(st)
    /\ UNCHANGED <<shown, asks, apps, box, boxPort, pvUp>>

\* Caddy cannot be reached: this state is skipped.
SweepSkips(st) ==
    /\ hand = NoHand /\ st \in sweep /\ Fault
    /\ sweep' = sweep \ {st}
    /\ UNCHANGED <<shown, pvApi, pvNode, pvUp, pvState, hand, lost, misled, crossed>>

-----------------------------------------------------------------------------

Recover == active' = file /\ fails' = [k \in Slot |-> 0] /\ UNCHANGED stPort

Restart ==
    /\ Fault
    /\ flight' = [i \in Instance |-> "none"]
    /\ sweep' = {} /\ hand' = NoHand
    /\ Recover
    /\ lost' = lost \cup {i \in Instance : flight[i] = "report" \/ (hand.inst = i /\ hand.step = "report")}
    /\ UNCHANGED <<shown, pvApi, pvNode, port, file, misled, crossed>>

ContainerDies(k) ==
    /\ box[k] # NoInst /\ Fault
    /\ box' = [box EXCEPT ![k] = NoInst]
    /\ UNCHANGED <<shown, pvApi, apps, boxPort, route, pvUp, pvState, pvLoop, lost, misled, crossed>>

CaddyReloads ==
    /\ Fault
    /\ route' = [i \in Instance |-> NoPort]
    /\ UNCHANGED <<shown, pvApi, apps, box, boxPort, pvUp, pvState, pvLoop, lost, misled, crossed>>

PreviewInit ==
    /\ shown \in Shows
    /\ row = [i \in Instance |-> "off"] /\ asks = 0 /\ faults = 0
    /\ apps = {} /\ box = [k \in Slot |-> NoInst] /\ boxPort = [k \in Slot |-> NoPort]
    /\ route = [i \in Instance |-> NoPort]
    /\ flight = [i \in Instance |-> "none"] /\ port = [i \in Instance |-> NoPort]
    /\ active = [k \in Slot |-> NoInst] /\ stPort = [k \in Slot |-> NoPort]
    /\ file = [k \in Slot |-> NoInst] /\ fails = [k \in Slot |-> 0]
    /\ sweep = {} /\ hand = NoHand /\ lost = {} /\ misled = {} /\ crossed = {}

Goroutine(i) == \/ UpFetch(i) \/ UpMaterialize(i) \/ UpRefused(i) \/ UpDeploy(i) \/ UpReady(i)
                \/ UpWire(i) \/ UpTrack(i) \/ UpReport(i)

Dispatch(i) == DispatchUp(i) \/ DispatchStop(i) \/ RegisterRoute(i)

Loop == \/ StopContainer \/ RemoveRoute \/ StopRefused \/ ClearState \/ ReportStopped
        \/ \E st \in sweep : SweepOne(st) \/ SweepSkips(st)

PreviewNext ==
    \/ \E i \in Instance : Activate(i) \/ AskStop(i) \/ ApiBuilds(i) \/ Goroutine(i) \/ Dispatch(i)
    \/ Loop \/ SweepIdle \/ Restart \/ CaddyReloads
    \/ \E k \in Slot : ContainerDies(k)

PreviewSpec == PreviewInit /\ [][PreviewNext]_previewVars

-----------------------------------------------------------------------------
(* Properties.                                                              *)

Status == Down \cup {"up", "building", "ready", "running", "stopping"}

\* Types; a stop in progress concerns an instance and a slot it belongs to.
PreviewTypeOK ==
    /\ shown \in Shows /\ row \in [Instance -> Status] /\ asks \in 0..MaxAsks[shown] /\ faults \in 0..MaxFaults
    /\ apps \subseteq Slot /\ box \in [Slot -> Instance \cup {NoInst}]
    /\ boxPort \in [Slot -> AnyPort \cup {NoPort}] /\ route \in [Instance -> AnyPort \cup {NoPort}]
    /\ flight \in [Instance -> {"none", "fetch", "deploy", "ready", "wire", "track", "report"}]
    /\ port \in [Instance -> AnyPort \cup {NoPort}]
    /\ active \in [Slot -> Instance \cup {NoInst}] /\ file \in [Slot -> Instance \cup {NoInst}]
    /\ stPort \in [Slot -> AnyPort \cup {NoPort}] /\ fails \in [Slot -> 0..2]
    /\ sweep \subseteq [slot : Slot, inst : Instance, at : AnyPort, fails : 0..2]
    /\ hand.step \in {"none", "container", "route", "clear", "report"}
    /\ hand.who # NoInst => SlotOf[hand.who] = SlotOf[hand.inst]
    /\ \A k \in Slot : active[k] # NoInst => SlotOf[active[k]] = k /\ k \in apps

\* The API may not have heard that another instance replaced this one.
Replacing(i) == \E j \in Siblings(i) : flight[j] = "report" \/ j \in lost

\* A preview the API calls running is tracked, so that the sweep restores its
\* route, stops it when it is idle and reports it when it is dead -- also after
\* a restart.  What is excused: a report was lost, which nothing repeats for a
\* running row, or a stop or a given-up probe met an up of the same slot.
RunningIsWatched ==
    \A i \in Instance :
        row[i] = "running" /\ i \notin lost /\ SlotOf[i] \notin crossed =>
            \/ active[SlotOf[i]] = i
            \/ hand.inst = i
            \/ Replacing(i)

\* A preview the API calls stopped has no container, no route and no state
\* file that a restart would adopt, with the same excuses.
StoppedLeavesNothing ==
    \A i \in Instance :
        row[i] = "stopped" /\ flight[i] = "none" /\ i \notin lost /\ SlotOf[i] \notin crossed =>
            box[SlotOf[i]] # i /\ route[i] = NoPort /\ file[SlotOf[i]] # i

\* What the API says of a preview is what the node keeps of it, whether it runs
\* or was stopped.
PreviewsAreAccounted == RunningIsWatched /\ StoppedLeavesNothing

\* The host of a running preview leads to its own container or nowhere, never
\* to the container of another preview that was given the same port.  Excused
\* besides: allocatePort reserves nothing, so two ups in flight may get one port;
\* a sweep routes by the states it copied, one of which an up may have replaced
\* since; and the API may not have heard yet that the instance was replaced.
LeadsHome ==
    \A i \in Instance, k \in Slot :
        row[i] = "running" /\ SlotOf[i] \notin misled \cup crossed /\ i \notin lost
        /\ ~Replacing(i) /\ box[k] # NoInst /\ boxPort[k] = route[i] => k = SlotOf[i]

=============================================================================
