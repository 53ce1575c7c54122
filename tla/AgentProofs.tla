----------------------------- MODULE AgentProofs -----------------------------
(***************************************************************************)
(* What the runs of NodeAgent check, for any number of endpoints,          *)
(* deployments and sandboxes.  One work item of a row is at work at a      *)
(* time: it is in the batch, in the synchronous handler or in a goroutine. *)
(* From that follows what the row's state may be meanwhile, and so what    *)
(* the handler takes down or sets up.                                      *)
(***************************************************************************)
EXTENDS NodeAgent, FiniteSetTheorems, TLAPS

\* The synchronous handler is at work on w.
Handles(w) == cur # NoItem /\ cur.id = w

-----------------------------------------------------------------------------
(* Types, by kind of row.                                                   *)

DeploymentState == {"absent", "new", "materialize", "register_route", "ready", "unrouting",
                    "stopping", "stopped", "releasing", "gone", "failed"}
SandboxState == {"absent", "new", "sandbox_up", "up", "sandbox_destroy", "destroyed"}

SandboxAction == {"sandbox_up", "sandbox_destroy"}

ApiTypes ==
    /\ userNode \in BOOLEAN /\ refused \subseteq {"caddy", "docker"}
    /\ row \in [Work -> RowState]
    /\ \A d \in Deployment : row[d] \in DeploymentState
    /\ \A s \in Sandbox : row[s] \in SandboxState
    /\ artifact \in [Sandbox -> {"none", "available", "failed"}]
    /\ bootKnown \subseteq Endpoint /\ unheard \in BOOLEAN
    /\ rotated \subseteq Endpoint /\ IsFiniteSet(rotated)
    /\ lost \in Nat /\ crashes \in Nat /\ asked \in 0..MaxUser
    /\ lost + crashes <= MaxTrouble

LoopTypes ==
    /\ loop \in {"select", "pass", "watermark", "exited"} /\ toPoll \subseteq Endpoint
    /\ nudge \in BOOLEAN
    /\ wait \in [Endpoint -> 0..MaxGap] /\ idle \in [Endpoint -> 1..MaxIdle]
    /\ disabled \subseteq Endpoint

ItemTypes ==
    /\ batch \subseteq Item
    /\ \A i \in batch : i.id \in Sandbox <=> i.action \in SandboxAction
    /\ cur = NoItem \/ cur \in Handler
    /\ cur # NoItem => (cur.id \in Sandbox <=> cur.action \in SandboxAction)
    /\ claimed \subseteq Work
    /\ mat \in [Deployment -> {"none", "manifest", "tree", "load", "serve", "materialized",
                               "materialize_failed"}]

NodeTypes ==
    /\ repo \subseteq Deployment /\ served \subseteq Deployment
    /\ running \subseteq Work /\ kept \cup images \subseteq Deployment /\ route \subseteq Deployment
    /\ fails \in [Deployment -> 0..2] /\ unprobed \subseteq Deployment
    /\ old \subseteq Deployment /\ exported \subseteq Sandbox

AgentTypes == ApiTypes /\ LoopTypes /\ ItemTypes /\ NodeTypes

-----------------------------------------------------------------------------
(* One item of a row at a time.                                             *)

\* An item that waits or is handled has its place to itself; a goroutine and the
\* handler of one row exclude each other by the claim.
ItemInv ==
    /\ loop # "pass" => batch = {} /\ cur = NoItem
    /\ \A i, j \in batch : i.id = j.id => i = j
    /\ \A i \in batch : ~Handles(i.id)
    /\ cur # NoItem => cur.id \in claimed
    /\ \A d \in Deployment : mat[d] # "none" => d \in claimed /\ ~Handles(d)
    /\ userNode /\ cur # NoItem => cur.id \in Deployment

\* The states a row may be in between the poll that offered the item and the
\* report of its handler, on a node that is its user's or not.
Meanwhile(users, action) ==
    CASE action = "materialize" -> {"materialize", "register_route", "failed", "releasing"}
      [] action = "release" -> {"releasing"}
      [] action = "stop" -> {"stopping", "stopped", "materialize", "releasing"}
      [] action = "remove_route" -> {"unrouting", "materialize", "releasing"}
      [] action = "probe" -> IF users THEN {"ready", "stopping", "stopped", "materialize", "releasing"}
                             ELSE {"ready", "unrouting", "releasing"}
      [] action = "sandbox_destroy" -> {"sandbox_destroy"}
      [] action = "sandbox_up" -> {"sandbox_up", "sandbox_destroy"}
      [] OTHER -> RowState \ {"gone", "destroyed"}

RowInv ==
    /\ \A i \in batch : row[i.id] \in Meanwhile(userNode, i.action)
    /\ cur # NoItem => row[cur.id] \in Meanwhile(userNode, cur.action)
    /\ \A d \in Deployment : mat[d] # "none" => row[d] \in Meanwhile(userNode, "materialize")
    /\ \A i \in batch : i.action \in {"stop", "remove_route", "probe"} => mat[i.id] = "none"

\* How far a handler got says which handler it is.
AtInv ==
    cur # NoItem =>
        /\ cur.at \in {"teardown", "released"} => cur.action = "release"
        /\ cur.at = "route_registered" => cur.action = "register_route"
        /\ cur.at = "runtime_fail" => cur.action = "probe"
        /\ cur.at = "stop_done" => cur.action = "stop"
        /\ cur.at = "route_removed" => cur.action = "remove_route"
        /\ cur.at \in {"sandbox_up", "sandbox_up_failed"} => cur.action = "sandbox_up"
        /\ cur.at \in {"exported", "sandbox_destroy", "sandbox_destroy_failed"} =>
              cur.action = "sandbox_destroy"
        /\ cur.status # "none" => cur.at \in {"exported", "sandbox_destroy", "sandbox_destroy_failed"}
        /\ cur.at = "sandbox_destroy_failed" => refused # {}

-----------------------------------------------------------------------------
(* What a row's end leaves behind.                                          *)

Unrouted(d) == "caddy" \notin refused => d \notin route

Bare(d) ==
    /\ d \notin repo \cup served
    /\ "docker" \notin refused => d \notin running \cup kept \cup images

ReleaseInv ==
    \A d \in Deployment :
        /\ row[d] = "gone" => mat[d] = "none" /\ Bare(d) /\ Unrouted(d)
        /\ Handles(d) /\ cur.at = "teardown" => Unrouted(d)
        /\ Handles(d) /\ cur.at = "released" => Bare(d) /\ Unrouted(d)

\* Nothing was lost, refused or interrupted so far.
Clean == lost = 0 /\ crashes = 0 /\ refused = {}

SandboxInv ==
    \A s \in Sandbox :
        /\ row[s] = "destroyed" => s \notin running
        /\ Handles(s) /\ cur.at \in {"sandbox_up_failed", "sandbox_destroy"} => s \notin running
        /\ artifact[s] = "available" => s \in exported
        /\ Handles(s) /\ cur.status = "available" => s \in exported
        /\ artifact[s] # "none" => row[s] = "destroyed"
        /\ artifact[s] = "failed" /\ Clean => s \notin exported
        /\ Handles(s) /\ cur.status = "failed" /\ Clean => s \notin exported \/ EndpointOf[s] \in rotated
        /\ Handles(s) /\ cur.at \in {"sandbox_destroy", "exported"} => cur.status # "none"
        /\ Clean /\ s \in exported /\ row[s] # "destroyed" =>
              \/ Handles(s) /\ cur.status = "available"
              \/ EndpointOf[s] \in rotated
        /\ userNode => s \notin running

-----------------------------------------------------------------------------
(* What a live row has.                                                     *)

LiveInv ==
    \A d \in Deployment :
        /\ mat[d] \in {"load", "serve", "materialized"} => d \in repo
        /\ mat[d] = "materialized" => IF userNode THEN d \in running ELSE d \in served
        /\ Handles(d) /\ cur.at = "route_registered" => d \in route

-----------------------------------------------------------------------------
(* Probes.                                                                  *)

\* Without a user and without a lost watermark: a row that starts a life has at
\* most one failure behind it, and an endpoint that does not know this process is
\* polled once.
StreakInv ==
    ~userNode /\ ~unheard =>
        /\ loop = "select" => Endpoint \subseteq bootKnown \cup disabled
        /\ \A d \in Deployment :
              /\ d \in unprobed => fails[d] <= 1
              /\ row[d] \notin {"ready", "unrouting", "stopped", "releasing", "gone"} => fails[d] <= 1
              /\ mat[d] # "none" => fails[d] <= 1
              /\ \A i \in batch : i.id = d /\ i.action = "materialize" => fails[d] <= 1
              /\ EndpointOf[d] \notin bootKnown =>
                    /\ fails[d] <= 1
                    /\ loop = "pass" /\ EndpointOf[d] \in toPoll => fails[d] = 0 /\ ~Handles(d)
                    /\ \A i \in batch : i.id = d => fails[d] = 0
                    /\ Handles(d) /\ cur.at = "begin" => fails[d] = 0
                    /\ \A i \in batch : i.id = d => EndpointOf[d] \notin toPoll
                    /\ Handles(d) => EndpointOf[d] \notin toPoll
              
DeadInv ==
    \A d \in Deployment :
        Handles(d) /\ cur.at = "runtime_fail" => d \notin unprobed /\ fails[d] = 0

AgentInv == /\ AgentTypes /\ ItemInv /\ RowInv /\ AtInv /\ ReleaseInv /\ SandboxInv /\ LiveInv
            /\ StreakInv /\ DeadInv /\ LiveRowIsServed

-----------------------------------------------------------------------------
(* Constants, and what an item and an event can be about.                   *)

\* What the named assumption says of the rows.
LEMMA AgentConstants ==
    /\ Work = Deployment \cup Sandbox /\ Deployment \cap Sandbox = {}
    /\ EndpointOf \in [Work -> Endpoint] /\ Endpoint \subseteq Nat
    /\ NoItem \notin Handler
    /\ MaxIdle \in Nat /\ MaxIdle >= 1 /\ MaxGap \in Nat /\ MaxGap >= 1
    /\ MaxTrouble \in Nat /\ MaxUser \in Nat
    /\ \A s \in Populations : s \subseteq Work
BY NodeAgentAssumption DEF Work

\* A deployment's states and a sandbox's are states of a row.
LEMMA Kinds == DeploymentState \subseteq RowState /\ SandboxState \subseteq RowState
BY DEF DeploymentState, SandboxState, RowState

\* An event leaves a row among the states of its kind.
LEMMA AfterKeepsKind ==
    ASSUME NEW r, NEW event
    PROVE  /\ r \in DeploymentState => After(r, event) \in DeploymentState
           /\ r \in SandboxState => After(r, event) \in SandboxState
BY DEF After, DeploymentState, SandboxState

\* Trouble has room for one more.
LEMMA TroubleLeft == ASSUME ApiTypes, Trouble PROVE lost + crashes < MaxTrouble
<1>1. Cardinality(rotated) \in Nat
    BY FS_CardinalityType DEF ApiTypes
<1>2. IsFiniteSet({"caddy", "docker"})
    <2>1. IsFiniteSet({} \cup {"caddy"})
        BY FS_EmptySet, FS_AddElement
    <2>2. IsFiniteSet(({} \cup {"caddy"}) \cup {"docker"})
        BY <2>1, FS_AddElement
    <2>3. {"caddy", "docker"} = ({} \cup {"caddy"}) \cup {"docker"}
        OBVIOUS
    <2> QED BY <2>2, <2>3
<1>3. Cardinality(refused) \in Nat
    BY <1>2, FS_Subset, FS_CardinalityType DEF ApiTypes
<1> QED BY <1>1, <1>3, AgentConstants DEF ApiTypes, Trouble

\* What an answer offers: one item of each row, as the row says.
LEMMA AnswersOffer ==
    ASSUME NEW e, NEW items \in Answers(e)
    PROVE  /\ \A i \in items : /\ i = [id |-> i.id, action |-> i.action]
                               /\ i.id \in Work /\ EndpointOf[i.id] = e
                               /\ i.action \in Offered(row[i.id])
           /\ \A i, j \in items : i.id = j.id => i = j
<1> DEFINE rows == {w \in Work : EndpointOf[w] = e /\ Offered(row[w]) # {}}
           Choices == {g \in [rows -> UNION {Offered(row[w]) : w \in rows}] :
                         \A w \in rows : g[w] \in Offered(row[w])}
<1>1. items \in {{[id |-> w, action |-> f[w]] : w \in rows} : f \in Choices}
    BY DEF Answers
<1> HIDE DEF Choices
<1>2. PICK f \in Choices : items = {[id |-> w, action |-> f[w]] : w \in rows}
    BY <1>1
<1>3. \A w \in rows : f[w] \in Offered(row[w])
    BY DEF Choices
<1>4. \A i \in items : \E w \in rows : i = [id |-> w, action |-> f[w]]
    BY <1>2
<1> QED BY <1>3, <1>4

\* What a row offers, it offers in a state that goes with the item.
LEMMA OfferedFits ==
    ASSUME NEW r \in RowState, NEW action \in Offered(r)
    PROVE  /\ action \in SyncAction \cup {"materialize"} /\ r \in Meanwhile(userNode, action)
           /\ r \in SandboxState <=> action \in SandboxAction
           /\ action = "materialize" => r = "materialize"
           /\ action = "probe" => r = "ready"
           /\ action = "stop" => r = "stopping"
           /\ action = "remove_route" => r = "unrouting"
BY DEF Offered, RowState, SyncAction, Meanwhile, SandboxState, SandboxAction

\* One field of a handler is assigned.
LEMMA AtAssigned ==
    ASSUME NEW c \in Handler, NEW at \in HandlerAt, NEW g, g = [c EXCEPT !.at = at]
    PROVE  g \in Handler /\ g.id = c.id /\ g.action = c.action /\ g.status = c.status /\ g.at = at
BY DEF Handler

LEMMA ExportAssigned ==
    ASSUME NEW c \in Handler, NEW status \in {"available", "failed"}, NEW g,
           g = [c EXCEPT !.at = "exported", !.status = status]
    PROVE  g \in Handler /\ g.id = c.id /\ g.action = c.action /\ g.status = status /\ g.at = "exported"
BY DEF Handler, HandlerAt

-----------------------------------------------------------------------------
(* Actions in groups, with what each group may change.                      *)

\* The steps of the synchronous handler before its report.
HandlerStep == \/ RegisterRoute \/ AssertRoute \/ RemoveRoute \/ HandleStop
               \/ ReleaseRoute \/ Teardown \/ ProbeAnswered \/ ProbeRefused
               \/ SandboxUp \/ ExportWorkspace \/ SandboxDestroy

\* It stays with its item, and what was refused stays refused.
LEMMA HandlerFrame ==
    ASSUME ItemTypes, ApiTypes, HandlerStep
    PROVE  /\ cur \in Handler /\ cur' \in Handler /\ cur' # NoItem /\ cur # NoItem
           /\ cur'.id = cur.id /\ cur'.action = cur.action
           /\ cur'.at # "begin" /\ cur.at \in {"begin", "teardown", "exported"}
           /\ refused \subseteq refused' /\ refused' \subseteq {"caddy", "docker"}
           /\ UNCHANGED <<row, artifact, bootKnown, unheard, rotated, userNode, lost, crashes,
                          asked, loop, toPoll, batch, nudge, wait, idle, disabled, claimed, mat>>
<1> USE AgentConstants DEF ItemTypes, ApiTypes, Doing, Step, Unmoved, apivars
<1>1. cur # NoItem /\ cur \in Handler
    BY DEF HandlerStep, RegisterRoute, AssertRoute, RemoveRoute, HandleStop, ReleaseRoute, Teardown,
           ProbeAnswered, ProbeRefused, SandboxUp, ExportWorkspace, SandboxDestroy
<1>2. /\ cur.at \in {"begin", "teardown", "exported"}
      /\ UNCHANGED <<row, artifact, bootKnown, unheard, rotated, userNode, lost, crashes,
                     asked, loop, toPoll, batch, nudge, wait, idle, disabled, claimed, mat>>
    BY DEF HandlerStep, RegisterRoute, AssertRoute, RemoveRoute, HandleStop, ReleaseRoute, Teardown,
           ProbeAnswered, ProbeRefused, SandboxUp, ExportWorkspace, SandboxDestroy
<1>3. refused \subseteq refused' /\ refused' \subseteq {"caddy", "docker"}
    BY DEF HandlerStep, RegisterRoute, AssertRoute, RemoveRoute, HandleStop, ReleaseRoute, Teardown,
           ProbeAnswered, ProbeRefused, SandboxUp, ExportWorkspace, SandboxDestroy, Upsert, Refuses
<1>4. \/ \E at \in HandlerAt \ {"begin"} : cur' = [cur EXCEPT !.at = at]
      \/ \E status \in {"available", "failed"} : cur' = [cur EXCEPT !.at = "exported", !.status = status]
    <2>1. CASE RegisterRoute \/ AssertRoute
        BY <2>1 DEF RegisterRoute, AssertRoute, Upsert, HandlerAt
    <2>2. CASE RemoveRoute \/ HandleStop \/ ReleaseRoute \/ Teardown
        BY <2>2 DEF RemoveRoute, HandleStop, ReleaseRoute, Teardown, HandlerAt
    <2>3. CASE ProbeAnswered \/ ProbeRefused
        BY <2>3 DEF ProbeAnswered, ProbeRefused, HandlerAt
    <2>4. CASE SandboxUp \/ SandboxDestroy
        BY <2>4 DEF SandboxUp, SandboxDestroy, HandlerAt
    <2>5. CASE ExportWorkspace
        BY <2>5 DEF ExportWorkspace
    <2> QED BY <2>1, <2>2, <2>3, <2>4, <2>5 DEF HandlerStep
<1>5. cur' \in Handler /\ cur'.id = cur.id /\ cur'.action = cur.action /\ cur'.at # "begin"
    <2>1. ASSUME NEW at \in HandlerAt \ {"begin"}, cur' = [cur EXCEPT !.at = at]
          PROVE  cur' \in Handler /\ cur'.id = cur.id /\ cur'.action = cur.action /\ cur'.at # "begin"
        BY ONLY <1>1, <2>1, AtAssigned
    <2>2. ASSUME NEW status \in {"available", "failed"},
                 cur' = [cur EXCEPT !.at = "exported", !.status = status]
          PROVE  cur' \in Handler /\ cur'.id = cur.id /\ cur'.action = cur.action /\ cur'.at # "begin"
        BY ONLY <1>1, <2>2, ExportAssigned
    <2> QED BY ONLY <1>4, <2>1, <2>2
<1> QED BY <1>1, <1>2, <1>3, <1>5

\* What an action may do to w and to nothing else on the node.
Touches(w) ==
    /\ \A x \in Work \ {w} :
          /\ x \in repo' <=> x \in repo
          /\ x \in served' <=> x \in served
          /\ x \in running' <=> x \in running
          /\ x \in kept' <=> x \in kept
          /\ x \in images' <=> x \in images
          /\ x \in route' <=> x \in route
          /\ x \in exported' <=> x \in exported
          /\ x \in unprobed' <=> x \in unprobed
    /\ \A d \in Deployment \ {w} : fails'[d] = fails[d]

\* A handler changes what is its own row's.
LEMMA HandlerTouches ==
    ASSUME ItemTypes, NodeTypes, HandlerStep
    PROVE  Touches(cur.id) /\ NodeTypes'
<1> USE AgentConstants DEF ItemTypes, NodeTypes, Doing, nodevars, probevars
<1>0. cur # NoItem /\ cur \in Handler /\ cur.id \in Work
      /\ (cur.action \notin SandboxAction => cur.id \in Deployment)
      /\ (cur.action \in SandboxAction => cur.id \in Sandbox)
    BY DEF HandlerStep, RegisterRoute, AssertRoute, RemoveRoute, HandleStop, ReleaseRoute, Teardown,
           ProbeAnswered, ProbeRefused, SandboxUp, ExportWorkspace, SandboxDestroy, Handler
<1>1. CASE RegisterRoute \/ AssertRoute
    BY <1>0, <1>1 DEF RegisterRoute, AssertRoute, Upsert, Touches, SandboxAction
<1>2. CASE RemoveRoute \/ ReleaseRoute
    BY <1>0, <1>2 DEF RemoveRoute, ReleaseRoute, Touches
<1>3. CASE HandleStop
    BY <1>0, <1>3 DEF HandleStop, Touches, SandboxAction
<1>4. CASE Teardown
    BY <1>0, <1>4 DEF Teardown, Purge, RemoveImages, Touches
<1>5. CASE ProbeAnswered
    BY <1>0, <1>5 DEF ProbeAnswered, Touches, SandboxAction
<1>6. CASE ProbeRefused
    <2>1. fails' \in [Deployment -> 0..2] /\ \A d \in Deployment \ {cur.id} : fails'[d] = fails[d]
        BY <1>0, <1>6 DEF ProbeRefused, SandboxAction, Smaller
    <2> QED BY <1>0, <1>6, <2>1 DEF ProbeRefused, Touches
<1>7. CASE SandboxUp \/ SandboxDestroy
    BY <1>0, <1>7 DEF SandboxUp, SandboxDestroy, Touches
<1>8. CASE ExportWorkspace
    BY <1>0, <1>8 DEF ExportWorkspace, Touches, SandboxAction
<1> QED BY <1>1, <1>2, <1>3, <1>4, <1>5, <1>6, <1>7, <1>8 DEF HandlerStep

\* What a handler may do to the row it handles.
Removes(w) ==
    /\ w \in route /\ w \notin route' => cur.action \in {"remove_route", "release"}
    /\ w \in repo /\ w \notin repo' => cur.action = "release"
    /\ w \in served /\ w \notin served' => cur.action = "release"
    /\ w \in running /\ w \notin running' => cur.action \in {"stop", "release", "sandbox_destroy"}
    /\ w \notin running /\ w \in running' => cur.action = "sandbox_up" /\ cur'.at = "sandbox_up"

Reaches(w) ==
    /\ cur'.at = "teardown" => Unrouted(w)'
    /\ cur'.at = "released" => Bare(w)' /\ cur.at = "teardown" /\ route' = route
    /\ cur'.at = "route_registered" => w \in route'
    /\ cur'.at \in {"sandbox_up_failed", "sandbox_destroy"} => w \notin running'

Exports(w) ==
    /\ w \in exported => w \in exported'
    /\ w \in exported' => w \in exported \/ cur'.status = "available"
    /\ cur'.status = "available" /\ cur'.status # cur.status => w \in exported'
    /\ cur'.status # cur.status => cur.action = "sandbox_destroy" /\ cur.at = "begin" /\ cur'.at = "exported"
    /\ cur'.at = "exported" => cur'.status # "none" /\ cur.at = "begin"
    /\ cur'.at = "sandbox_destroy" => cur.at = "exported"

Probes(w) ==
    /\ w \in unprobed' => w \in unprobed
    /\ w \notin Deployment \/ fails'[w] = fails[w]
       \/ /\ cur.action = "probe" /\ cur.at = "begin" /\ fails'[w] <= fails[w] + 1 /\ w \notin unprobed'
    /\ cur'.at = "runtime_fail" => w \notin unprobed' /\ fails'[w] = 0 /\ fails[w] >= 2

LEMMA HandlerDoes ==
    ASSUME ItemTypes, ApiTypes, NodeTypes, AtInv, HandlerStep
    PROVE  AtInv' /\ Removes(cur.id) /\ Reaches(cur.id) /\ Exports(cur.id) /\ Probes(cur.id)
<1>1. /\ cur \in Handler /\ cur' \in Handler /\ cur' # NoItem /\ cur # NoItem
      /\ cur'.id = cur.id /\ cur'.action = cur.action /\ cur.id \in Work
      /\ (cur.action \notin SandboxAction => cur.id \in Deployment)
      /\ (cur.action \in SandboxAction => cur.id \in Sandbox)
      /\ refused \subseteq refused' /\ refused' \subseteq {"caddy", "docker"}
    BY HandlerFrame, AgentConstants DEF ItemTypes, Handler
<1>2. \A at \in HandlerAt : Step(at) => cur'.at = at /\ cur'.status = cur.status
    BY <1>1, AtAssigned DEF Step
<1>3. \A status \in {"available", "failed"} :
        cur' = [cur EXCEPT !.at = "exported", !.status = status] => cur'.at = "exported" /\ cur'.status = status
    <2>1. ASSUME NEW status \in {"available", "failed"},
                 cur' = [cur EXCEPT !.at = "exported", !.status = status]
          PROVE  cur'.at = "exported" /\ cur'.status = status
        <3>1. cur \in Handler
            BY <1>1
        <3> QED BY ONLY <2>1, <3>1, ExportAssigned
    <2> QED BY ONLY <2>1
<1> USE <1>1 DEF Doing, Removes, Reaches, Exports, Probes
<1>4. CASE RegisterRoute
    <2>1. /\ cur.action = "register_route" /\ cur.at = "begin" /\ cur'.status = cur.status
          /\ \/ cur'.at = "route_registered" /\ route' = route \cup {cur.id}
             \/ cur'.at = "materialize_failed" /\ route' = route
        BY <1>2, <1>4 DEF RegisterRoute, Upsert, HandlerAt
    <2>2. UNCHANGED <<repo, served, running, kept, images, fails, old, unprobed, exported>>
        BY <1>4 DEF RegisterRoute, probevars
    <2>3. AtInv'
        BY <2>1 DEF AtInv
    <2> QED BY <2>1, <2>2, <2>3
<1>5. CASE AssertRoute
    <2>1. /\ cur.action = "assert_route" /\ cur.at = "begin" /\ cur'.status = cur.status
          /\ cur'.at = "silent" /\ route \subseteq route'
        BY <1>2, <1>5 DEF AssertRoute, Upsert, HandlerAt
    <2>2. UNCHANGED <<repo, served, running, kept, images, fails, old, unprobed, exported>>
        BY <1>5 DEF AssertRoute, probevars
    <2>3. AtInv'
        BY <2>1 DEF AtInv
    <2> QED BY <2>1, <2>2, <2>3
<1>6. CASE RemoveRoute
    <2>1. /\ cur.action = "remove_route" /\ cur.at = "begin" /\ cur'.status = cur.status
          /\ cur'.at \in {"route_removed", "materialize_failed"}
        BY <1>2, <1>6 DEF RemoveRoute, HandlerAt
    <2>2. UNCHANGED <<repo, served, running, kept, images, fails, old, unprobed, exported>>
        BY <1>6 DEF RemoveRoute, probevars
    <2>3. AtInv'
        BY <2>1 DEF AtInv
    <2> QED BY <2>1, <2>2, <2>3
<1>7. CASE HandleStop
    <2>1. /\ cur.action = "stop" /\ cur.at = "begin" /\ cur'.status = cur.status
          /\ cur'.at \in {"stop_done", "silent"} /\ running' \subseteq running
        BY <1>2, <1>7 DEF HandleStop, HandlerAt
    <2>2. UNCHANGED <<repo, served, images, route, fails, old, unprobed, exported>>
        BY <1>7 DEF HandleStop, probevars
    <2>3. AtInv'
        BY <2>1 DEF AtInv
    <2> QED BY <2>1, <2>2, <2>3
<1>8. CASE ReleaseRoute
    <2>1. /\ cur.action = "release" /\ cur.at = "begin" /\ cur'.status = cur.status
          /\ cur'.at = "teardown" /\ Unrouted(cur.id)'
        BY <1>2, <1>8 DEF ReleaseRoute, HandlerAt, Refuses, Unrouted
    <2>2. UNCHANGED <<repo, served, running, kept, images, fails, old, unprobed, exported>>
        BY <1>8 DEF ReleaseRoute, probevars
    <2>3. AtInv'
        BY <2>1 DEF AtInv
    <2> QED BY <2>1, <2>2, <2>3
<1>9. CASE Teardown
    <2>1. /\ cur.action = "release" /\ cur.at = "teardown" /\ cur'.status = cur.status
          /\ cur'.at = "released" /\ running' \subseteq running
        BY <1>2, <1>9 DEF Teardown, HandlerAt, AtInv, Purge
    <2>2. UNCHANGED <<route, fails, old, unprobed, exported>> /\ Bare(cur.id)'
        BY <1>9 DEF Teardown, probevars, Bare, Refuses, Purge, RemoveImages
    <2>3. AtInv'
        BY <2>1 DEF AtInv
    <2> QED BY <2>1, <2>2, <2>3
<1>10. CASE ProbeAnswered
    <2>1. /\ cur.action = "probe" /\ cur.at = "begin" /\ cur'.status = cur.status
          /\ cur'.at = "silent" /\ cur.id \in Deployment
        BY <1>2, <1>10 DEF ProbeAnswered, HandlerAt, SandboxAction
    <2>2. UNCHANGED <<repo, served, running, kept, images, route, exported>>
          /\ unprobed' = unprobed \ {cur.id} /\ fails'[cur.id] = 0 /\ fails[cur.id] \in 0..2
        BY <1>10, <2>1 DEF ProbeAnswered, nodevars, NodeTypes
    <2>3. AtInv'
        BY <2>1 DEF AtInv
    <2> QED BY <2>1, <2>2, <2>3
<1>11. CASE ProbeRefused
    <2>1. /\ cur.action = "probe" /\ cur.at = "begin" /\ cur'.status = cur.status
          /\ cur'.at \in {"silent", "runtime_fail"} /\ cur.id \in Deployment
        BY <1>2, <1>11 DEF ProbeRefused, HandlerAt, SandboxAction
    <2>2. UNCHANGED <<repo, served, running, kept, images, route, exported>>
          /\ unprobed' = unprobed \ {cur.id} /\ fails[cur.id] \in 0..2
        BY <1>11, <2>1 DEF ProbeRefused, nodevars, NodeTypes
    <2>3. /\ fails'[cur.id] <= fails[cur.id] + 1
          /\ cur'.at = "runtime_fail" => fails'[cur.id] = 0 /\ fails[cur.id] >= 2
        <3>1. CASE StreakDead(cur.id)
            BY <1>11, <2>1, <2>2, <3>1 DEF ProbeRefused, StreakDead, NodeTypes
        <3>2. CASE ~StreakDead(cur.id)
            BY <1>2, <1>11, <2>1, <2>2, <3>2 DEF ProbeRefused, NodeTypes, Smaller, HandlerAt
        <3> QED BY <3>1, <3>2
    <2>4. AtInv'
        BY <2>1 DEF AtInv
    <2> QED BY <2>1, <2>2, <2>3, <2>4
<1>12. CASE SandboxUp
    <2>1. /\ cur.action = "sandbox_up" /\ cur.at = "begin" /\ cur'.status = cur.status
          /\ \/ cur'.at = "sandbox_up" /\ running' = running \cup {cur.id}
             \/ cur'.at = "sandbox_up_failed" /\ running' = running /\ cur.id \notin running
        BY <1>2, <1>12 DEF SandboxUp, HandlerAt
    <2>2. UNCHANGED <<repo, served, kept, images, route, fails, old, unprobed, exported>>
        BY <1>12 DEF SandboxUp, probevars
    <2>3. AtInv'
        BY <2>1 DEF AtInv
    <2> QED BY <2>1, <2>2, <2>3
<1>13. CASE ExportWorkspace
    <2>1. /\ cur.action = "sandbox_destroy" /\ cur.at = "begin" /\ cur'.at = "exported"
          /\ \/ cur'.status = "available" /\ exported' = exported \cup {cur.id}
             \/ cur'.status = "failed" /\ exported' = exported
        BY <1>3, <1>13 DEF ExportWorkspace
    <2>2. UNCHANGED <<repo, served, running, kept, images, route, fails, old, unprobed>>
        BY <1>13 DEF ExportWorkspace, nodevars, probevars
    <2>3. AtInv'
        BY <2>1 DEF AtInv
    <2> QED BY <2>1, <2>2, <2>3
<1>14. CASE SandboxDestroy
    <2>1. /\ cur.action = "sandbox_destroy" /\ cur.at = "exported" /\ cur'.status = cur.status
          /\ \/ cur'.at = "sandbox_destroy" /\ running' = running \ {cur.id}
             \/ cur'.at = "sandbox_destroy_failed" /\ running' = running /\ refused' # {}
        BY <1>2, <1>14 DEF SandboxDestroy, HandlerAt, AtInv, Refuses
    <2>2. UNCHANGED <<repo, served, kept, images, route, fails, old, unprobed, exported>>
        BY <1>14 DEF SandboxDestroy, probevars
    <2>3. AtInv'
        BY <2>1 DEF AtInv
    <2> QED BY <2>1, <2>2, <2>3
<1> QED BY <1>4, <1>5, <1>6, <1>7, <1>8, <1>9, <1>10, <1>11, <1>12, <1>13, <1>14 DEF HandlerStep

-----------------------------------------------------------------------------
(* The steps of the synchronous handler keep the invariant.                 *)

\* Being handled, and being handled how far, as far as other rows are concerned.
LEMMA HandlerKeepsRows ==
    ASSUME AgentTypes, ItemInv, RowInv, HandlerStep
    PROVE  ApiTypes' /\ LoopTypes' /\ ItemTypes' /\ ItemInv' /\ RowInv'
<1> USE HandlerFrame DEF AgentTypes
<1>1. ApiTypes'
    BY DEF ApiTypes
<1>2. LoopTypes'
    BY DEF LoopTypes
<1>3. ItemTypes'
    BY DEF ItemTypes
<1>4. ItemInv'
    BY DEF ItemInv, Handles
<1>5. RowInv'
    BY DEF RowInv
<1> QED BY <1>1, <1>2, <1>3, <1>4, <1>5

\* A row that is handled is not over, and no goroutine is at work on it.
LEMMA HandledRow ==
    ASSUME AgentTypes, ItemInv, RowInv, cur # NoItem
    PROVE  /\ cur.id \in Work /\ row[cur.id] \notin {"gone", "destroyed"}
           /\ cur.id \in Deployment => mat[cur.id] = "none"
           /\ cur.id \in Sandbox <=> cur.action \in SandboxAction
           /\ cur.action = "release" => row[cur.id] = "releasing"
           /\ cur.action = "stop" => row[cur.id] \in {"stopping", "stopped", "materialize", "releasing"}
           /\ cur.action = "remove_route" => row[cur.id] \in {"unrouting", "materialize", "releasing"}
           /\ cur.action = "sandbox_destroy" => row[cur.id] = "sandbox_destroy"
           /\ cur.action = "sandbox_up" => row[cur.id] \in {"sandbox_up", "sandbox_destroy"}
<1>1. cur \in Handler /\ (cur.id \in Sandbox <=> cur.action \in SandboxAction) /\ cur.action \in SyncAction
      /\ cur.id \in Work
    BY DEF AgentTypes, ItemTypes, Handler
<1>2. row[cur.id] \in Meanwhile(userNode, cur.action)
    BY DEF RowInv
<1>3. row[cur.id] \notin {"gone", "destroyed"}
    BY <1>1, <1>2 DEF Meanwhile, SyncAction
<1>4. cur.id \in Deployment => mat[cur.id] = "none"
    BY DEF ItemInv, Handles
<1> QED BY <1>1, <1>2, <1>3, <1>4 DEF Meanwhile

LEMMA HandlerKeepsRelease ==
    ASSUME AgentInv, HandlerStep
    PROVE  ReleaseInv'
<1>1. Touches(cur.id) /\ Reaches(cur.id) /\ Removes(cur.id)
    BY HandlerTouches, HandlerDoes DEF AgentInv, AgentTypes
<1>2. cur # NoItem /\ cur'.id = cur.id /\ cur'.action = cur.action /\ refused \subseteq refused'
      /\ row' = row /\ mat' = mat
    BY HandlerFrame DEF AgentInv, AgentTypes
<1>3. cur.id \in Work /\ row[cur.id] # "gone"
    BY <1>2, HandledRow DEF AgentInv
<1> SUFFICES ASSUME NEW d \in Deployment
             PROVE  /\ row'[d] = "gone" => mat'[d] = "none" /\ Bare(d)' /\ Unrouted(d)'
                    /\ Handles(d)' /\ cur'.at = "teardown" => Unrouted(d)'
                    /\ Handles(d)' /\ cur'.at = "released" => Bare(d)' /\ Unrouted(d)'
    BY DEF ReleaseInv
<1>4. CASE d # cur.id
    <2>1. ~Handles(d)' /\ d \in Work
        BY <1>2, <1>4, AgentConstants DEF Handles
    <2>2. (Bare(d) => Bare(d)') /\ (Unrouted(d) => Unrouted(d)')
        BY <1>1, <1>2, <1>4, <2>1 DEF Bare, Unrouted, Touches
    <2> QED BY <1>2, <2>1, <2>2 DEF AgentInv, ReleaseInv
<1>5. CASE d = cur.id
    <2>1. cur'.at = "released" => Unrouted(d)'
        <3>1. cur.at = "teardown" /\ Handles(d) => Unrouted(d)
            BY DEF AgentInv, ReleaseInv
        <3> QED BY <1>1, <1>2, <1>5, <3>1 DEF Reaches, Unrouted, Handles
    <2> QED BY <1>1, <1>2, <1>3, <1>5, <2>1 DEF Reaches
<1> QED BY <1>4, <1>5

LEMMA HandlerKeepsLive ==
    ASSUME AgentInv, HandlerStep
    PROVE  LiveInv' /\ LiveRowIsServed'
<1>1. Touches(cur.id) /\ Reaches(cur.id) /\ Removes(cur.id)
    BY HandlerTouches, HandlerDoes DEF AgentInv, AgentTypes
<1>2. cur # NoItem /\ cur'.id = cur.id /\ cur'.action = cur.action
      /\ row' = row /\ mat' = mat /\ userNode' = userNode /\ bootKnown' = bootKnown
    BY HandlerFrame DEF AgentInv, AgentTypes
<1>3. /\ cur.id \in Deployment => mat[cur.id] = "none"
      /\ cur.id \in Sandbox <=> cur.action \in SandboxAction
      /\ cur.action = "release" => row[cur.id] = "releasing"
      /\ cur.action = "stop" => row[cur.id] \in {"stopping", "stopped", "materialize", "releasing"}
      /\ cur.action = "remove_route" => row[cur.id] \in {"unrouting", "materialize", "releasing"}
    BY <1>2, HandledRow DEF AgentInv
<1>4. ASSUME NEW d \in Deployment, d # cur.id
      PROVE  /\ ~Handles(d)' /\ (d \in repo' <=> d \in repo) /\ (d \in served' <=> d \in served)
             /\ (d \in running' <=> d \in running) /\ (d \in route' <=> d \in route)
    BY <1>1, <1>2, <1>4, AgentConstants DEF Touches, Handles
<1>5. LiveInv'
    <2>1. SUFFICES ASSUME NEW d \in Deployment
                   PROVE  /\ mat'[d] \in {"load", "serve", "materialized"} => d \in repo'
                          /\ mat'[d] = "materialized" => IF userNode' THEN d \in running' ELSE d \in served'
                          /\ Handles(d)' /\ cur'.at = "route_registered" => d \in route'
        BY DEF LiveInv
    <2>2. CASE d = cur.id
        BY <1>1, <1>2, <1>3, <2>2 DEF Reaches
    <2>3. CASE d # cur.id
        BY <1>2, <1>4, <2>3 DEF AgentInv, LiveInv
    <2> QED BY <2>2, <2>3
<1>6. LiveRowIsServed'
    <2>1. SUFFICES ASSUME NEW d \in Deployment
                   PROVE  /\ row[d] \in {"register_route", "ready"} /\ EndpointOf[d] \in bootKnown =>
                               d \in (IF userNode THEN repo' \cap running' ELSE repo' \cap served')
                          /\ row[d] = "ready" => d \in route'
        BY <1>2 DEF LiveRowIsServed
    <2>2. /\ row[d] \in {"register_route", "ready"} /\ EndpointOf[d] \in bootKnown =>
                d \in (IF userNode THEN repo \cap running ELSE repo \cap served)
          /\ row[d] = "ready" => d \in route
        BY DEF AgentInv, LiveRowIsServed
    <2>3. CASE d = cur.id
        <3>1. cur.action \notin SandboxAction
            BY <1>3, <2>3, AgentConstants
        <3> QED BY <1>1, <1>3, <2>2, <2>3, <3>1 DEF Removes, SandboxAction
    <2>4. CASE d # cur.id
        BY <1>4, <2>2, <2>4
    <2> QED BY <2>3, <2>4
<1> QED BY <1>5, <1>6

LEMMA HandlerKeepsSandboxes ==
    ASSUME AgentInv, HandlerStep
    PROVE  SandboxInv'
<1>1. Touches(cur.id) /\ Reaches(cur.id) /\ Removes(cur.id) /\ Exports(cur.id) /\ AtInv'
    BY HandlerTouches, HandlerDoes DEF AgentInv, AgentTypes
<1>2. /\ cur # NoItem /\ cur' # NoItem /\ cur'.id = cur.id /\ cur'.action = cur.action
      /\ row' = row /\ userNode' = userNode /\ artifact' = artifact /\ rotated' = rotated
      /\ (Clean' => Clean)
      /\ cur.status \in {"none", "available", "failed"} /\ cur'.status \in {"none", "available", "failed"}
    BY HandlerFrame DEF AgentInv, AgentTypes, Clean, Handler
<1>3. /\ row[cur.id] # "destroyed" /\ cur.id \in Work
      /\ cur.id \in Sandbox <=> cur.action \in SandboxAction
    BY <1>2, HandledRow DEF AgentInv
<1>4. userNode => cur.id \in Deployment
    BY <1>2 DEF AgentInv, ItemInv
<1> SUFFICES ASSUME NEW s \in Sandbox
             PROVE  /\ row'[s] = "destroyed" => s \notin running'
                    /\ Handles(s)' /\ cur'.at \in {"sandbox_up_failed", "sandbox_destroy"} => s \notin running'
                    /\ artifact'[s] = "available" => s \in exported'
                    /\ Handles(s)' /\ cur'.status = "available" => s \in exported'
                    /\ artifact'[s] # "none" => row'[s] = "destroyed"
                    /\ artifact'[s] = "failed" /\ Clean' => s \notin exported'
                    /\ Handles(s)' /\ cur'.status = "failed" /\ Clean' =>
                          s \notin exported' \/ EndpointOf[s] \in rotated'
                    /\ Handles(s)' /\ cur'.at \in {"sandbox_destroy", "exported"} => cur'.status # "none"
                    /\ Clean' /\ s \in exported' /\ row'[s] # "destroyed" =>
                          \/ Handles(s)' /\ cur'.status = "available"
                          \/ EndpointOf[s] \in rotated'
                    /\ userNode' => s \notin running'
    BY DEF SandboxInv
<1>5. /\ row[s] = "destroyed" => s \notin running
      /\ artifact[s] = "available" => s \in exported
      /\ Handles(s) /\ cur.status = "available" => s \in exported
      /\ artifact[s] # "none" => row[s] = "destroyed"
      /\ artifact[s] = "failed" /\ Clean => s \notin exported
      /\ Handles(s) /\ cur.status = "failed" /\ Clean => s \notin exported \/ EndpointOf[s] \in rotated
      /\ Handles(s) /\ cur.at \in {"sandbox_destroy", "exported"} => cur.status # "none"
      /\ Clean /\ s \in exported /\ row[s] # "destroyed" =>
            \/ Handles(s) /\ cur.status = "available"
            \/ EndpointOf[s] \in rotated
      /\ userNode => s \notin running
    BY DEF AgentInv, SandboxInv
<1>6. CASE s # cur.id
    <2>1. ~Handles(s)' /\ ~Handles(s) /\ s \in Work
        BY <1>2, <1>6, AgentConstants DEF Handles
    <2>2. (s \in running' <=> s \in running) /\ (s \in exported' <=> s \in exported)
        BY <1>1, <1>6, <2>1 DEF Touches
    <2> QED BY <1>2, <1>5, <2>1, <2>2
<1>7. CASE s = cur.id
    <2>1. /\ row[s] # "destroyed" /\ artifact[s] = "none" /\ Handles(s) /\ Handles(s)' /\ ~userNode
          /\ artifact[s] \in {"none", "available", "failed"}
        BY <1>2, <1>3, <1>4, <1>5, <1>7, AgentConstants DEF Handles, AgentInv, AgentTypes, ApiTypes
    <2>2. cur'.at = "sandbox_destroy" => cur'.status # "none"
        <3>1. ASSUME cur'.at = "sandbox_destroy" PROVE cur.at = "exported" /\ cur'.status = cur.status
            BY <1>1, <3>1 DEF Exports
        <3> QED BY <1>5, <2>1, <3>1
    <2>3. cur'.at = "exported" => cur'.status # "none"
        BY <1>1 DEF Exports
    <2>4. cur'.status = "available" => s \in exported'
        BY <1>1, <1>5, <1>7, <2>1 DEF Exports
    <2>5. cur'.status = "failed" /\ Clean' => s \notin exported' \/ EndpointOf[s] \in rotated
        <3>1. SUFFICES ASSUME cur'.status = "failed", Clean', s \in exported'
                       PROVE  EndpointOf[s] \in rotated
            OBVIOUS
        <3>2. s \in exported /\ Clean
            BY <1>1, <1>2, <1>7, <3>1 DEF Exports
        <3>3. CASE cur'.status = cur.status
            BY <1>5, <2>1, <3>1, <3>2, <3>3
        <3>4. CASE cur'.status # cur.status
            <4>1. cur.at = "begin"
                BY <1>1, <3>4 DEF Exports
            <4>2. cur.status = "none"
                BY <1>2, <4>1 DEF AgentInv, AtInv
            <4> QED BY <1>5, <2>1, <3>2, <4>2
        <3> QED BY <3>3, <3>4
    <2>6. Clean' /\ s \in exported' => cur'.status = "available" \/ EndpointOf[s] \in rotated
        <3>1. SUFFICES ASSUME Clean', s \in exported', cur'.status # "available"
                       PROVE  EndpointOf[s] \in rotated
            OBVIOUS
        <3>2. s \in exported /\ Clean
            BY <1>1, <1>2, <1>7, <3>1 DEF Exports
        <3>3. CASE cur'.status = cur.status
            BY <1>5, <2>1, <3>1, <3>2, <3>3
        <3>4. CASE cur'.status # cur.status
            <4>1. cur.at = "begin"
                BY <1>1, <3>4 DEF Exports
            <4>2. cur.status = "none"
                BY <1>2, <4>1 DEF AgentInv, AtInv
            <4> QED BY <1>5, <2>1, <3>2, <4>2
        <3> QED BY <3>3, <3>4
    <2>7. cur'.at \in {"sandbox_up_failed", "sandbox_destroy"} => s \notin running'
        BY <1>1, <1>7 DEF Reaches
    <2> QED BY <1>2, <2>1, <2>2, <2>3, <2>4, <2>5, <2>6, <2>7
<1> QED BY <1>6, <1>7

LEMMA HandlerKeepsStreaks ==
    ASSUME AgentInv, HandlerStep
    PROVE  StreakInv' /\ DeadInv'
<1>1. Touches(cur.id) /\ Probes(cur.id)
    BY HandlerTouches, HandlerDoes DEF AgentInv, AgentTypes
<1>2. /\ cur # NoItem /\ cur' # NoItem /\ cur'.id = cur.id /\ cur'.action = cur.action /\ cur'.at # "begin"
      /\ UNCHANGED <<row, userNode, unheard, bootKnown, mat, batch, loop, disabled, toPoll>>
      /\ fails \in [Deployment -> 0..2] /\ fails' \in [Deployment -> 0..2]
    BY HandlerFrame, HandlerTouches DEF AgentInv, AgentTypes, NodeTypes
<1>3. /\ cur.id \in Deployment => mat[cur.id] = "none"
      /\ \A i \in batch : i.id # cur.id
    BY <1>2, HandledRow DEF AgentInv, ItemInv, Handles
<1>4. ASSUME NEW d \in Deployment, d # cur.id
      PROVE  ~Handles(d)' /\ fails'[d] = fails[d] /\ (d \in unprobed' <=> d \in unprobed)
    BY <1>1, <1>2, <1>4, AgentConstants DEF Touches, Handles
<1>5. DeadInv'
    <2>1. ASSUME NEW d \in Deployment, Handles(d)', cur'.at = "runtime_fail"
          PROVE  d \notin unprobed' /\ fails'[d] = 0
        BY <1>1, <1>4, <2>1 DEF Probes, Handles
    <2> QED BY <2>1 DEF DeadInv
<1>6. StreakInv'
    <2>1. SUFFICES ASSUME ~userNode, ~unheard PROVE StreakInv'
        BY <1>2 DEF StreakInv
    <2>2. /\ loop = "select" => Endpoint \subseteq bootKnown \cup disabled
          /\ \A d \in Deployment :
              /\ d \in unprobed => fails[d] <= 1
              /\ row[d] \notin {"ready", "unrouting", "stopped", "releasing", "gone"} => fails[d] <= 1
              /\ mat[d] # "none" => fails[d] <= 1
              /\ \A i \in batch : i.id = d /\ i.action = "materialize" => fails[d] <= 1
              /\ EndpointOf[d] \notin bootKnown =>
                    /\ fails[d] <= 1
                    /\ loop = "pass" /\ EndpointOf[d] \in toPoll => fails[d] = 0 /\ ~Handles(d)
                    /\ \A i \in batch : i.id = d => fails[d] = 0
                    /\ Handles(d) /\ cur.at = "begin" => fails[d] = 0
                    /\ \A i \in batch : i.id = d => EndpointOf[d] \notin toPoll
                    /\ Handles(d) => EndpointOf[d] \notin toPoll
        BY <2>1 DEF AgentInv, StreakInv
    <2>3. ASSUME NEW d \in Deployment
          PROVE  /\ d \in unprobed' => fails'[d] <= 1
                 /\ row[d] \notin {"ready", "unrouting", "stopped", "releasing", "gone"} => fails'[d] <= 1
                 /\ mat[d] # "none" => fails'[d] <= 1
                 /\ \A i \in batch : i.id = d /\ i.action = "materialize" => fails'[d] <= 1
                 /\ EndpointOf[d] \notin bootKnown =>
                       /\ fails'[d] <= 1
                       /\ loop = "pass" /\ EndpointOf[d] \in toPoll => fails'[d] = 0 /\ ~Handles(d)'
                       /\ \A i \in batch : i.id = d => fails'[d] = 0
                       /\ Handles(d)' /\ cur'.at = "begin" => fails'[d] = 0
                       /\ \A i \in batch : i.id = d => EndpointOf[d] \notin toPoll
                       /\ Handles(d)' => EndpointOf[d] \notin toPoll
        <3>1. CASE d # cur.id
            BY <1>4, <2>2, <3>1
        <3>2. CASE d = cur.id
            <4>1. /\ Handles(d) /\ mat[d] = "none" /\ \A i \in batch : i.id # d
                  /\ EndpointOf[d] \notin bootKnown => EndpointOf[d] \notin toPoll
                BY <1>2, <1>3, <2>2, <3>2 DEF Handles
            <4>2. CASE fails'[d] = fails[d]
                <5>1. d \in unprobed' => d \in unprobed
                    BY <1>1, <3>2 DEF Probes
                <5> QED BY <1>2, <2>2, <4>1, <4>2, <5>1
            <4>3. CASE fails'[d] # fails[d]
                <5>1. /\ cur.action = "probe" /\ cur.at = "begin" /\ fails'[d] <= fails[d] + 1
                      /\ d \notin unprobed'
                    BY <1>1, <3>2, <4>3 DEF Probes
                <5>2. row[d] \in Meanwhile(userNode, "probe")
                    BY <1>2, <3>2, <5>1 DEF AgentInv, RowInv
                <5>3. row[d] \in {"ready", "unrouting", "releasing"}
                    BY <2>1, <5>2 DEF Meanwhile
                <5>4. EndpointOf[d] \notin bootKnown => fails[d] = 0
                    BY <2>2, <4>1, <5>1
                <5>5. fails[d] \in 0..2 /\ fails'[d] \in 0..2
                    BY <1>2
                <5> QED BY <1>2, <4>1, <5>1, <5>3, <5>4, <5>5
            <4> QED BY <4>2, <4>3
        <3> QED BY <3>1, <3>2
    <2> QED BY <1>2, <2>2, <2>3 DEF StreakInv
<1> QED BY <1>5, <1>6

LEMMA HandlerKeeps == AgentInv /\ HandlerStep => AgentInv'
<1> SUFFICES ASSUME AgentInv, HandlerStep PROVE AgentInv'
    OBVIOUS
<1>1. ApiTypes' /\ LoopTypes' /\ ItemTypes' /\ ItemInv' /\ RowInv'
    BY HandlerKeepsRows DEF AgentInv
<1>2. NodeTypes' /\ AtInv'
    BY HandlerTouches, HandlerDoes DEF AgentInv, AgentTypes
<1> QED BY <1>1, <1>2, HandlerKeepsRelease, HandlerKeepsLive, HandlerKeepsSandboxes, HandlerKeepsStreaks
        DEF AgentInv, AgentTypes

-----------------------------------------------------------------------------
(* The steps of a materialize before its report.                            *)

GoroutineStep(d) ==
    FetchManifest(d) \/ MaterializeTree(d) \/ LoadImages(d) \/ Serve(d) \/ ComposeUp(d)

LEMMA GoroutineDoes ==
    ASSUME AgentTypes, LiveInv, NEW d \in Deployment, GoroutineStep(d)
    PROVE  /\ mat[d] # "none" /\ mat'[d] # "none" /\ \A x \in Deployment \ {d} : mat'[x] = mat[x]
           /\ mat' \in [Deployment -> {"none", "manifest", "tree", "load", "serve", "materialized",
                                       "materialize_failed"}]
           /\ refused \subseteq refused' /\ refused' \subseteq {"caddy", "docker"}
           /\ repo \subseteq repo' /\ served \subseteq served' /\ running \subseteq running'
           /\ repo' \subseteq repo \cup {d} /\ served' \subseteq served \cup {d}
           /\ running' \subseteq running \cup {d} /\ kept' \subseteq kept \cup {d}
           /\ images' \subseteq images \cup {d}
           /\ mat'[d] \in {"load", "serve", "materialized"} => d \in repo'
           /\ mat'[d] = "materialized" => IF userNode THEN d \in running' ELSE d \in served'
           /\ UNCHANGED <<userNode, lost, crashes, asked, loopvars, bootKnown, unheard, rotated, fails,
                          old, exported, row, artifact, disabled, claimed, route, unprobed>>
<1> USE DEF AgentTypes, ItemTypes, LiveInv, Advance, Elsewhere
<1>1. CASE FetchManifest(d)
    BY <1>1 DEF FetchManifest, nodevars, ApiTypes
<1>2. CASE MaterializeTree(d)
    BY <1>2 DEF MaterializeTree, ApiTypes
<1>3. CASE LoadImages(d)
    BY <1>3 DEF LoadImages, ApiTypes
<1>4. CASE Serve(d)
    BY <1>4 DEF Serve, ApiTypes
<1>5. CASE ComposeUp(d)
    BY <1>5 DEF ComposeUp, Converge, Refuses, ApiTypes
<1> QED BY <1>1, <1>2, <1>3, <1>4, <1>5 DEF GoroutineStep

LEMMA GoroutineKeeps ==
    ASSUME AgentInv, NEW d \in Deployment, GoroutineStep(d)
    PROVE  AgentInv'
<1>1. /\ mat[d] # "none" /\ mat'[d] # "none" /\ \A x \in Deployment \ {d} : mat'[x] = mat[x]
      /\ mat' \in [Deployment -> {"none", "manifest", "tree", "load", "serve", "materialized",
                                  "materialize_failed"}]
      /\ refused \subseteq refused' /\ refused' \subseteq {"caddy", "docker"}
      /\ repo \subseteq repo' /\ served \subseteq served' /\ running \subseteq running'
      /\ repo' \subseteq repo \cup {d} /\ served' \subseteq served \cup {d}
      /\ running' \subseteq running \cup {d} /\ kept' \subseteq kept \cup {d}
      /\ images' \subseteq images \cup {d}
      /\ mat'[d] \in {"load", "serve", "materialized"} => d \in repo'
      /\ mat'[d] = "materialized" => IF userNode THEN d \in running' ELSE d \in served'
    BY GoroutineDoes DEF AgentInv
<1>2. UNCHANGED <<userNode, lost, crashes, asked, loop, toPoll, batch, cur, nudge, wait, idle, bootKnown,
                  unheard, rotated, fails, old, exported, row, artifact, disabled, claimed, route, unprobed>>
    BY GoroutineDoes DEF AgentInv, loopvars
<1>3. /\ d \in claimed /\ ~Handles(d) /\ row[d] \in {"materialize", "register_route", "failed", "releasing"}
      /\ d \in Work /\ d \notin Sandbox
    BY <1>1, AgentConstants DEF AgentInv, ItemInv, RowInv, Meanwhile
<1>4. AgentTypes'
    <2>1. ApiTypes'
        BY <1>1, <1>2 DEF AgentInv, AgentTypes, ApiTypes
    <2>2. LoopTypes'
        BY <1>2 DEF AgentInv, AgentTypes, LoopTypes
    <2>3. ItemTypes'
        BY <1>1, <1>2 DEF AgentInv, AgentTypes, ItemTypes
    <2>4. NodeTypes'
        BY <1>1, <1>2, <1>3 DEF AgentInv, AgentTypes, NodeTypes
    <2> QED BY <2>1, <2>2, <2>3, <2>4 DEF AgentTypes
<1>5. ItemInv'
    BY <1>1, <1>2 DEF AgentInv, ItemInv, Handles
<1>6. RowInv'
    <2>1. \A i \in batch : i.action \in {"stop", "remove_route", "probe"} => mat'[i.id] = "none"
        <3>1. ASSUME NEW i \in batch, i.action \in {"stop", "remove_route", "probe"} PROVE mat'[i.id] = "none"
            <4>1. mat[i.id] = "none" /\ i.id # d /\ i.id \in Deployment
                BY <1>1, <3>1, AgentConstants DEF AgentInv, RowInv, AgentTypes, ItemTypes, Item, SandboxAction
            <4> QED BY <1>1, <4>1
        <3> QED BY <3>1
    <2> QED BY <1>1, <1>2, <2>1 DEF AgentInv, RowInv
<1>7. AtInv'
    BY <1>1, <1>2 DEF AgentInv, AtInv
<1>8. ReleaseInv'
    <2>1. SUFFICES ASSUME NEW x \in Deployment
                   PROVE  /\ row'[x] = "gone" => mat'[x] = "none" /\ Bare(x)' /\ Unrouted(x)'
                          /\ Handles(x)' /\ cur'.at = "teardown" => Unrouted(x)'
                          /\ Handles(x)' /\ cur'.at = "released" => Bare(x)' /\ Unrouted(x)'
        BY DEF ReleaseInv
    <2>2. CASE x = d
        BY <1>2, <1>3, <2>2 DEF Handles
    <2>3. CASE x # d
        <3>1. (Bare(x) => Bare(x)') /\ (Unrouted(x) => Unrouted(x)')
            BY <1>1, <1>2, <2>3 DEF Bare, Unrouted
        <3> QED BY <1>1, <1>2, <2>3, <3>1 DEF AgentInv, ReleaseInv, Handles
    <2> QED BY <2>2, <2>3
<1>9. SandboxInv'
    <2>1. \A s \in Sandbox : s \in running' <=> s \in running
        BY <1>1, <1>3
    <2>2. Clean' => Clean
        BY <1>1, <1>2 DEF Clean
    <2> QED BY <1>2, <2>1, <2>2 DEF AgentInv, SandboxInv, Handles
<1>10. LiveInv' /\ LiveRowIsServed'
    <2>1. LiveInv'
        <3>1. SUFFICES ASSUME NEW x \in Deployment
                       PROVE  /\ mat'[x] \in {"load", "serve", "materialized"} => x \in repo'
                              /\ mat'[x] = "materialized" => IF userNode' THEN x \in running' ELSE x \in served'
                              /\ Handles(x)' /\ cur'.at = "route_registered" => x \in route'
            BY DEF LiveInv
        <3>2. Handles(x)' /\ cur'.at = "route_registered" => x \in route'
            BY <1>2 DEF AgentInv, LiveInv, Handles
        <3>3. CASE x = d
            BY <1>1, <1>2, <3>2, <3>3
        <3>4. CASE x # d
            BY <1>1, <1>2, <3>2, <3>4 DEF AgentInv, LiveInv
        <3> QED BY <3>3, <3>4
    <2>2. LiveRowIsServed'
        BY <1>1, <1>2 DEF AgentInv, LiveRowIsServed
    <2> QED BY <2>1, <2>2
<1>11. StreakInv'
    BY <1>1, <1>2 DEF AgentInv, StreakInv, Handles
<1>12. DeadInv'
    BY <1>2 DEF AgentInv, DeadInv, Handles
<1> QED BY <1>4, <1>5, <1>6, <1>7, <1>8, <1>9, <1>10, <1>11, <1>12 DEF AgentInv

-----------------------------------------------------------------------------
(* The loop: ticks, ends of passes, polls, the claim.                       *)

\* What the parts of the invariant read, besides the loop and the items.
nodeState == <<userNode, refused, row, artifact, rotated, lost, crashes, repo, served, running, kept,
               images, route, exported>>

\* A step that leaves the rows and the node alone and handles no less.
LEMMA NodeRests ==
    ASSUME AgentInv, UNCHANGED nodeState, UNCHANGED <<bootKnown, mat, cur>>
    PROVE  ReleaseInv' /\ SandboxInv' /\ LiveInv' /\ LiveRowIsServed' /\ AtInv'
<1> USE DEF AgentInv, nodeState, Handles
<1>1. ReleaseInv'
    BY DEF ReleaseInv, Bare, Unrouted
<1>2. SandboxInv'
    BY DEF SandboxInv, Clean
<1>3. LiveInv' /\ LiveRowIsServed'
    BY DEF LiveInv, LiveRowIsServed
<1>4. AtInv'
    BY DEF AtInv
<1> QED BY <1>1, <1>2, <1>3, <1>4

\* The ticker and the nudge poll endpoints that are not disabled.
LEMMA TicksKeep == AgentInv /\ (Tick \/ PollNow) => AgentInv'
<1> SUFFICES ASSUME AgentInv, Tick \/ PollNow PROVE AgentInv'
    OBVIOUS
<1>1. /\ UNCHANGED <<apivars, envvars, batch, cur, idle, disabled, claimed, mat, nodevars, probevars, exported>>
      /\ loop = "select" /\ loop' = "pass" /\ toPoll' \subseteq Endpoint \ disabled /\ nudge' \in BOOLEAN
    BY DEF Tick, PollNow, AgentInv, AgentTypes, LoopTypes
<1>2. wait' \in [Endpoint -> 0..MaxGap]
    BY AgentConstants DEF Tick, PollNow, AgentInv, AgentTypes, LoopTypes
<1>3. UNCHANGED <<nodeState, userNode, refused, row, artifact, bootKnown, unheard, rotated, lost, crashes,
                  asked, batch, cur, idle, disabled, claimed, mat, repo, served, running, kept, images, route,
                  fails, old, unprobed, exported>>
    BY <1>1 DEF apivars, envvars, nodevars, probevars, nodeState
<1>4. AgentTypes'
    BY <1>1, <1>2, <1>3 DEF AgentInv, AgentTypes, ApiTypes, LoopTypes, ItemTypes, NodeTypes
<1>5. batch = {} /\ cur = NoItem
    BY <1>1 DEF AgentInv, ItemInv
<1>6. ItemInv' /\ RowInv'
    BY <1>3, <1>5 DEF AgentInv, ItemInv, RowInv, Handles
<1>7. StreakInv'
    BY <1>1, <1>3, <1>5, AgentConstants DEF AgentInv, StreakInv, Handles
<1>8. DeadInv'
    BY <1>3, <1>5 DEF DeadInv, Handles
<1> QED BY <1>3, <1>4, <1>6, <1>7, <1>8, NodeRests DEF AgentInv

LEMMA EndPassKeeps == AgentInv /\ EndPass => AgentInv'
<1> SUFFICES ASSUME AgentInv, EndPass PROVE AgentInv'
    OBVIOUS
<1>1. /\ UNCHANGED <<apivars, envvars, toPoll, batch, cur, nudge, wait, idle, disabled, claimed, mat, nodevars,
                     probevars, exported>>
      /\ loop = "pass" /\ batch = {} /\ cur = NoItem
      /\ loop' = IF AllDisabled THEN "exited"
                 ELSE IF Endpoint \ disabled \subseteq bootKnown THEN "select" ELSE "watermark"
    BY DEF EndPass, Between
<1>2. UNCHANGED <<nodeState, userNode, refused, row, artifact, bootKnown, unheard, rotated, lost, crashes,
                  asked, batch, cur, idle, disabled, claimed, mat, repo, served, running, kept, images, route,
                  fails, old, unprobed, exported>>
    BY <1>1 DEF apivars, envvars, nodevars, probevars, nodeState
<1>3. AgentTypes'
    BY <1>1, <1>2 DEF AgentInv, AgentTypes, ApiTypes, LoopTypes, ItemTypes, NodeTypes
<1>4. ItemInv' /\ RowInv'
    BY <1>1, <1>2 DEF AgentInv, ItemInv, RowInv, Handles
<1>5. StreakInv'
    <2>1. loop' = "select" => Endpoint \subseteq bootKnown \cup disabled
        BY <1>1
    <2> QED BY <1>1, <1>2, <2>1 DEF AgentInv, StreakInv, Handles
<1>6. DeadInv'
    BY <1>1, <1>2 DEF DeadInv, Handles
<1> QED BY <1>2, <1>3, <1>4, <1>5, <1>6, NodeRests DEF AgentInv

\* An item that is refused or skipped leaves the batch.
LEMMA SkipKeeps == ASSUME AgentInv, NEW i \in batch, Refuse(i) \/ Skip(i) PROVE AgentInv'
<1>1. /\ UNCHANGED <<apivars, envvars, loop, toPoll, cur, nudge, wait, idle, disabled, claimed, mat, nodevars,
                     probevars, exported>>
      /\ loop = "pass" /\ batch' = batch \ {i}
    BY DEF Refuse, Skip
<1>2. UNCHANGED <<nodeState, userNode, refused, row, artifact, bootKnown, unheard, rotated, lost, crashes,
                  asked, cur, idle, disabled, claimed, mat, repo, served, running, kept, images, route,
                  fails, old, unprobed, exported>>
    BY <1>1 DEF apivars, envvars, nodevars, probevars, nodeState
<1>3. AgentTypes'
    BY <1>1, <1>2 DEF AgentInv, AgentTypes, ApiTypes, LoopTypes, ItemTypes, NodeTypes
<1>4. ItemInv' /\ RowInv'
    BY <1>1, <1>2 DEF AgentInv, ItemInv, RowInv, Handles
<1>5. StreakInv'
    BY <1>1, <1>2 DEF AgentInv, StreakInv, Handles
<1>6. DeadInv'
    BY <1>1, <1>2 DEF AgentInv, DeadInv, Handles
<1> QED BY <1>2, <1>3, <1>4, <1>5, <1>6, NodeRests DEF AgentInv

\* The probes' window passes, a secret is rotated.
LEMMA OutsideKeeps ==
    ASSUME AgentInv, (\E d \in Deployment : WindowPasses(d)) \/ (\E e \in Endpoint : RotateSecret(e))
    PROVE  AgentInv'
<1>1. CASE \E d \in Deployment : WindowPasses(d)
    <2>1. /\ UNCHANGED <<apivars, envvars, loopvars, disabled, claimed, mat, nodevars, fails, unprobed, exported>>
          /\ old' \subseteq Deployment
        BY <1>1 DEF WindowPasses, AgentInv, AgentTypes, NodeTypes
    <2>2. UNCHANGED <<nodeState, userNode, refused, row, artifact, bootKnown, unheard, rotated, lost, crashes,
                      asked, loop, toPoll, batch, cur, nudge, wait, idle, disabled, claimed, mat, repo, served,
                      running, kept, images, route, fails, unprobed, exported>>
        BY <2>1 DEF apivars, envvars, loopvars, nodevars, nodeState
    <2>3. AgentTypes'
        BY <2>1, <2>2 DEF AgentInv, AgentTypes, ApiTypes, LoopTypes, ItemTypes, NodeTypes
    <2>4. ItemInv' /\ RowInv'
        BY <2>2 DEF AgentInv, ItemInv, RowInv, Handles
    <2>5. StreakInv' /\ DeadInv'
        BY <2>2 DEF AgentInv, StreakInv, DeadInv, Handles
    <2> QED BY <2>2, <2>3, <2>4, <2>5, NodeRests DEF AgentInv
<1>2. ASSUME NEW e \in Endpoint, RotateSecret(e) PROVE AgentInv'
    <2>1. /\ UNCHANGED <<envvars, row, artifact, bootKnown, unheard, loopvars, disabled, claimed, mat, nodevars,
                         probevars, exported>>
          /\ rotated' = rotated \cup {e}
        BY <1>2 DEF RotateSecret
    <2>2. UNCHANGED <<userNode, refused, row, artifact, bootKnown, unheard, lost, crashes,
                      asked, loop, toPoll, batch, cur, nudge, wait, idle, disabled, claimed, mat, repo, served,
                      running, kept, images, route, fails, old, unprobed, exported>>
        BY <2>1 DEF envvars, loopvars, nodevars, probevars
    <2>3. IsFiniteSet(rotated') /\ rotated' \subseteq Endpoint
        BY <2>1, FS_AddElement DEF AgentInv, AgentTypes, ApiTypes
    <2>4. AgentTypes'
        BY <2>2, <2>3 DEF AgentInv, AgentTypes, ApiTypes, LoopTypes, ItemTypes, NodeTypes
    <2>5. ItemInv' /\ RowInv' /\ AtInv'
        BY <2>2 DEF AgentInv, ItemInv, RowInv, AtInv, Handles
    <2>6. StreakInv' /\ DeadInv' /\ LiveInv' /\ LiveRowIsServed'
        BY <2>2 DEF AgentInv, StreakInv, DeadInv, LiveInv, LiveRowIsServed, Handles
    <2>7. ReleaseInv'
        BY <2>2 DEF AgentInv, ReleaseInv, Bare, Unrouted, Handles
    <2>8. SandboxInv'
        BY <2>1, <2>2 DEF AgentInv, SandboxInv, Clean, Handles
    <2> QED BY <2>4, <2>5, <2>6, <2>7, <2>8 DEF AgentInv
<1> QED BY <1>1, <1>2

LEMMA SmallerOf ==
    ASSUME NEW a \in Nat, NEW b \in Nat
    PROVE  Smaller(a, b) \in 0..b /\ (a >= 1 /\ b >= 1 => Smaller(a, b) \in 1..b)
BY DEF Smaller

LEMMA NoteWorkTypes ==
    ASSUME LoopTypes, NEW e \in Endpoint, NEW empty \in BOOLEAN, NoteWork(e, empty)
    PROVE  wait' \in [Endpoint -> 0..MaxGap] /\ idle' \in [Endpoint -> 1..MaxIdle]
<1>1. idle[e] \in Nat /\ idle[e] >= 1 /\ 2 * idle[e] \in Nat /\ 2 * idle[e] >= 1
    BY AgentConstants DEF LoopTypes
<1>2. Smaller(2 * idle[e], MaxIdle) \in 1..MaxIdle
    BY <1>1, SmallerOf, AgentConstants
<1>3. Smaller(2 * idle[e], MaxIdle) \in Nat
    BY <1>2, AgentConstants
<1>4. Smaller(Smaller(2 * idle[e], MaxIdle), MaxGap) \in 0..MaxGap
    BY <1>3, SmallerOf, AgentConstants
<1>5. CASE empty
    <2>1. /\ idle' = [idle EXCEPT ![e] = Smaller(2 * idle[e], MaxIdle)]
          /\ wait' = [wait EXCEPT ![e] = Smaller(Smaller(2 * idle[e], MaxIdle), MaxGap)]
        BY <1>5 DEF NoteWork
    <2> QED BY <1>2, <1>4, <2>1 DEF LoopTypes
<1>6. CASE ~empty
    <2>1. idle' = [idle EXCEPT ![e] = 1] /\ wait' = [wait EXCEPT ![e] = 0]
        BY <1>6 DEF NoteWork
    <2> QED BY <2>1, AgentConstants DEF LoopTypes
<1> QED BY <1>5, <1>6

\* An answer brings one item of each row, in a state that goes with it.
LEMMA PollKeeps == ASSUME AgentInv, NEW e \in Endpoint, Poll(e) PROVE AgentInv'
<1>1. /\ loop = "pass" /\ batch = {} /\ cur = NoItem /\ e \in toPoll /\ toPoll' = toPoll \ {e}
      /\ UNCHANGED <<apivars, userNode, refused, crashes, asked, loop, cur, nudge, claimed,
                     mat, nodevars, probevars, exported>>
      /\ batch' \in Answers(e) \/ batch' = batch
      /\ disabled \subseteq disabled' /\ disabled' \subseteq Endpoint
    BY DEF Poll, Between, DisableEndpoint, AgentInv, AgentTypes, LoopTypes
<1>2. UNCHANGED <<userNode, refused, row, artifact, bootKnown, unheard, rotated, crashes,
                  asked, loop, cur, nudge, claimed, mat, repo, served, running, kept, images, route,
                  fails, old, unprobed, exported>>
    BY <1>1 DEF apivars, nodevars, probevars
<1>3. lost' \in Nat /\ lost <= lost' /\ lost' + crashes <= MaxTrouble
    <2>1. CASE lost' = lost
        BY <2>1 DEF AgentInv, AgentTypes, ApiTypes
    <2>2. CASE Trouble /\ lost' = lost + 1
        BY <2>2, TroubleLeft, AgentConstants DEF AgentInv, AgentTypes, ApiTypes
    <2> QED BY <2>1, <2>2 DEF Poll
<1>4. wait' \in [Endpoint -> 0..MaxGap] /\ idle' \in [Endpoint -> 1..MaxIdle]
    <2>1. (\E empty \in BOOLEAN : NoteWork(e, empty)) \/ UNCHANGED <<wait, idle>>
        BY DEF Poll
    <2> QED BY <2>1, NoteWorkTypes DEF AgentInv, AgentTypes, LoopTypes
<1>5. \A i \in batch' : /\ i = [id |-> i.id, action |-> i.action]
                        /\ i.id \in Work /\ EndpointOf[i.id] = e
                        /\ i.action \in Offered(row[i.id])
    BY <1>1, AnswersOffer
<1>6. \A i, j \in batch' : i.id = j.id => i = j
    BY <1>1, AnswersOffer
<1>7. ASSUME NEW i \in batch'
      PROVE  /\ i \in Item /\ row[i.id] \in Meanwhile(userNode, i.action)
             /\ i.id \in Sandbox <=> i.action \in SandboxAction
             /\ i.action = "materialize" => row[i.id] = "materialize"
             /\ i.action = "probe" => row[i.id] = "ready"
             /\ i.action = "stop" => row[i.id] = "stopping"
             /\ i.action = "remove_route" => row[i.id] = "unrouting"
    <2>1. /\ i = [id |-> i.id, action |-> i.action] /\ i.id \in Work /\ i.action \in Offered(row[i.id])
          /\ row[i.id] \in RowState
        BY <1>5, <1>7 DEF AgentInv, AgentTypes, ApiTypes
    <2>2. /\ i.action \in SyncAction \cup {"materialize"} /\ row[i.id] \in Meanwhile(userNode, i.action)
          /\ row[i.id] \in SandboxState <=> i.action \in SandboxAction
          /\ i.action = "materialize" => row[i.id] = "materialize"
          /\ i.action = "probe" => row[i.id] = "ready"
          /\ i.action = "stop" => row[i.id] = "stopping"
          /\ i.action = "remove_route" => row[i.id] = "unrouting"
        BY <2>1, OfferedFits
    <2>3. i \in Item
        BY <2>1, <2>2 DEF Item
    <2>4. row[i.id] \notin {"absent", "new"}
        BY <2>1 DEF Offered
    <2>5. i.id \in Sandbox <=> row[i.id] \in SandboxState
        <3>1. i.id \in Deployment => row[i.id] \in DeploymentState
            BY DEF AgentInv, AgentTypes, ApiTypes
        <3>2. i.id \in Sandbox => row[i.id] \in SandboxState
            BY DEF AgentInv, AgentTypes, ApiTypes
        <3> QED BY <2>1, <2>4, <3>1, <3>2, AgentConstants DEF DeploymentState, SandboxState
    <2> QED BY <2>2, <2>3, <2>5
<1>8. AgentTypes'
    BY <1>1, <1>2, <1>3, <1>4, <1>7 DEF AgentInv, AgentTypes, ApiTypes, LoopTypes, ItemTypes, NodeTypes
<1>9. ItemInv'
    BY <1>1, <1>2, <1>6 DEF AgentInv, ItemInv, Handles
<1>10. RowInv'
    <2>1. ASSUME NEW i \in batch', i.action \in {"stop", "remove_route", "probe"} PROVE mat[i.id] = "none"
        <3>1. row[i.id] \in {"stopping", "unrouting", "ready"} /\ i.id \in Deployment
            BY <1>5, <1>7, <2>1, AgentConstants DEF SandboxAction
        <3> QED BY <3>1 DEF AgentInv, RowInv, Meanwhile
    <2> QED BY <1>1, <1>2, <1>7, <2>1 DEF AgentInv, RowInv
<1>11. AtInv' /\ DeadInv' /\ LiveInv' /\ LiveRowIsServed'
    BY <1>1, <1>2 DEF AtInv, DeadInv, AgentInv, LiveInv, LiveRowIsServed, Handles
<1>12. ReleaseInv'
    BY <1>2 DEF AgentInv, ReleaseInv, Bare, Unrouted, Handles
<1>13. SandboxInv'
    <2>1. Clean' => Clean
        BY <1>2, <1>3 DEF Clean, AgentInv, AgentTypes, ApiTypes
    <2> QED BY <1>2, <2>1 DEF AgentInv, SandboxInv, Handles
<1>14. StreakInv'
    <2>1. SUFFICES ASSUME ~userNode, ~unheard PROVE StreakInv'
        BY <1>2 DEF StreakInv
    <2>2. ASSUME NEW d \in Deployment
          PROVE  /\ d \in unprobed' => fails'[d] <= 1
                 /\ row'[d] \notin {"ready", "unrouting", "stopped", "releasing", "gone"} => fails'[d] <= 1
                 /\ mat'[d] # "none" => fails'[d] <= 1
                 /\ EndpointOf[d] \notin bootKnown' =>
                       /\ fails'[d] <= 1
                       /\ EndpointOf[d] \in toPoll => fails'[d] = 0
        BY <1>1, <1>2, <2>1 DEF AgentInv, StreakInv
    <2>3. ASSUME NEW d \in Deployment, NEW i \in batch', i.id = d
          PROVE  /\ EndpointOf[d] = e
                 /\ i.action = "materialize" => fails'[d] <= 1
        BY <1>2, <1>5, <1>7, <2>2, <2>3
    <2> QED BY <1>1, <1>2, <2>2, <2>3 DEF StreakInv, Handles
<1> QED BY <1>8, <1>9, <1>10, <1>11, <1>12, <1>13, <1>14 DEF AgentInv

\* The claim: an item becomes a goroutine or a handler.
LEMMA HandleKeeps == ASSUME AgentInv, NEW i \in batch, Handle(i) PROVE AgentInv'
<1>1. /\ loop = "pass" /\ cur = NoItem /\ UserNodeGate(i) /\ i.id \notin claimed
      /\ batch' = batch \ {i} /\ claimed' = claimed \cup {i.id}
      /\ UNCHANGED <<apivars, envvars, loop, toPoll, nudge, wait, idle, disabled, nodevars, probevars, exported>>
      /\ i \in Item /\ i.id \in Work
    BY DEF Handle, Claim, AgentInv, AgentTypes, ItemTypes, Item
<1>2. UNCHANGED <<userNode, refused, row, artifact, bootKnown, unheard, rotated, lost, crashes,
                  asked, loop, toPoll, nudge, wait, idle, disabled, repo, served, running, kept, images, route,
                  fails, old, unprobed, exported>>
    BY <1>1 DEF apivars, envvars, nodevars, probevars
<1>3. /\ i.id \in Sandbox <=> i.action \in SandboxAction
      /\ row[i.id] \in Meanwhile(userNode, i.action)
      /\ \A j \in batch' : j \in batch /\ j.id # i.id
      /\ i.id \in Deployment => mat[i.id] = "none"
    BY <1>1 DEF AgentInv, AgentTypes, ItemTypes, ItemInv, RowInv
<1>4. row[i.id] \notin {"gone", "destroyed"}
    BY <1>1, <1>3 DEF Meanwhile, Item, SyncAction
<1>5. ReleaseInv' /\ LiveInv' /\ LiveRowIsServed' /\ SandboxInv' /\ AtInv' /\ DeadInv' /\ ItemTypes' /\ ItemInv'
      /\ RowInv' /\ StreakInv'
    <2>1. CASE i.action = "materialize"
        <3>1. cur' = NoItem /\ i.id \in Deployment /\ mat' = [mat EXCEPT ![i.id] = "manifest"]
            BY <1>1, <1>3, <2>1, AgentConstants DEF Handle, SandboxAction
        <3>2. /\ mat'[i.id] = "manifest" /\ \A d \in Deployment \ {i.id} : mat'[d] = mat[d]
              /\ mat' \in [Deployment -> {"none", "manifest", "tree", "load", "serve", "materialized",
                                          "materialize_failed"}]
            BY <3>1 DEF AgentInv, AgentTypes, ItemTypes
        <3>3. ReleaseInv'
            BY <1>2, <1>4, <3>1, <3>2 DEF AgentInv, ReleaseInv, Bare, Unrouted, Handles
        <3>4. LiveInv' /\ LiveRowIsServed'
            BY <1>2, <3>1, <3>2 DEF AgentInv, LiveInv, LiveRowIsServed, Handles
        <3>5. SandboxInv'
            BY <1>1, <1>2, <3>1 DEF AgentInv, SandboxInv, Clean, Handles
        <3>6. AtInv' /\ DeadInv'
            BY <3>1 DEF AtInv, DeadInv, Handles
        <3>7. ItemTypes'
            BY <1>1, <3>1, <3>2 DEF AgentInv, AgentTypes, ItemTypes
        <3>8. ItemInv'
            BY <1>1, <1>2, <1>3, <3>1, <3>2 DEF AgentInv, ItemInv, Handles
        <3>9. RowInv'
            <4>1. ASSUME NEW j \in batch', j.action \in {"stop", "remove_route", "probe"} PROVE mat'[j.id] = "none"
                <5>1. j.id # i.id /\ mat[j.id] = "none" /\ j.id \in Deployment
                    BY <1>3, <4>1, AgentConstants DEF AgentInv, RowInv, AgentTypes, ItemTypes, Item, SandboxAction
                <5> QED BY <3>2, <5>1
            <4> QED BY <1>2, <1>3, <2>1, <3>1, <3>2, <4>1 DEF AgentInv, RowInv
        <3>10. StreakInv'
            <4>1. ~userNode /\ ~unheard => fails[i.id] <= 1
                BY <2>1, <3>1 DEF AgentInv, StreakInv
            <4> QED BY <1>1, <1>2, <3>1, <3>2, <4>1 DEF AgentInv, StreakInv, Handles
        <3> QED BY <3>3, <3>4, <3>5, <3>6, <3>7, <3>8, <3>9, <3>10
    <2>2. CASE i.action # "materialize"
        <3>1. mat' = mat /\ cur' = [id |-> i.id, action |-> i.action, at |-> "begin", status |-> "none"]
            BY <1>1, <2>2 DEF Handle
        <3>2. cur' \in Handler /\ cur' # NoItem /\ cur'.id = i.id /\ cur'.action = i.action /\ cur'.at = "begin"
              /\ cur'.status = "none"
            BY <1>1, <2>2, <3>1, AgentConstants DEF Handler, HandlerAt, Item
        <3> HIDE <3>1
        <3>3. mat' = mat
            BY <3>1
        <3>4. ReleaseInv'
            BY <1>2, <3>2, <3>3 DEF AgentInv, ReleaseInv, Bare, Unrouted, Handles
        <3>5. LiveInv' /\ LiveRowIsServed'
            BY <1>2, <3>2, <3>3 DEF AgentInv, LiveInv, LiveRowIsServed, Handles
        <3>6. SandboxInv'
            BY <1>1, <1>2, <3>2 DEF AgentInv, SandboxInv, Clean, Handles
        <3>7. AtInv' /\ DeadInv'
            BY <3>2 DEF AtInv, DeadInv, Handles
        <3>8. ItemTypes'
            BY <1>1, <1>3, <3>2, <3>3 DEF AgentInv, AgentTypes, ItemTypes
        <3>9. ItemInv'
            BY <1>1, <1>2, <1>3, <3>2, <3>3 DEF AgentInv, ItemInv, Handles, UserNodeGate
        <3>10. RowInv'
            BY <1>2, <1>3, <3>2, <3>3 DEF AgentInv, RowInv
        <3>11. StreakInv'
            <4>1. ASSUME NEW d \in Deployment, Handles(d)', ~userNode, ~unheard, EndpointOf[d] \notin bootKnown
                  PROVE  fails[d] = 0 /\ EndpointOf[d] \notin toPoll
                <5>1. d = i.id
                    BY <3>2, <4>1 DEF Handles
                <5> QED BY <4>1, <5>1 DEF AgentInv, StreakInv
            <4>2. \A d \in Deployment : loop = "pass" /\ EndpointOf[d] \in toPoll /\ EndpointOf[d] \notin bootKnown
                                        /\ ~userNode /\ ~unheard => ~Handles(d)'
                BY <4>1
            <4> QED BY <1>1, <1>2, <3>2, <3>3, <4>1, <4>2 DEF AgentInv, StreakInv
        <3> QED BY <3>4, <3>5, <3>6, <3>7, <3>8, <3>9, <3>10, <3>11
    <2> QED BY <2>1, <2>2
<1>6. ApiTypes' /\ LoopTypes' /\ NodeTypes'
    BY <1>2 DEF AgentInv, AgentTypes, ApiTypes, LoopTypes, NodeTypes
<1> QED BY <1>5, <1>6 DEF AgentInv, AgentTypes

\* An endpoint that sees the new boot id starts its live rows anew.
LEMMA WatermarkKeeps == AgentInv /\ Watermark => AgentInv'
<1> SUFFICES ASSUME AgentInv, Watermark PROVE AgentInv'
    OBVIOUS
<1>1. /\ loop = "watermark" /\ disabled' = disabled \cup rotated
      /\ \/ bootKnown' = bootKnown \cup (Endpoint \ disabled') /\ UNCHANGED <<lost, unheard>>
         \/ Trouble /\ lost' = lost + 1 /\ unheard' = TRUE /\ UNCHANGED bootKnown
      /\ row' = [w \in Work |->
                   IF /\ EndpointOf[w] \in bootKnown' \ bootKnown
                      /\ row[w] \in {"register_route", "ready", "unrouting"}
                     THEN "materialize" ELSE row[w]]
      /\ loop' = IF disabled' = Endpoint THEN "exited" ELSE "select"
      /\ UNCHANGED <<artifact, rotated, userNode, refused, crashes, asked, toPoll, batch, cur, nudge, wait,
                     idle, claimed, mat, repo, served, running, kept, images, route, fails, old, unprobed, exported>>
    BY DEF Watermark, nodevars, probevars
<1>2. batch = {} /\ cur = NoItem
    BY <1>1 DEF AgentInv, ItemInv
<1>3. ASSUME NEW w \in Work
      PROVE  \/ row'[w] = row[w]
             \/ /\ row'[w] = "materialize" /\ row[w] \in {"register_route", "ready", "unrouting"}
                /\ EndpointOf[w] \notin bootKnown
    BY <1>1
<1>4. \A w \in Work : EndpointOf[w] \in bootKnown' /\ row'[w] \in {"register_route", "ready"} =>
          EndpointOf[w] \in bootKnown /\ row'[w] = row[w]
    BY <1>1
<1>5. ApiTypes'
    <2>1. /\ lost' \in Nat /\ lost' + crashes <= MaxTrouble
        <3>1. CASE lost' = lost
            BY <3>1 DEF AgentInv, AgentTypes, ApiTypes
        <3>2. CASE Trouble /\ lost' = lost + 1
            BY <3>2, TroubleLeft, AgentConstants DEF AgentInv, AgentTypes, ApiTypes
        <3> QED BY <1>1, <3>1, <3>2
    <2>2. bootKnown' \subseteq Endpoint /\ unheard' \in BOOLEAN
        BY <1>1 DEF AgentInv, AgentTypes, ApiTypes
    <2>3. /\ row' \in [Work -> RowState]
          /\ \A d \in Deployment : row'[d] \in DeploymentState
          /\ \A s \in Sandbox : row'[s] \in SandboxState
        <3>1. "materialize" \in RowState /\ "materialize" \in DeploymentState
              /\ {"register_route", "ready", "unrouting"} \cap SandboxState = {}
            BY DEF RowState, DeploymentState, SandboxState
        <3> QED BY <1>1, <1>3, <3>1, AgentConstants DEF AgentInv, AgentTypes, ApiTypes
    <2> QED BY <1>1, <2>1, <2>2, <2>3 DEF AgentInv, AgentTypes, ApiTypes
<1>6. LoopTypes' /\ ItemTypes' /\ NodeTypes'
    BY <1>1 DEF AgentInv, AgentTypes, LoopTypes, ItemTypes, NodeTypes, ApiTypes
<1>7. ItemInv'
    BY <1>1, <1>2 DEF AgentInv, ItemInv, Handles
<1>8. RowInv'
    <2>1. ASSUME NEW d \in Deployment, mat[d] # "none" PROVE row'[d] \in Meanwhile(userNode, "materialize")
        BY <1>3, <2>1, AgentConstants DEF AgentInv, RowInv, Meanwhile
    <2> QED BY <1>1, <1>2, <2>1 DEF RowInv
<1>9. AtInv' /\ DeadInv'
    BY <1>1, <1>2 DEF AtInv, DeadInv, Handles
<1>10. ReleaseInv'
    BY <1>1, <1>2, <1>3, AgentConstants DEF AgentInv, ReleaseInv, Bare, Unrouted, Handles
<1>11. SandboxInv'
    <2>1. Clean' => Clean
        BY <1>1 DEF Clean, AgentInv, AgentTypes, ApiTypes
    <2>2. \A s \in Sandbox : row'[s] = row[s]
        <3>1. {"register_route", "ready", "unrouting"} \cap SandboxState = {}
            BY DEF SandboxState
        <3> QED BY <1>3, <3>1, AgentConstants DEF AgentInv, AgentTypes, ApiTypes
    <2> QED BY <1>1, <1>2, <2>1, <2>2 DEF AgentInv, SandboxInv, Handles
<1>12. LiveInv'
    BY <1>1, <1>2 DEF AgentInv, LiveInv, Handles
<1>13. LiveRowIsServed'
    <2>1. ASSUME NEW d \in Deployment
          PROVE  /\ row'[d] \in {"register_route", "ready"} /\ EndpointOf[d] \in bootKnown' =>
                       d \in (IF userNode THEN repo \cap running ELSE repo \cap served)
                 /\ row'[d] = "ready" => d \in route
        <3>1. d \in Work /\ (row'[d] = "ready" => row[d] = "ready")
            BY <1>3, AgentConstants
        <3>2. /\ row[d] \in {"register_route", "ready"} /\ EndpointOf[d] \in bootKnown =>
                    d \in (IF userNode THEN repo \cap running ELSE repo \cap served)
              /\ row[d] = "ready" => d \in route
            BY DEF AgentInv, LiveRowIsServed
        <3> QED BY <1>4, <3>1, <3>2
    <2> QED BY <1>1, <2>1 DEF LiveRowIsServed
<1>14. StreakInv'
    <2>1. SUFFICES ASSUME ~userNode, ~unheard' PROVE StreakInv'
        BY <1>1 DEF StreakInv
    <2>2. bootKnown' = bootKnown \cup (Endpoint \ disabled') /\ ~unheard
        BY <1>1, <2>1
    <2>3. ASSUME NEW d \in Deployment
          PROVE  /\ d \in unprobed => fails[d] <= 1
                 /\ row'[d] \notin {"ready", "unrouting", "stopped", "releasing", "gone"} => fails[d] <= 1
                 /\ mat[d] # "none" => fails[d] <= 1
                 /\ EndpointOf[d] \notin bootKnown' => fails[d] <= 1
        <3>1. d \in Work
            BY AgentConstants
        <3>2. /\ d \in unprobed => fails[d] <= 1
              /\ row[d] \notin {"ready", "unrouting", "stopped", "releasing", "gone"} => fails[d] <= 1
              /\ mat[d] # "none" => fails[d] <= 1
              /\ EndpointOf[d] \notin bootKnown => fails[d] <= 1
            BY <2>1, <2>2 DEF AgentInv, StreakInv
        <3> QED BY <1>3, <2>2, <3>1, <3>2
    <2>4. Endpoint \subseteq bootKnown' \cup disabled' /\ loop' # "pass"
        BY <1>1, <2>2
    <2> QED BY <1>1, <1>2, <2>3, <2>4 DEF StreakInv, Handles
<1> QED BY <1>5, <1>6, <1>7, <1>8, <1>9, <1>10, <1>11, <1>12, <1>13, <1>14 DEF AgentInv, AgentTypes

-----------------------------------------------------------------------------
(* Users.                                                                   *)

\* What users ask for, as it moves a row.
LEMMA UserMoves ==
    ASSUME User
    PROVE  \E w \in Work, to \in RowState :
              /\ row' = [row EXCEPT ![w] = to] /\ asked < MaxUser /\ asked' = asked + 1
              /\ nudge' \in {nudge, TRUE}
              /\ UNCHANGED <<userNode, refused, artifact, bootKnown, unheard, rotated, lost, crashes,
                             loop, toPoll, batch, cur, wait, idle, disabled, claimed, mat, nodevars, probevars,
                             exported>>
              /\ \/ w \in Deployment /\ row[w] = "new" /\ to = "materialize"
                 \/ w \in Deployment /\ row[w] = "failed" /\ to = "materialize"
                 \/ w \in Deployment /\ userNode /\ row[w] = "stopped" /\ to = "materialize"
                 \/ w \in Deployment /\ userNode /\ row[w] = "ready" /\ to = "stopping"
                 \/ w \in Deployment /\ ~userNode /\ row[w] = "ready" /\ to = "unrouting"
                 \/ w \in Deployment /\ row[w] \notin {"absent", "new", "releasing", "gone"} /\ to = "releasing"
                 \/ w \in Deployment /\ row[w] = "stopping" /\ to = "stopped"
                 \/ w \in Sandbox /\ row[w] = "new" /\ to = "sandbox_up"
                 \/ w \in Sandbox /\ row[w] \in {"sandbox_up", "up"} /\ to = "sandbox_destroy"
<1> USE AgentConstants DEF Ask, WakeFrame, RowState
<1>1. CASE \E d \in Deployment : Create(d)
    BY <1>1 DEF Create
<1>2. CASE \E d \in Deployment : Restart(d)
    BY <1>2 DEF Restart
<1>3. CASE \E d \in Deployment : AskStop(d)
    BY <1>3 DEF AskStop
<1>4. CASE \E d \in Deployment : Unroute(d)
    BY <1>4 DEF Unroute
<1>5. CASE \E d \in Deployment : Delete(d)
    BY <1>5 DEF Delete
<1>6. CASE \E d \in Deployment : ForceComplete(d)
    BY <1>6 DEF ForceComplete
<1>7. CASE \E s \in Sandbox : StartSandbox(s)
    BY <1>7 DEF StartSandbox
<1>8. CASE \E s \in Sandbox : EndSandbox(s)
    BY <1>8 DEF EndSandbox
<1> QED BY <1>1, <1>2, <1>3, <1>4, <1>5, <1>6, <1>7, <1>8 DEF User

\* A row moves only where the handler at work on it may find it.
LEMMA UserKeeps == AgentInv /\ User => AgentInv'
<1> SUFFICES ASSUME AgentInv, User PROVE AgentInv'
    OBVIOUS
<1>1. PICK w \in Work, to \in RowState :
              /\ row' = [row EXCEPT ![w] = to] /\ asked < MaxUser /\ asked' = asked + 1
              /\ nudge' \in {nudge, TRUE}
              /\ UNCHANGED <<userNode, refused, artifact, bootKnown, unheard, rotated, lost, crashes,
                             loop, toPoll, batch, cur, wait, idle, disabled, claimed, mat, nodevars, probevars,
                             exported>>
              /\ \/ w \in Deployment /\ row[w] = "new" /\ to = "materialize"
                 \/ w \in Deployment /\ row[w] = "failed" /\ to = "materialize"
                 \/ w \in Deployment /\ userNode /\ row[w] = "stopped" /\ to = "materialize"
                 \/ w \in Deployment /\ userNode /\ row[w] = "ready" /\ to = "stopping"
                 \/ w \in Deployment /\ ~userNode /\ row[w] = "ready" /\ to = "unrouting"
                 \/ w \in Deployment /\ row[w] \notin {"absent", "new", "releasing", "gone"} /\ to = "releasing"
                 \/ w \in Deployment /\ row[w] = "stopping" /\ to = "stopped"
                 \/ w \in Sandbox /\ row[w] = "new" /\ to = "sandbox_up"
                 \/ w \in Sandbox /\ row[w] \in {"sandbox_up", "up"} /\ to = "sandbox_destroy"
    BY UserMoves, Zenon
<1>2. UNCHANGED <<userNode, refused, artifact, bootKnown, unheard, rotated, lost, crashes,
                  loop, toPoll, batch, cur, wait, idle, disabled, claimed, mat, repo, served, running, kept,
                  images, route, fails, old, unprobed, exported>>
    BY <1>1 DEF nodevars, probevars
<1>3. row'[w] = to /\ \A x \in Work \ {w} : row'[x] = row[x]
    BY <1>1 DEF AgentInv, AgentTypes, ApiTypes
<1>4. ApiTypes'
    <2>1. /\ row' \in [Work -> RowState]
          /\ \A d \in Deployment : row'[d] \in DeploymentState
          /\ \A s \in Sandbox : row'[s] \in SandboxState
        BY <1>1, <1>3, AgentConstants DEF AgentInv, AgentTypes, ApiTypes, DeploymentState, SandboxState
    <2>2. asked' \in 0..MaxUser
        BY <1>1, AgentConstants DEF AgentInv, AgentTypes, ApiTypes
    <2> QED BY <1>2, <2>1, <2>2 DEF AgentInv, AgentTypes, ApiTypes
<1>5. LoopTypes' /\ ItemTypes' /\ NodeTypes'
    BY <1>1, <1>2 DEF AgentInv, AgentTypes, LoopTypes, ItemTypes, NodeTypes
<1>6. ItemInv' /\ AtInv' /\ DeadInv' /\ LiveInv'
    BY <1>2 DEF AgentInv, ItemInv, AtInv, DeadInv, LiveInv, Handles
<1>7. /\ to \notin {"gone", "destroyed", "register_route", "ready"}
      /\ to = "failed" => FALSE
      /\ row[w] \notin {"gone"} /\ (w \in Sandbox => row[w] # "destroyed")
    BY <1>1, AgentConstants
<1>8. RowInv'
    <2>1. ASSUME NEW action \in SyncAction \cup {"materialize"}, row[w] \in Meanwhile(userNode, action)
          PROVE  to \in Meanwhile(userNode, action)
        <3>1. userNode \in BOOLEAN
            BY DEF AgentInv, AgentTypes, ApiTypes
        <3>2. CASE action \in {"materialize", "release", "remove_route"}
            BY <1>1, <2>1, <3>2 DEF Meanwhile
        <3>3. CASE action = "stop"
            BY <1>1, <2>1, <3>3 DEF Meanwhile
        <3>4. CASE action = "probe"
            BY <1>1, <2>1, <3>1, <3>4 DEF Meanwhile
        <3>5. CASE action \in SandboxAction
            <4>1. row[w] \in {"sandbox_up", "sandbox_destroy"}
                BY <2>1, <3>5 DEF Meanwhile, SandboxAction
            <4>2. w \notin Deployment
                BY <4>1 DEF AgentInv, AgentTypes, ApiTypes, DeploymentState
            <4>3. row[w] = "sandbox_up" /\ to = "sandbox_destroy"
                BY <1>1, <4>1, <4>2
            <4> QED BY <2>1, <3>5, <4>3 DEF Meanwhile, SandboxAction
        <3>6. CASE action \in {"register_route", "assert_route"}
            BY <1>1, <1>7, <2>1, <3>6 DEF Meanwhile
        <3> QED BY <3>2, <3>3, <3>4, <3>5, <3>6 DEF SyncAction, SandboxAction
    <2>2. ASSUME NEW x \in Work, NEW action \in SyncAction \cup {"materialize"},
                 row[x] \in Meanwhile(userNode, action)
          PROVE  row'[x] \in Meanwhile(userNode, action)
        BY <1>3, <2>1, <2>2
    <2>3. \A i \in batch : row'[i.id] \in Meanwhile(userNode, i.action)
        BY <2>2 DEF AgentInv, AgentTypes, ItemTypes, Item, RowInv
    <2>4. cur # NoItem => row'[cur.id] \in Meanwhile(userNode, cur.action)
        BY <2>2 DEF AgentInv, AgentTypes, ItemTypes, Handler, RowInv
    <2>5. \A d \in Deployment : mat[d] # "none" => row'[d] \in Meanwhile(userNode, "materialize")
        BY <2>2, AgentConstants DEF AgentInv, RowInv
    <2> QED BY <1>2, <2>3, <2>4, <2>5 DEF AgentInv, RowInv
<1>9. ReleaseInv'
    <2>1. \A d \in Deployment : row'[d] = "gone" => row[d] = "gone"
        BY <1>3, <1>7, AgentConstants
    <2> QED BY <1>2, <2>1 DEF AgentInv, ReleaseInv, Bare, Unrouted, Handles
<1>10. SandboxInv'
    <2>1. \A s \in Sandbox : row'[s] = "destroyed" <=> row[s] = "destroyed"
        BY <1>3, <1>7, AgentConstants
    <2> QED BY <1>2, <2>1 DEF AgentInv, SandboxInv, Clean, Handles
<1>11. LiveRowIsServed'
    <2>1. \A d \in Deployment : row'[d] \in {"register_route", "ready"} => row'[d] = row[d]
        BY <1>3, <1>7, AgentConstants
    <2> QED BY <1>2, <2>1 DEF AgentInv, LiveRowIsServed
<1>12. StreakInv'
    <2>1. ASSUME NEW d \in Deployment, ~userNode,
                 row'[d] \notin {"ready", "unrouting", "stopped", "releasing", "gone"}
          PROVE  row[d] \notin {"ready", "unrouting", "stopped", "releasing", "gone"}
        BY <1>1, <1>3, <2>1, AgentConstants
    <2> QED BY <1>2, <2>1 DEF AgentInv, StreakInv, Handles
<1> QED BY <1>4, <1>5, <1>6, <1>8, <1>9, <1>10, <1>11, <1>12 DEF AgentInv, AgentTypes

-----------------------------------------------------------------------------
(* Reports.                                                                 *)

\* A report moves its own row by its event, or is lost, or retires the endpoint.
LEMMA ReportDoes ==
    ASSUME AgentTypes, NEW w \in Work, NEW event, NEW status \in {"none", "available", "failed"},
           Told(w, event, status), event = "materialized" => w \in Deployment
    PROVE  /\ \A x \in Work \ {w} : row'[x] = row[x]
           /\ row'[w] = row[w] \/ row'[w] = After(row[w], event)
           /\ row'[w] # row[w] => lost' = lost /\ EndpointOf[w] \notin rotated
           /\ row' \in [Work -> RowState]
           /\ \A d \in Deployment : row'[d] \in DeploymentState
           /\ \A s \in Sandbox : row'[s] \in SandboxState
           /\ artifact' \in [Sandbox -> {"none", "available", "failed"}]
           /\ \A s \in Sandbox : artifact'[s] = IF s = w /\ row'[w] # row[w] THEN status ELSE artifact[s]
           /\ \A x \in unprobed' : x \in unprobed \/ (x = w /\ event = "materialized")
           /\ unprobed' \subseteq Deployment
           /\ lost' \in Nat /\ lost <= lost' /\ lost' + crashes <= MaxTrouble
           /\ disabled \subseteq disabled' /\ disabled' \subseteq Endpoint
<1> USE AgentConstants DEF AgentTypes
<1>1. EndpointOf[w] \in Endpoint
    OBVIOUS
<1>2. CASE /\ ~Unauthorized(EndpointOf[w])
           /\ row' = [row EXCEPT ![w] = After(row[w], event)]
           /\ SandboxReport(w, status)
           /\ unprobed' = IF event = "materialized" THEN unprobed \cup {w} ELSE unprobed
           /\ UNCHANGED <<disabled, lost>>
    <2>1. /\ row'[w] = After(row[w], event) /\ \A x \in Work \ {w} : row'[x] = row[x]
          /\ DOMAIN row' = Work /\ row' = [x \in Work |-> row'[x]]
        BY <1>2 DEF ApiTypes
    <2>2. /\ w \in Deployment => row'[w] \in DeploymentState
          /\ w \in Sandbox => row'[w] \in SandboxState
        BY <2>1, AfterKeepsKind DEF ApiTypes
    <2>3. /\ \A d \in Deployment : row'[d] \in DeploymentState
          /\ \A s \in Sandbox : row'[s] \in SandboxState
        BY <2>1, <2>2 DEF ApiTypes
    <2>4. row' \in [Work -> RowState]
        BY <2>1, <2>3, Kinds
    <2>5. /\ artifact' \in [Sandbox -> {"none", "available", "failed"}]
          /\ \A s \in Sandbox : artifact'[s] = IF s = w /\ row'[w] # row[w] THEN status ELSE artifact[s]
        BY <1>2 DEF SandboxReport, ApiTypes
    <2>6. unprobed' \subseteq Deployment /\ \A x \in unprobed' : x \in unprobed \/ (x = w /\ event = "materialized")
        BY <1>2 DEF NodeTypes
    <2> QED BY <1>2, <2>1, <2>3, <2>4, <2>5, <2>6 DEF Unauthorized, ApiTypes, LoopTypes
<1>3. CASE /\ Trouble /\ lost' = lost + 1
           /\ UNCHANGED <<row, artifact, unprobed, disabled>>
    BY <1>3, TroubleLeft DEF ApiTypes, NodeTypes, LoopTypes
<1>4. CASE /\ DisableEndpoint(EndpointOf[w])
           /\ UNCHANGED <<row, artifact, unprobed, lost>>
    <2>1. disabled \subseteq disabled' /\ disabled' \subseteq Endpoint
        BY <1>1, <1>4 DEF LoopTypes, DisableEndpoint
    <2>2. lost' \in Nat /\ lost <= lost' /\ lost' + crashes <= MaxTrouble
        BY <1>4 DEF ApiTypes
    <2> QED BY <1>4, <2>1, <2>2 DEF ApiTypes, NodeTypes
<1> QED BY <1>2, <1>3, <1>4 DEF Told

\* An event that moves a row: from where, to where.
LEMMA ReportMoves ==
    ASSUME NEW r, NEW event, NEW after, after = After(r, event), after # r
    PROVE  \/ r = "materialize" /\ event = "materialized" /\ after = "register_route"
           \/ r = "register_route" /\ event = "route_registered" /\ after = "ready"
           \/ r = "ready" /\ event = "runtime_fail" /\ after = "failed"
           \/ r = "unrouting" /\ event = "route_removed" /\ after = "stopped"
           \/ r = "stopping" /\ event = "stop_done" /\ after = "stopped"
           \/ r = "releasing" /\ event = "released" /\ after = "gone"
           \/ r = "sandbox_up" /\ event = "sandbox_up" /\ after = "up"
           \/ r = "sandbox_up" /\ event = "sandbox_up_failed" /\ after = "destroyed"
           \/ r = "sandbox_destroy" /\ event = "sandbox_destroy" /\ after = "destroyed"
           \/ r \in {"materialize", "register_route"} /\ event = "materialize_failed" /\ after = "failed"
BY DEF After

\* The end of a handler: its row is reported and its claim released.
LEMMA FinishKeeps == AgentInv /\ Finish => AgentInv'
<1> SUFFICES ASSUME AgentInv, Finish PROVE AgentInv'
    OBVIOUS
<1> DEFINE w == cur.id
<1>1. /\ cur # NoItem /\ cur.at \notin {"begin", "teardown", "exported"} /\ cur' = NoItem
      /\ claimed' = claimed \ {w}
      /\ \/ cur.at = "silent" /\ UNCHANGED <<row, artifact, unprobed, disabled, lost>>
         \/ Told(w, cur.at, cur.status)
      /\ UNCHANGED <<bootKnown, unheard, rotated, userNode, refused, crashes, asked, loop, toPoll,
                     batch, nudge, wait, idle, mat, repo, served, running, kept, images, route, fails, old, exported>>
    BY DEF Finish, nodevars
<1>2. /\ cur \in Handler /\ w \in Work /\ cur.at \in HandlerAt /\ cur.status \in {"none", "available", "failed"}
    BY <1>1 DEF AgentInv, AgentTypes, ItemTypes, Handler
<1>3. /\ \A x \in Work \ {w} : row'[x] = row[x]
      /\ row'[w] = row[w] \/ row'[w] = After(row[w], cur.at)
      /\ row'[w] # row[w] => lost' = lost /\ EndpointOf[w] \notin rotated
      /\ row' \in [Work -> RowState]
      /\ \A d \in Deployment : row'[d] \in DeploymentState
      /\ \A s \in Sandbox : row'[s] \in SandboxState
      /\ artifact' \in [Sandbox -> {"none", "available", "failed"}]
      /\ \A s \in Sandbox : artifact'[s] = IF s = w /\ row'[w] # row[w] THEN cur.status ELSE artifact[s]
      /\ unprobed' \subseteq unprobed
      /\ lost' \in Nat /\ lost <= lost' /\ lost' + crashes <= MaxTrouble
      /\ disabled \subseteq disabled' /\ disabled' \subseteq Endpoint
    <2>1. cur.at # "materialized"
        BY <1>2 DEF HandlerAt
    <2>2. CASE Told(w, cur.at, cur.status)
        BY <1>2, <2>1, <2>2, ReportDoes DEF AgentInv, AgentTypes, NodeTypes
    <2>3. CASE UNCHANGED <<row, artifact, unprobed, disabled, lost>>
        BY <2>3 DEF AgentInv, AgentTypes, ApiTypes, LoopTypes
    <2> QED BY <1>1, <2>2, <2>3
<1>4. row'[w] # row[w] =>
           /\ row'[w] = After(row[w], cur.at)
           /\ row[w] \notin {"gone", "destroyed", "failed"}
           /\ row'[w] = "gone" => cur.at = "released"
           /\ row'[w] = "destroyed" => cur.at \in {"sandbox_up_failed", "sandbox_destroy"}
           /\ row'[w] = "ready" => row[w] = "register_route" /\ cur.at = "route_registered"
           /\ row'[w] # "register_route"
           /\ row'[w] = "failed" =>
                \/ cur.at = "runtime_fail" /\ row[w] = "ready"
                \/ cur.at = "materialize_failed" /\ row[w] \in {"materialize", "register_route"}
           /\ row'[w] \in {"gone", "ready", "register_route", "failed", "stopped", "up", "destroyed"}
           /\ row'[w] = "up" => cur.at = "sandbox_up"
    <2>1. cur.at # "materialized"
        BY <1>2 DEF HandlerAt
    <2> QED BY <1>2, <1>3, <2>1, ReportMoves
<1>5. /\ \A i \in batch : i.id # w
      /\ w \in Deployment => mat[w] = "none"
      /\ cur.action = "sandbox_destroy" => row[w] = "sandbox_destroy"
      /\ w \in Sandbox <=> cur.action \in SandboxAction
    BY <1>1, HandledRow DEF AgentInv, ItemInv, Handles
<1> HIDE DEF w
<1>6. AgentTypes'
    <2>1. ApiTypes'
        BY <1>1, <1>3 DEF AgentInv, AgentTypes, ApiTypes
    <2>2. LoopTypes' /\ ItemTypes' /\ NodeTypes'
        BY <1>1, <1>3 DEF AgentInv, AgentTypes, LoopTypes, ItemTypes, NodeTypes
    <2> QED BY <2>1, <2>2 DEF AgentTypes
<1>7. ItemInv'
    <2>1. \A d \in Deployment : mat[d] # "none" => d \in claimed'
        BY <1>1, <1>5 DEF AgentInv, ItemInv
    <2> QED BY <1>1, <2>1 DEF AgentInv, ItemInv, Handles
<1>8. RowInv'
    <2>1. \A i \in batch : row'[i.id] = row[i.id]
        BY <1>3, <1>5 DEF AgentInv, AgentTypes, ItemTypes, Item
    <2>2. \A d \in Deployment : mat[d] # "none" => row'[d] = row[d]
        BY <1>3, <1>5, AgentConstants
    <2> QED BY <1>1, <2>1, <2>2 DEF AgentInv, RowInv
<1>9. AtInv' /\ DeadInv'
    BY <1>1 DEF AtInv, DeadInv, Handles
<1>10. ReleaseInv'
    <2>1. SUFFICES ASSUME NEW d \in Deployment, row'[d] = "gone"
                   PROVE  mat[d] = "none" /\ Bare(d)' /\ Unrouted(d)'
        BY <1>1 DEF ReleaseInv, Handles
    <2>2. Bare(d) /\ Unrouted(d) /\ mat[d] = "none"
        <3>1. CASE row[d] = "gone"
            BY <3>1 DEF AgentInv, ReleaseInv
        <3>2. CASE row[d] # "gone"
            <4>1. d = w /\ cur.at = "released"
                BY <1>3, <1>4, <2>1, <3>2, AgentConstants
            <4>2. Handles(d)
                BY <1>1, <4>1 DEF Handles, w
            <4> QED BY <1>5, <4>1, <4>2 DEF AgentInv, ReleaseInv
        <3> QED BY <3>1, <3>2
    <2> QED BY <1>1, <2>2 DEF Bare, Unrouted
<1>11. SandboxInv'
    <2>1. Clean' => Clean /\ lost' = lost
        BY <1>1, <1>3 DEF Clean, AgentInv, AgentTypes, ApiTypes
    <2>2. SUFFICES ASSUME NEW s \in Sandbox
                   PROVE  /\ row'[s] = "destroyed" => s \notin running
                          /\ artifact'[s] = "available" => s \in exported
                          /\ artifact'[s] # "none" => row'[s] = "destroyed"
                          /\ artifact'[s] = "failed" /\ Clean' => s \notin exported
                          /\ Clean' /\ s \in exported /\ row'[s] # "destroyed" => EndpointOf[s] \in rotated
                          /\ userNode => s \notin running
        BY <1>1 DEF SandboxInv, Handles
    <2>3. /\ row[s] = "destroyed" => s \notin running
          /\ Handles(s) /\ cur.at \in {"sandbox_up_failed", "sandbox_destroy"} => s \notin running
          /\ artifact[s] = "available" => s \in exported
          /\ Handles(s) /\ cur.status = "available" => s \in exported
          /\ artifact[s] # "none" => row[s] = "destroyed"
          /\ artifact[s] = "failed" /\ Clean => s \notin exported
          /\ Handles(s) /\ cur.status = "failed" /\ Clean => s \notin exported \/ EndpointOf[s] \in rotated
          /\ Clean /\ s \in exported /\ row[s] # "destroyed" =>
                \/ Handles(s) /\ cur.status = "available"
                \/ EndpointOf[s] \in rotated
          /\ userNode => s \notin running
        BY DEF AgentInv, SandboxInv
    <2>4. CASE s # w
        <3>1. ~Handles(s) /\ row'[s] = row[s] /\ artifact'[s] = artifact[s]
            BY <1>3, <2>4, AgentConstants DEF Handles, w
        <3> QED BY <2>1, <2>3, <3>1
    <2>5. CASE s = w
        <3>1. Handles(s)
            BY <1>1, <2>5 DEF Handles, w
        <3>2. CASE row'[s] = row[s]
            <4>1. artifact'[s] = artifact[s]
                BY <1>3, <2>5, <3>2
            <4>2. ASSUME Clean', s \in exported, row[s] # "destroyed" PROVE EndpointOf[s] \in rotated
                <5>1. SUFFICES ASSUME EndpointOf[s] \notin rotated PROVE FALSE
                    OBVIOUS
                <5>2. cur.status = "available" /\ Clean
                    BY <2>1, <2>3, <4>2, <5>1
                <5>3. cur.at \in {"sandbox_destroy", "sandbox_destroy_failed"} /\ cur.action = "sandbox_destroy"
                    BY <1>1, <5>2 DEF AgentInv, AtInv
                <5>4. cur.at = "sandbox_destroy"
                    BY <1>1, <5>2, <5>3 DEF AgentInv, AtInv, Clean
                <5>5. row[s] = "sandbox_destroy" /\ Told(w, cur.at, cur.status)
                    BY <1>1, <1>5, <2>5, <5>3, <5>4
                <5>6. row' = [row EXCEPT ![w] = After(row[w], cur.at)]
                    BY <2>1, <2>5, <4>2, <5>1, <5>5 DEF Told, Unauthorized, AgentInv, AgentTypes, ApiTypes
                <5>7. row'[s] = After("sandbox_destroy", "sandbox_destroy")
                    BY <2>5, <5>4, <5>5, <5>6, AgentConstants DEF AgentInv, AgentTypes, ApiTypes
                <5> QED BY <3>2, <5>5, <5>7 DEF After
            <4> QED BY <2>1, <2>3, <3>2, <4>1, <4>2
        <3>3. CASE row'[s] # row[s]
            <4>1. artifact'[s] = cur.status /\ EndpointOf[s] \notin rotated
                BY <1>3, <2>5, <3>3
            <4>2. row'[s] = "destroyed" => s \notin running
                BY <1>4, <2>3, <2>5, <3>1, <3>3
            <4>3. cur.status # "none" => row'[s] = "destroyed"
                <5>1. SUFFICES ASSUME cur.status # "none" PROVE row'[s] = "destroyed"
                    OBVIOUS
                <5>2. cur.at \in {"sandbox_destroy", "sandbox_destroy_failed"} /\ cur.action = "sandbox_destroy"
                    BY <1>1, <5>1 DEF AgentInv, AtInv
                <5>3. row[s] = "sandbox_destroy" /\ row'[s] = After(row[s], cur.at)
                    BY <1>3, <1>5, <2>5, <3>3, <5>2
                <5> QED BY <3>3, <5>2, <5>3 DEF After
            <4>4. Clean' /\ s \in exported => row'[s] = "destroyed"
                <5>1. SUFFICES ASSUME Clean', s \in exported PROVE row'[s] = "destroyed"
                    OBVIOUS
                <5>2. row[s] # "destroyed"
                    BY <1>4, <2>5, <3>3
                <5>3. cur.status = "available"
                    BY <2>1, <2>3, <4>1, <5>1, <5>2
                <5> QED BY <4>3, <5>3
            <4> QED BY <2>1, <2>3, <3>1, <4>1, <4>2, <4>3, <4>4
        <3> QED BY <3>2, <3>3
    <2> QED BY <2>4, <2>5
<1>12. LiveInv'
    BY <1>1 DEF AgentInv, LiveInv, Handles
<1>13. LiveRowIsServed'
    <2>1. ASSUME NEW d \in Deployment
          PROVE  /\ row'[d] \in {"register_route", "ready"} /\ EndpointOf[d] \in bootKnown =>
                       d \in (IF userNode THEN repo \cap running ELSE repo \cap served)
                 /\ row'[d] = "ready" => d \in route
        <3>1. /\ row[d] \in {"register_route", "ready"} /\ EndpointOf[d] \in bootKnown =>
                    d \in (IF userNode THEN repo \cap running ELSE repo \cap served)
              /\ row[d] = "ready" => d \in route
            BY DEF AgentInv, LiveRowIsServed
        <3>2. CASE row'[d] = row[d]
            BY <3>1, <3>2
        <3>3. CASE row'[d] # row[d]
            <4>1. d = w
                BY <1>3, <3>3, AgentConstants
            <4>2. row'[d] # "register_route"
                BY <1>4, <3>3, <4>1
            <4>3. row'[d] = "ready" => row[d] = "register_route" /\ d \in route
                <5>1. Handles(d)
                    BY <1>1, <4>1 DEF Handles, w
                <5> QED BY <1>4, <3>3, <4>1, <5>1 DEF AgentInv, LiveInv
            <4> QED BY <3>1, <4>2, <4>3
        <3> QED BY <3>2, <3>3
    <2> QED BY <1>1, <2>1 DEF LiveRowIsServed
<1>14. StreakInv'
    <2>1. ASSUME NEW d \in Deployment, ~userNode, ~unheard,
                 row'[d] \notin {"ready", "unrouting", "stopped", "releasing", "gone"}
          PROVE  fails[d] <= 1
        <3>1. CASE row'[d] = row[d]
            BY <2>1, <3>1 DEF AgentInv, StreakInv
        <3>2. CASE row'[d] # row[d]
            <4>1. d = w /\ Handles(d) /\ row'[d] \in DeploymentState
                BY <1>1, <1>3, <3>2, AgentConstants DEF Handles, w
            <4>2. row'[d] = "failed"
                BY <1>4, <2>1, <3>2, <4>1 DEF DeploymentState
            <4>3. \/ cur.at = "runtime_fail"
                  \/ row[d] \in {"materialize", "register_route"}
                BY <1>4, <3>2, <4>1, <4>2
            <4>4. CASE cur.at = "runtime_fail"
                BY <4>1, <4>4 DEF AgentInv, DeadInv
            <4>5. CASE row[d] \in {"materialize", "register_route"}
                BY <2>1, <4>5 DEF AgentInv, StreakInv
            <4> QED BY <4>3, <4>4, <4>5
        <3> QED BY <3>1, <3>2
    <2> QED BY <1>1, <1>3, <2>1 DEF AgentInv, StreakInv, Handles
<1> QED BY <1>6, <1>7, <1>8, <1>9, <1>10, <1>11, <1>12, <1>13, <1>14 DEF AgentInv

\* The end of a materialize: a report, and the claim is released.
LEMMA MaterializedKeeps == ASSUME AgentInv, NEW d \in Deployment, Materialized(d) PROVE AgentInv'
<1>1. /\ mat[d] \in {"materialized", "materialize_failed"}
      /\ mat' = [mat EXCEPT ![d] = "none"] /\ claimed' = claimed \ {d}
      /\ Told(d, mat[d], "none")
      /\ running' = IF ~userNode /\ row'[d] = "register_route" /\ row[d] = "materialize"
                      THEN running \cup {d} ELSE running
      /\ UNCHANGED <<bootKnown, unheard, rotated, userNode, refused, crashes, asked, loop, toPoll,
                     batch, cur, nudge, wait, idle, repo, served, kept, images, route, fails, old, exported>>
    BY DEF Materialized, Advance, ReleaseClaim, loopvars
<1>2. /\ d \in Work /\ d \notin Sandbox /\ ~Handles(d) /\ d \in claimed
      /\ row[d] \in {"materialize", "register_route", "failed", "releasing"}
    BY <1>1, AgentConstants DEF AgentInv, ItemInv, RowInv, Meanwhile
<1>3. /\ \A x \in Work \ {d} : row'[x] = row[x]
      /\ row'[d] = row[d] \/ row'[d] = After(row[d], mat[d])
      /\ row' \in [Work -> RowState]
      /\ \A x \in Deployment : row'[x] \in DeploymentState
      /\ \A s \in Sandbox : row'[s] \in SandboxState
      /\ artifact' \in [Sandbox -> {"none", "available", "failed"}]
      /\ \A s \in Sandbox : artifact'[s] = artifact[s]
      /\ \A x \in unprobed' : x \in unprobed \/ x = d
      /\ unprobed' \subseteq Deployment
      /\ lost' \in Nat /\ lost <= lost' /\ lost' + crashes <= MaxTrouble
      /\ disabled \subseteq disabled' /\ disabled' \subseteq Endpoint
    BY <1>1, <1>2, ReportDoes DEF AgentInv
<1>4. \/ row'[d] = row[d]
      \/ row'[d] = "register_route" /\ row[d] = "materialize" /\ mat[d] = "materialized"
      \/ row'[d] = "failed" /\ row[d] \in {"materialize", "register_route"}
    BY <1>1, <1>3, ReportMoves
<1>5. /\ mat' \in [Deployment -> {"none", "manifest", "tree", "load", "serve", "materialized",
                                  "materialize_failed"}]
      /\ mat'[d] = "none" /\ \A x \in Deployment \ {d} : mat'[x] = mat[x]
    BY <1>1 DEF AgentInv, AgentTypes, ItemTypes
<1>6. /\ running \subseteq running' /\ running' \subseteq Work
      /\ \A x \in running' : x \in running \/ x = d
    BY <1>1, <1>2 DEF AgentInv, AgentTypes, NodeTypes
<1>7. AgentTypes'
    <2>1. ApiTypes'
        BY <1>1, <1>3 DEF AgentInv, AgentTypes, ApiTypes
    <2>2. LoopTypes'
        BY <1>1, <1>3 DEF AgentInv, AgentTypes, LoopTypes
    <2>3. ItemTypes'
        BY <1>1, <1>5 DEF AgentInv, AgentTypes, ItemTypes
    <2>4. NodeTypes'
        BY <1>1, <1>3, <1>6 DEF AgentInv, AgentTypes, NodeTypes
    <2> QED BY <2>1, <2>2, <2>3, <2>4 DEF AgentTypes
<1>8. ItemInv'
    <2>1. \A x \in Deployment : mat'[x] # "none" => x \in claimed' /\ ~Handles(x)
        BY <1>1, <1>5 DEF AgentInv, ItemInv
    <2>2. cur # NoItem => cur.id \in claimed'
        BY <1>1, <1>2 DEF AgentInv, ItemInv, Handles
    <2> QED BY <1>1, <2>1, <2>2 DEF AgentInv, ItemInv, Handles
<1>9. RowInv'
    <2>1. ASSUME NEW i \in batch PROVE row'[i.id] \in Meanwhile(userNode, i.action)
        <3>1. row[i.id] \in Meanwhile(userNode, i.action) /\ i.id \in Work
            BY DEF AgentInv, AgentTypes, ItemTypes, Item, RowInv
        <3>2. CASE row'[i.id] = row[i.id]
            BY <3>1, <3>2
        <3>3. CASE row'[i.id] # row[i.id]
            <4>1. i.id = d /\ row'[d] \in {"register_route", "failed"} /\ row[d] \in {"materialize", "register_route"}
                BY <1>3, <1>4, <3>1, <3>3
            <4>2. i.action \notin {"stop", "remove_route", "probe", "sandbox_up", "sandbox_destroy"}
                BY <1>1, <1>2, <4>1 DEF AgentInv, AgentTypes, ItemTypes, RowInv, SandboxAction
            <4>3. i.action # "release"
                BY <3>1, <4>1 DEF Meanwhile
            <4> QED BY <4>1, <4>2, <4>3 DEF Meanwhile, RowState
        <3> QED BY <3>2, <3>3
    <2>2. cur # NoItem => row'[cur.id] \in Meanwhile(userNode, cur.action)
        <3>1. cur # NoItem => cur.id \in Work /\ cur.id # d
            BY <1>2 DEF AgentInv, AgentTypes, ItemTypes, Handler, Handles
        <3> QED BY <1>3, <3>1 DEF AgentInv, RowInv
    <2>3. \A x \in Deployment : mat'[x] # "none" => row'[x] \in Meanwhile(userNode, "materialize")
        BY <1>3, <1>5, AgentConstants DEF AgentInv, RowInv
    <2>4. \A i \in batch : i.action \in {"stop", "remove_route", "probe"} => mat'[i.id] = "none"
        <3>1. ASSUME NEW i \in batch, i.action \in {"stop", "remove_route", "probe"}
              PROVE  i.id \in Deployment
            BY <3>1, AgentConstants DEF AgentInv, AgentTypes, ItemTypes, Item, SandboxAction
        <3> QED BY <1>5, <3>1 DEF AgentInv, RowInv
    <2> QED BY <1>1, <2>1, <2>2, <2>3, <2>4 DEF RowInv
<1>10. AtInv'
    BY <1>1 DEF AgentInv, AtInv
<1>11. DeadInv'
    <2>1. ASSUME NEW x \in Deployment, Handles(x), cur.at = "runtime_fail" PROVE x \notin unprobed' /\ fails[x] = 0
        BY <1>2, <1>3, <2>1 DEF AgentInv, DeadInv
    <2> QED BY <1>1, <2>1 DEF DeadInv, Handles
<1>12. ReleaseInv'
    <2>1. \A x \in Deployment : row'[x] = "gone" => row[x] = "gone" /\ x # d
        BY <1>2, <1>3, <1>4, AgentConstants
    <2>2. ASSUME NEW x \in Deployment, x # d, Bare(x) PROVE Bare(x)'
        BY <1>1, <1>6, <2>2 DEF Bare
    <2>3. \A x \in Deployment : Unrouted(x)' <=> Unrouted(x)
        BY <1>1 DEF Unrouted
    <2>4. \A x \in Deployment : Handles(x)' => Handles(x) /\ x # d /\ cur' = cur
        BY <1>1, <1>2 DEF Handles
    <2> QED BY <1>5, <2>1, <2>2, <2>3, <2>4 DEF AgentInv, ReleaseInv
<1>13. SandboxInv'
    <2>1. Clean' => Clean
        BY <1>1, <1>3 DEF Clean, AgentInv, AgentTypes, ApiTypes
    <2>2. \A s \in Sandbox : /\ row'[s] = row[s] /\ artifact'[s] = artifact[s]
                             /\ s \in running' <=> s \in running
        BY <1>2, <1>3, <1>6, AgentConstants
    <2> QED BY <1>1, <2>1, <2>2 DEF AgentInv, SandboxInv, Handles
<1>14. LiveInv'
    <2>1. \A x \in Deployment : mat'[x] # "none" => mat'[x] = mat[x]
        BY <1>5
    <2> QED BY <1>1, <1>6, <2>1 DEF AgentInv, LiveInv, Handles
<1>15. LiveRowIsServed'
    <2>1. ASSUME NEW x \in Deployment
          PROVE  /\ row'[x] \in {"register_route", "ready"} /\ EndpointOf[x] \in bootKnown =>
                       x \in (IF userNode THEN repo \cap running' ELSE repo \cap served)
                 /\ row'[x] = "ready" => x \in route
        <3>1. CASE row'[x] = row[x]
            BY <1>6, <3>1 DEF AgentInv, LiveRowIsServed
        <3>2. CASE row'[x] # row[x]
            <4>1. x = d
                BY <1>3, <3>2, AgentConstants
            <4>2. row'[d] = "failed" \/ (row'[d] = "register_route" /\ mat[d] = "materialized")
                BY <1>4, <3>2, <4>1
            <4>3. mat[d] = "materialized" => d \in repo /\ (IF userNode THEN d \in running ELSE d \in served)
                BY DEF AgentInv, LiveInv
            <4> QED BY <1>6, <4>1, <4>2, <4>3
        <3> QED BY <3>1, <3>2
    <2> QED BY <1>1, <2>1 DEF LiveRowIsServed
<1>16. StreakInv'
    <2>1. ASSUME ~userNode, ~unheard, NEW x \in Deployment
          PROVE  /\ x \in unprobed' => fails[x] <= 1
                 /\ row'[x] \notin {"ready", "unrouting", "stopped", "releasing", "gone"} => fails[x] <= 1
                 /\ mat'[x] # "none" => fails[x] <= 1
        <3>1. CASE x = d
            BY <1>1, <2>1, <3>1 DEF AgentInv, StreakInv
        <3>2. CASE x # d
            <4>1. row'[x] = row[x] /\ mat'[x] = mat[x] /\ (x \in unprobed' => x \in unprobed)
                BY <1>3, <1>5, <3>2, AgentConstants
            <4> QED BY <2>1, <4>1 DEF AgentInv, StreakInv
        <3> QED BY <3>1, <3>2
    <2> QED BY <1>1, <1>3, <2>1 DEF AgentInv, StreakInv, Handles
<1> QED BY <1>7, <1>8, <1>9, <1>10, <1>11, <1>12, <1>13, <1>14, <1>15, <1>16 DEF AgentInv

-----------------------------------------------------------------------------
(* The process ends and begins.                                             *)

\* A crash: what is in memory is gone.
LEMMA CrashKeeps == AgentInv /\ Crash => AgentInv'
<1> SUFFICES ASSUME AgentInv, Crash PROVE AgentInv'
    OBVIOUS
<1>1. /\ Trouble /\ crashes' = crashes + 1 /\ loop' = "pass" /\ toPoll' = Endpoint
      /\ batch' = {} /\ cur' = NoItem /\ nudge' = FALSE
      /\ wait' = [e \in Endpoint |-> 0] /\ idle' = [e \in Endpoint |-> 1]
      /\ disabled' = {} /\ claimed' = {} /\ bootKnown' = {} /\ unheard' = FALSE /\ served' = {}
      /\ mat' = [d \in Deployment |-> "none"]
      /\ fails' = [d \in Deployment |-> 0] /\ old' = {}
      /\ UNCHANGED <<row, artifact, rotated, userNode, refused, lost, asked, repo, running,
                     kept, images, route, unprobed, exported>>
    BY DEF Crash
<1>2. AgentTypes'
    <2>1. ApiTypes'
        <3>1. lost + crashes < MaxTrouble
            BY <1>1, TroubleLeft DEF AgentInv, AgentTypes
        <3>2. lost \in Nat /\ crashes' \in Nat /\ lost + crashes' <= MaxTrouble
            BY <1>1, <3>1, AgentConstants DEF AgentInv, AgentTypes, ApiTypes
        <3>3. IsFiniteSet(rotated')
            BY <1>1 DEF AgentInv, AgentTypes, ApiTypes
        <3> QED BY <1>1, <3>2, <3>3 DEF AgentInv, AgentTypes, ApiTypes
    <2>2. LoopTypes'
        <3>1. 0 \in 0..MaxGap /\ 1 \in 1..MaxIdle
            BY AgentConstants
        <3> QED BY <1>1, <3>1 DEF LoopTypes
    <2>3. ItemTypes'
        BY <1>1 DEF ItemTypes
    <2>4. NodeTypes'
        BY <1>1 DEF AgentInv, AgentTypes, NodeTypes
    <2> QED BY <2>1, <2>2, <2>3, <2>4 DEF AgentTypes
<1>3. ItemInv' /\ RowInv' /\ AtInv' /\ DeadInv' /\ LiveInv'
    BY <1>1 DEF ItemInv, RowInv, AtInv, DeadInv, LiveInv, Handles
<1>4. ReleaseInv'
    BY <1>1 DEF AgentInv, ReleaseInv, Bare, Unrouted, Handles
<1>5. SandboxInv'
    <2>1. ~Clean'
        BY <1>1 DEF Clean, AgentInv, AgentTypes, ApiTypes
    <2> QED BY <1>1, <2>1 DEF AgentInv, SandboxInv, Handles
<1>6. LiveRowIsServed'
    BY <1>1 DEF AgentInv, LiveRowIsServed
<1>7. StreakInv'
    BY <1>1 DEF StreakInv, Handles
<1> QED BY <1>2, <1>3, <1>4, <1>5, <1>6, <1>7 DEF AgentInv

\* The first process, with nothing on the node.
LEMMA AgentInit == Init => AgentInv
<1> SUFFICES ASSUME Init PROVE AgentInv
    OBVIOUS
<1>1. PICK W \in Populations : row = [w \in Work |-> IF w \in W THEN "new" ELSE "absent"]
    BY DEF Init
<1>2. \A w \in Work : row[w] \in {"new", "absent"}
    BY <1>1
<1>3. AgentTypes
    <2>1. ApiTypes
        <3>1. row \in [Work -> RowState]
            BY <1>1 DEF RowState
        <3>2. /\ \A d \in Deployment : row[d] \in DeploymentState
              /\ \A s \in Sandbox : row[s] \in SandboxState
            BY <1>2, AgentConstants DEF DeploymentState, SandboxState
        <3>3. IsFiniteSet(rotated)
            BY FS_EmptySet DEF Init
        <3>4. /\ lost \in Nat /\ crashes \in Nat /\ asked \in 0..MaxUser
              /\ lost + crashes <= MaxTrouble
            BY AgentConstants DEF Init
        <3>5. /\ userNode \in BOOLEAN /\ refused = {} /\ artifact = [s \in Sandbox |-> "none"]
              /\ bootKnown = {} /\ unheard = FALSE /\ rotated = {}
            BY DEF Init
        <3> QED BY <3>1, <3>2, <3>3, <3>4, <3>5 DEF ApiTypes
    <2>2. LoopTypes
        <3>1. 0 \in 0..MaxGap /\ 1 \in 1..MaxIdle
            BY AgentConstants
        <3> QED BY <3>1 DEF Init, LoopTypes
    <2>3. ItemTypes
        BY DEF Init, ItemTypes
    <2>4. NodeTypes
        BY DEF Init, NodeTypes
    <2> QED BY <2>1, <2>2, <2>3, <2>4 DEF AgentTypes
<1>4. ItemInv /\ AtInv /\ DeadInv /\ RowInv /\ LiveInv
    BY DEF Init, ItemInv, AtInv, DeadInv, RowInv, LiveInv, Handles
<1>5. ReleaseInv /\ SandboxInv /\ LiveRowIsServed
    BY <1>2, AgentConstants DEF Init, ReleaseInv, SandboxInv, LiveRowIsServed, Handles
<1>6. StreakInv
    BY DEF Init, StreakInv, Handles
<1> QED BY <1>3, <1>4, <1>5, <1>6 DEF AgentInv

\* Every action keeps the invariant, and so does a stuttering step.
LEMMA AgentStep == AgentInv /\ [Next]_vars => AgentInv'
<1> SUFFICES ASSUME AgentInv, [Next]_vars PROVE AgentInv'
    OBVIOUS
<1>1. CASE User
    BY <1>1, UserKeeps
<1>2. CASE Crash
    BY <1>2, CrashKeeps
<1>3. CASE Loop
    <2>1. CASE Tick \/ PollNow
        BY <2>1, TicksKeep
    <2>2. CASE EndPass
        BY <2>2, EndPassKeeps
    <2>3. CASE Watermark
        BY <2>3, WatermarkKeeps
    <2>4. CASE \E i \in batch : Refuse(i) \/ Skip(i)
        BY <2>4, SkipKeeps
    <2>5. CASE \E i \in batch : Handle(i)
        BY <2>5, HandleKeeps
    <2>6. CASE HandlerStep
        BY <2>6, HandlerKeeps
    <2>7. CASE Finish
        BY <2>7, FinishKeeps
    <2>8. CASE \E e \in Endpoint : Poll(e)
        BY <2>8, PollKeeps
    <2>9. Sync => \/ \E i \in batch : Refuse(i) \/ Skip(i)
                  \/ \E i \in batch : Handle(i)
                  \/ HandlerStep \/ Finish
        BY DEF Sync, HandlerStep
    <2> QED BY <1>3, <2>1, <2>2, <2>3, <2>4, <2>5, <2>6, <2>7, <2>8, <2>9 DEF Loop
<1>4. CASE (\E d \in Deployment : WindowPasses(d)) \/ (\E e \in Endpoint : RotateSecret(e))
    BY <1>4, OutsideKeeps
<1>5. CASE \E d \in Deployment : GoroutineStep(d)
    BY <1>5, GoroutineKeeps
<1>6. CASE \E d \in Deployment : Materialized(d)
    BY <1>6, MaterializedKeeps
<1>7. CASE UNCHANGED vars
    <2>1. UNCHANGED <<nodeState, apivars, envvars, loopvars, disabled, claimed, mat, nodevars, probevars, exported>>
        BY <1>7 DEF vars, apivars, envvars, nodevars, nodeState
    <2>2. UNCHANGED <<userNode, refused, row, artifact, bootKnown, unheard, rotated, lost, crashes, asked,
                      loop, toPoll, batch, cur, nudge, wait, idle, disabled, claimed, mat, repo, served,
                      running, kept, images, route, fails, old, unprobed, exported>>
        BY <2>1 DEF apivars, envvars, loopvars, nodevars, probevars
    <2>3. AgentTypes'
        BY <2>2 DEF AgentInv, AgentTypes, ApiTypes, LoopTypes, ItemTypes, NodeTypes
    <2>4. ItemInv' /\ RowInv'
        BY <2>2 DEF AgentInv, ItemInv, RowInv, Handles
    <2>5. StreakInv' /\ DeadInv'
        BY <2>2 DEF AgentInv, StreakInv, DeadInv, Handles
    <2> QED BY <2>1, <2>2, <2>3, <2>4, <2>5, NodeRests DEF AgentInv
<1>8. \A d \in Deployment : Goroutine(d) => GoroutineStep(d) \/ Materialized(d)
    BY DEF Goroutine, GoroutineStep
<1> QED BY <1>1, <1>2, <1>3, <1>4, <1>5, <1>6, <1>7, <1>8 DEF Next

-----------------------------------------------------------------------------
(* Theorems.                                                                *)

\* The inductive invariant of the work loop (agent.go 360-527).
THEOREM AgentInvHolds == Spec => []AgentInv
<1>1. Init => AgentInv
    BY AgentInit
<1>2. AgentInv /\ [Next]_vars => AgentInv'
    BY AgentStep
<1> QED BY <1>1, <1>2, PTL DEF Spec

\* The agent's state and the API's rows keep their types; the gap between polls
\* and its backoff stay in their bounds, and a synchronous handler holds the
\* claim of its row (agent.go 360-397, 454-527).
THEOREM AgentTypeCorrect == Spec => []TypeOK
<1>1. AgentInv => TypeOK
    <2> SUFFICES ASSUME AgentInv PROVE TypeOK
        OBVIOUS
    <2>1. lost \in 0..MaxTrouble /\ crashes \in 0..MaxTrouble
        BY AgentConstants DEF AgentInv, AgentTypes, ApiTypes
    <2>2. cur # NoItem => cur \in Handler /\ cur.id \in claimed
        BY DEF AgentInv, AgentTypes, ItemTypes, ItemInv
    <2> QED BY <2>1, <2>2 DEF AgentInv, AgentTypes, ApiTypes, LoopTypes, ItemTypes, NodeTypes, TypeOK
<1> QED BY <1>1, AgentInvHolds, PTL

\* What the API has let go of holds nothing on the node, whatever was in flight
\* when it was deleted, and a lost workspace has its reason (agent.go 454-527,
\* 950-1000, sandbox.go 335-412).
THEOREM ReleasedLeavesNothingHolds == Spec => []ReleasedLeavesNothing
<1>1. AgentInv => ReleasedDeployment
    BY DEF AgentInv, ReleaseInv, Bare, Unrouted, ReleasedDeployment
<1>2. AgentInv => DestroyedSandbox
    BY DEF AgentInv, SandboxInv, Clean, DestroyedSandbox
<1>3. AgentInv => ReleasedLeavesNothing
    BY <1>1, <1>2 DEF ReleasedLeavesNothing
<1> QED BY <1>3, AgentInvHolds, PTL

\* A row the API believes live is live on this node (agent.go 66-70, 1119-1136).
THEOREM LiveRowIsServedHolds == Spec => []LiveRowIsServed
<1>1. AgentInv => LiveRowIsServed
    BY DEF AgentInv
<1> QED BY <1>1, AgentInvHolds, PTL

\* Only a handler's own step brings it to its report.
LEMMA HandlerMoves ==
    ASSUME [Next]_vars
    PROVE  cur' = cur \/ cur' = NoItem \/ cur'.at = "begin" \/ HandlerStep
<1>1. CASE Loop
    <2>1. CASE Tick \/ PollNow \/ EndPass \/ Watermark
        BY <2>1 DEF Tick, PollNow, EndPass, Watermark
    <2>2. CASE \E e \in Endpoint : Poll(e)
        BY <2>2 DEF Poll
    <2>3. CASE Sync
        <3>1. CASE \E i \in batch : Refuse(i) \/ Skip(i)
            BY <3>1 DEF Refuse, Skip
        <3>2. CASE \E i \in batch : Handle(i)
            BY <3>2 DEF Handle
        <3>3. CASE Finish
            BY <3>3 DEF Finish
        <3> QED BY <2>3, <3>1, <3>2, <3>3 DEF Sync, HandlerStep
    <2> QED BY <1>1, <2>1, <2>2, <2>3 DEF Loop
<1>2. CASE User
    BY <1>2 DEF User, Create, Restart, AskStop, Unroute, Delete, ForceComplete, StartSandbox, EndSandbox, Ask
<1>3. CASE Crash
    BY <1>3 DEF Crash
<1>4. CASE \E e \in Endpoint : RotateSecret(e)
    BY <1>4 DEF RotateSecret, loopvars
<1>5. CASE \E d \in Deployment : WindowPasses(d)
    BY <1>5 DEF WindowPasses, loopvars
<1>6. CASE \E d \in Deployment : Goroutine(d)
    BY <1>6 DEF Goroutine, FetchManifest, MaterializeTree, LoadImages, Serve, ComposeUp, Materialized,
                Elsewhere, loopvars
<1>7. CASE UNCHANGED vars
    BY <1>7 DEF vars, loopvars
<1> QED BY <1>1, <1>2, <1>3, <1>4, <1>5, <1>6, <1>7 DEF Next

\* The first probe of a life never kills it: the streak it may find has length
\* one, and three refusals are needed (agent.go 1044-1088).
THEOREM FirstProbeSparesHolds == Spec => FirstProbeSpares
<1> DEFINE Spares == \A d \in unprobed : ~userNode /\ ~unheard /\ cur' # NoItem /\ cur'.id = d
                                           => cur'.at # "runtime_fail"
<1>1. AgentInv /\ [Next]_vars => Spares
    <2> SUFFICES ASSUME AgentInv, [Next]_vars, NEW d \in unprobed, ~userNode, ~unheard,
                        cur' # NoItem, cur'.id = d, cur'.at = "runtime_fail"
                 PROVE  FALSE
        OBVIOUS
    <2>1. d \in Deployment /\ fails[d] <= 1 /\ fails[d] \in 0..2
        BY DEF AgentInv, AgentTypes, NodeTypes, StreakInv
    <2>2. CASE cur' = cur
        BY <2>1, <2>2 DEF AgentInv, DeadInv, Handles
    <2>3. CASE HandlerStep
        <3>1. cur.id = d /\ Probes(cur.id)
            BY <2>3, HandlerFrame, HandlerDoes DEF AgentInv, AgentTypes
        <3>2. fails[d] >= 2
            BY <3>1 DEF Probes
        <3> QED BY <2>1, <3>2
    <2> QED BY <2>2, <2>3, HandlerMoves
<1> QED BY <1>1, AgentInvHolds, PTL DEF Spec, FirstProbeSpares
=============================================================================
