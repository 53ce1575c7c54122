------------------------------ MODULE NodeAgent ------------------------------
(***************************************************************************)
(* The work loop of the node agent: it polls each API endpoint for work    *)
(* items, handles them one by one under a claim, runs materializes in      *)
(* goroutines of their own and reports what happened                       *)
(* (node/agent/agent.go, sandbox.go, wake.go, node/githttp, node/ingress). *)
(*                                                                         *)
(* The API is external: a deployment or a sandbox is a row, an offered     *)
(* item follows from the row's state, an event moves the row, and users    *)
(* stop, restart and delete.  An item is offered until its event arrives.  *)
(***************************************************************************)
EXTENDS Naturals, FiniteSets

CONSTANTS
    Endpoint,    \* API environments this node serves, numbered: they are polled in order
    Deployment,
    Sandbox,
    EndpointOf,  \* EndpointOf[w]: the endpoint that owns row w
    Populations, \* the sets of rows a behaviour may be about
    NoItem,      \* no synchronous handler is running
    PortCount,   \* size of the git port range
    MaxIdle,     \* the factor at which the backoff stops to double (1 << 8)
    MaxGap,      \* WorkIdleMax in poll intervals
    MaxTrouble,  \* bound: lost requests, crashes and rotated secrets, together
    MaxUser      \* bound: things users ask for

Work == Deployment \cup Sandbox

\* A synchronous handler: its item, how far it got (at the end: what it reports)
\* and what became of the workspace it exported.
SyncAction == {"register_route", "assert_route", "remove_route", "probe", "stop", "release",
               "sandbox_up", "sandbox_destroy"}
HandlerAt == {"begin", "teardown", "exported", "silent", "route_registered", "materialize_failed",
              "route_removed", "stop_done", "released", "runtime_fail", "sandbox_up",
              "sandbox_up_failed", "sandbox_destroy", "sandbox_destroy_failed"}
Handler == [id : Work, action : SyncAction, at : HandlerAt, status : {"none", "available", "failed"}]

ASSUME NodeAgentAssumption ==
    /\ NoItem \notin Handler
    /\ Endpoint \subseteq Nat /\ EndpointOf \in [Work -> Endpoint]
    /\ Populations \subseteq SUBSET Work
    /\ Deployment \cap Sandbox = {}
    /\ PortCount \in Nat /\ MaxGap \in Nat \ {0} /\ MaxIdle \in Nat \ {0}
    /\ MaxTrouble \in Nat /\ MaxUser \in Nat

VARIABLES
    userNode,   \* a.UserNode: the user's own machine, no Coolify and no git server
    refused,    \* what refused a command so far: "caddy", "docker"
    row,        \* row[w]: the API's row
    artifact,   \* artifact[s]: what the API knows of the workspace of sandbox s
    bootKnown,  \* endpoints that know the boot id of this process
    rotated,    \* endpoints that answer 401
    lost,       \* reports lost so far
    crashes,
    asked,      \* things users asked for so far
    loop,       \* Run: "select", "pass", "watermark", "exited"
    toPoll,     \* endpoints this pass has still to poll
    batch,      \* items of the answer not handled yet
    cur,        \* the synchronous handler: its item and how far it got
    nudge,      \* PollNow holds a nudge
    wait,       \* wait[e]: ticks until e is due (epNext)
    idle,       \* 1 << epIdle
    disabled,   \* epDisabled
    claimed,    \* inFlight
    mat,        \* mat[d]: how far the materialize goroutine of d got
    repo,       \* deployments with a repository or a worktree on disk
    served,     \* deployments served by the git server
    running,    \* deployments and sandboxes with a running container
    kept,       \* those whose container exists but is stopped
    images,     \* deployments with oa-deploy images in the local daemon
    route,      \* deployments with a route in Caddy
    fails,      \* probeFails
    old,        \* deployments whose probe streak is older than probeKillWindow
    unprobed,   \* ghost: deployments not probed since they were materialized
    unheard,    \* ghost: a watermark of this process was lost
    exported    \* ghost: sandboxes whose workspace was uploaded

apivars  == <<row, artifact, bootKnown, unheard, rotated>>
envvars  == <<userNode, refused, lost, crashes, asked>>
loopvars == <<loop, toPoll, batch, cur, nudge, wait, idle>>
nodevars == <<repo, served, running, kept, images, route>>
probevars == <<fails, old, unprobed>>
vars == <<apivars, envvars, loopvars, disabled, claimed, mat, nodevars,
          probevars, exported>>

-----------------------------------------------------------------------------
(* The API: which item a row offers, and what an event does to it.          *)

RowState == {"absent", "new", "materialize", "register_route", "ready", "unrouting",
             "stopping", "stopped", "releasing", "gone", "failed",
             "sandbox_up", "up", "sandbox_destroy", "destroyed"}

Offered(r) ==
    CASE r = "ready" -> {"probe", "assert_route"}
      [] r = "unrouting" -> {"remove_route"}
      [] r = "stopping" -> {"stop"}
      [] r = "releasing" -> {"release"}
      [] r \in {"materialize", "register_route", "sandbox_up", "sandbox_destroy"} -> {r}
      [] OTHER -> {}

\* A re-materialized row starts a new life: its probes begin anew.
After(r, event) ==
    CASE r = "materialize" /\ event = "materialized" -> "register_route"
      [] r = "register_route" /\ event = "route_registered" -> "ready"
      [] r = "ready" /\ event = "runtime_fail" -> "failed"
      [] r = "unrouting" /\ event = "route_removed" -> "stopped"
      [] r = "stopping" /\ event = "stop_done" -> "stopped"
      [] r = "releasing" /\ event = "released" -> "gone"
      [] r = "sandbox_up" /\ event = "sandbox_up" -> "up"
      [] r = "sandbox_up" /\ event = "sandbox_up_failed" -> "destroyed"
      [] r = "sandbox_destroy" /\ event = "sandbox_destroy" -> "destroyed"
      [] r \in {"materialize", "register_route"} /\ event = "materialize_failed" -> "failed"
      [] OTHER -> r

\* The wake frame: at most one nudge is pending, and a dropped socket loses it.
WakeFrame == nudge' \in IF loop = "exited" THEN {nudge} ELSE {nudge, TRUE}

Ask(w, from, to) ==
    /\ asked < MaxUser /\ row[w] \in from
    /\ asked' = asked + 1
    /\ row' = [row EXCEPT ![w] = to]
    /\ WakeFrame
    /\ UNCHANGED <<userNode, refused, artifact, bootKnown, unheard, rotated, lost, crashes,
                   loop, toPoll, batch, cur, wait, idle, disabled, claimed, mat, nodevars, probevars, exported>>

Create(d)  == Ask(d, {"new"}, "materialize")
Restart(d) == Ask(d, IF userNode THEN {"stopped", "failed"} ELSE {"failed"}, "materialize")
AskStop(d) == userNode /\ Ask(d, {"ready"}, "stopping")
Unroute(d) == ~userNode /\ Ask(d, {"ready"}, "unrouting")
Delete(d)  == Ask(d, RowState \ {"absent", "new", "releasing", "gone"}, "releasing")
StartSandbox(s) == Ask(s, {"new"}, "sandbox_up")
EndSandbox(s)   == Ask(s, {"sandbox_up", "up"}, "sandbox_destroy")

\* The API's cron completes a stop that the agent never confirmed.
ForceComplete(d) == Ask(d, {"stopping"}, "stopped")

Trouble == lost + crashes + Cardinality(rotated) + Cardinality(refused) < MaxTrouble

\* A command that fails now may work later.
Refuses(what) == Trouble /\ refused' = refused \cup {what}

RotateSecret(e) ==
    /\ Trouble /\ e \notin rotated
    /\ rotated' = rotated \cup {e}
    /\ UNCHANGED <<envvars, row, artifact, bootKnown, unheard, loopvars, disabled, claimed, mat, nodevars, probevars, exported>>

-----------------------------------------------------------------------------
(* The loop: ticks, passes over the endpoints, batches.                     *)

Unauthorized(e) == e \in rotated

DisableEndpoint(e) == disabled' = disabled \cup {e}

Smaller(a, b) == IF a < b THEN a ELSE b

\* Mutant: the backoff doubles without an end.
NoteWorkUncapped(e, empty) ==
    /\ idle' = [idle EXCEPT ![e] = IF empty THEN 2 * idle[e] ELSE 1]
    /\ wait' = [wait EXCEPT ![e] = IF empty THEN idle'[e] ELSE 0]

\* noteWork: an empty answer lengthens the gap, anything else resets it.
NoteWork(e, empty) ==
    LET gap == Smaller(2 * idle[e], MaxIdle)
    IN  IF empty
          THEN /\ idle' = [idle EXCEPT ![e] = gap]
               /\ wait' = [wait EXCEPT ![e] = Smaller(gap, MaxGap)]
          ELSE /\ idle' = [idle EXCEPT ![e] = 1]
               /\ wait' = [wait EXCEPT ![e] = 0]

WorkDue(e) == wait[e] <= 1

Tick ==
    /\ loop = "select"
    /\ loop' = "pass"
    /\ toPoll' = {e \in Endpoint \ disabled : WorkDue(e)}
    /\ wait' = [e \in Endpoint |-> IF wait[e] = 0 THEN 0 ELSE wait[e] - 1]
    /\ UNCHANGED <<apivars, envvars, batch, cur, nudge, idle, disabled, claimed, mat,
                   nodevars, probevars, exported>>

PollNow ==
    /\ loop = "select" /\ nudge
    /\ loop' = "pass" /\ nudge' = FALSE
    /\ toPoll' = Endpoint \ disabled
    /\ UNCHANGED <<apivars, envvars, batch, cur, wait, idle, disabled, claimed, mat,
                   nodevars, probevars, exported>>

Between == loop = "pass" /\ batch = {} /\ cur = NoItem

\* GetWork: one item of each row of e that waits for the node.
Answers(e) ==
    LET rows == {w \in Work : EndpointOf[w] = e /\ Offered(row[w]) # {}}
    IN  {{[id |-> w, action |-> f[w]] : w \in rows} :
            f \in {g \in [rows -> UNION {Offered(row[w]) : w \in rows}] :
                      \A w \in rows : g[w] \in Offered(row[w])}}

Poll(e) ==
    /\ Between /\ e \in toPoll /\ \A f \in toPoll : e <= f
    /\ toPoll' = toPoll \ {e}
    /\ \/ /\ ~Unauthorized(e)
          /\ batch' \in Answers(e)
          /\ NoteWork(e, batch' = {})
          /\ UNCHANGED <<disabled, lost>>
       \/ /\ ~Unauthorized(e) /\ Trouble
          /\ lost' = lost + 1
          /\ NoteWork(e, FALSE)
          /\ UNCHANGED <<batch, disabled>>
       \/ /\ Unauthorized(e)
          /\ DisableEndpoint(e)
          /\ UNCHANGED <<batch, wait, idle, lost>>
    /\ UNCHANGED <<apivars, userNode, refused, crashes, asked, loop, cur, nudge, claimed,
                   mat, nodevars, probevars, exported>>

AllDisabled == disabled = Endpoint

\* The first pass is followed by the watermark; while an endpoint does not know
\* this process, the ticker of the watermark tries again.
EndPass ==
    /\ Between /\ toPoll = {}
    /\ loop' = IF AllDisabled THEN "exited"
               ELSE IF Endpoint \ disabled \subseteq bootKnown THEN "select" ELSE "watermark"
    /\ UNCHANGED <<apivars, envvars, toPoll, batch, cur, nudge, wait, idle, disabled,
                   claimed, mat, nodevars, probevars, exported>>

\* Mutant: the watermark goes out without the boot id.
WatermarkWithoutBoot ==
    /\ loop = "watermark"
    /\ disabled' = disabled \cup rotated
    /\ bootKnown' = bootKnown \cup (Endpoint \ disabled') /\ UNCHANGED <<lost, unheard>>
    /\ loop' = IF disabled' = Endpoint THEN "exited" ELSE "select"
    /\ UNCHANGED <<row, artifact, rotated, userNode, refused, crashes, asked, toPoll,
                   batch, cur, nudge, wait, idle, claimed, mat, nodevars, probevars,
                   exported>>

\* The watermark carries the boot id: an endpoint that sees a new one resets
\* the live rows of the node to a fresh materialize.
Watermark ==
    /\ loop = "watermark"
    /\ disabled' = disabled \cup rotated
    /\ \/ bootKnown' = bootKnown \cup (Endpoint \ disabled') /\ UNCHANGED <<lost, unheard>>
       \/ Trouble /\ lost' = lost + 1 /\ unheard' = TRUE /\ UNCHANGED bootKnown
    /\ row' = [w \in Work |->
                 IF /\ EndpointOf[w] \in bootKnown' \ bootKnown
                    /\ row[w] \in {"register_route", "ready", "unrouting"}
                   THEN "materialize" ELSE row[w]]
    /\ loop' = IF disabled' = Endpoint THEN "exited" ELSE "select"
    /\ UNCHANGED <<artifact, rotated, userNode, refused, crashes, asked, toPoll, batch,
                   cur, nudge, wait, idle, claimed, mat, nodevars, probevars, exported>>

-----------------------------------------------------------------------------
(* Reports.  A 401 retires the endpoint, any other failure is only logged.  *)

SandboxReport(w, status) ==
    artifact' = IF w \in Sandbox /\ row'[w] # row[w]
                  THEN [artifact EXCEPT ![w] = status] ELSE artifact

Told(w, event, status) ==
    \/ /\ ~Unauthorized(EndpointOf[w])
       /\ row' = [row EXCEPT ![w] = After(row[w], event)]
       /\ SandboxReport(w, status)
       /\ unprobed' = IF event = "materialized" THEN unprobed \cup {w} ELSE unprobed
       /\ UNCHANGED <<disabled, lost>>
    \/ /\ ~Unauthorized(EndpointOf[w]) /\ Trouble
       /\ lost' = lost + 1
       /\ UNCHANGED <<row, artifact, unprobed, disabled>>
    \/ /\ Unauthorized(EndpointOf[w])
       /\ DisableEndpoint(EndpointOf[w])
       /\ UNCHANGED <<row, artifact, unprobed, lost>>

-----------------------------------------------------------------------------
(* handle: the gate of a user node, the claim, the two kinds of handlers.   *)

UserNodeGate(i) == userNode => i.id \in Deployment

Refuse(i) ==
    /\ loop = "pass" /\ cur = NoItem /\ i \in batch /\ ~UserNodeGate(i)
    /\ batch' = batch \ {i}
    /\ UNCHANGED <<apivars, envvars, loop, toPoll, cur, nudge, wait, idle, disabled,
                   claimed, mat, nodevars, probevars, exported>>

\* Mutant: a second handler of one row is let in.
ClaimAnything(i) == TRUE

Claim(i) == i.id \notin claimed

Skip(i) ==
    /\ loop = "pass" /\ cur = NoItem /\ i \in batch /\ UserNodeGate(i) /\ ~Claim(i)
    /\ batch' = batch \ {i}
    /\ UNCHANGED <<apivars, envvars, loop, toPoll, cur, nudge, wait, idle, disabled,
                   claimed, mat, nodevars, probevars, exported>>

Handle(i) ==
    /\ loop = "pass" /\ cur = NoItem /\ i \in batch /\ UserNodeGate(i) /\ Claim(i)
    /\ batch' = batch \ {i}
    /\ claimed' = claimed \cup {i.id}
    /\ IF i.action = "materialize"
         THEN mat' = [mat EXCEPT ![i.id] = "manifest"] /\ UNCHANGED cur
         ELSE cur' = [id |-> i.id, action |-> i.action, at |-> "begin", status |-> "none"]
              /\ UNCHANGED mat
    /\ UNCHANGED <<apivars, envvars, loop, toPoll, nudge, wait, idle, disabled, nodevars,
                   probevars, exported>>

\* The end of a synchronous handler: its report, if it has one, and the claim.
Finish ==
    /\ cur # NoItem /\ cur.at \notin {"begin", "teardown", "exported"}
    /\ cur' = NoItem
    /\ claimed' = claimed \ {cur.id}
    /\ IF cur.at = "silent" THEN UNCHANGED <<row, artifact, unprobed, disabled, lost>>
                            ELSE Told(cur.id, cur.at, cur.status)
    /\ UNCHANGED <<bootKnown, unheard, rotated, userNode, refused, crashes, asked, loop, toPoll,
                   batch, nudge, wait, idle, mat, nodevars, fails, old, exported>>

Doing(action) == cur # NoItem /\ cur.action = action /\ cur.at = "begin"
Step(at) == cur' = [cur EXCEPT !.at = at]

Unmoved == UNCHANGED <<apivars, userNode, lost, crashes, asked, loop, toPoll, batch, nudge, wait, idle,
                       disabled, claimed, mat>>

-----------------------------------------------------------------------------
(* Routes, probes, stop and release.                                        *)

\* Caddy's admin API: a call that fails changes nothing.
Upsert(d) ==
    \/ UNCHANGED refused /\ route' = route \cup {d} /\ Step(IF cur.action = "register_route"
                                         THEN "route_registered" ELSE "silent")
    \/ Refuses("caddy") /\ UNCHANGED route
       /\ Step(IF cur.action = "register_route" THEN "materialize_failed" ELSE "silent")

RegisterRoute ==
    /\ Doing("register_route") /\ Upsert(cur.id)
    /\ Unmoved /\ UNCHANGED <<repo, served, running, kept, images, probevars, exported>>

AssertRoute ==
    /\ Doing("assert_route") /\ Upsert(cur.id)
    /\ Unmoved /\ UNCHANGED <<repo, served, running, kept, images, probevars, exported>>

RemoveRoute ==
    /\ Doing("remove_route")
    /\ \/ UNCHANGED refused /\ route' = route \ {cur.id} /\ Step("route_removed")
       \/ Refuses("caddy") /\ UNCHANGED route /\ Step("materialize_failed")
    /\ Unmoved /\ UNCHANGED <<repo, served, running, kept, images, probevars, exported>>

\* Stopped containers stay for a restart; a failed stop reports nothing.
HandleStop ==
    /\ Doing("stop")
    /\ \/ /\ UNCHANGED refused /\ running' = running \ {cur.id}
          /\ kept' = IF cur.id \in running THEN kept \cup {cur.id} ELSE kept
          /\ Step("stop_done")
       \/ Refuses("docker") /\ UNCHANGED <<running, kept>> /\ Step("silent")
    /\ Unmoved /\ UNCHANGED <<repo, served, images, route, probevars, exported>>

ReleaseRoute ==
    /\ Doing("release")
    /\ \/ UNCHANGED refused /\ route' = route \ {cur.id}
       \/ Refuses("caddy") /\ UNCHANGED route
    /\ Step("teardown")
    /\ Unmoved /\ UNCHANGED <<repo, served, running, kept, images, probevars, exported>>

\* Containers of the compose project or the single one, stopped ones too.
Purge(d) == running' = running \ {d} /\ kept' = kept \ {d}

RemoveImages(d) == images' = images \ {d}

\* The rest is taken down whether the route went or not.
Teardown ==
    /\ cur # NoItem /\ cur.at = "teardown"
    /\ served' = served \ {cur.id}
    /\ repo' = repo \ {cur.id}
    /\ \/ UNCHANGED refused /\ Purge(cur.id) /\ RemoveImages(cur.id)
       \/ Refuses("docker") /\ UNCHANGED <<running, kept, images>>
    /\ Step("released")
    /\ Unmoved /\ UNCHANGED <<route, probevars, exported>>

\* Mutant: a single failed dial is believed.
FirstFailureKills(d) == TRUE

StreakDead(d) == fails[d] + 1 >= 3 /\ d \in old

ProbeAnswered ==
    /\ Doing("probe") /\ Step("silent")
    /\ fails' = [fails EXCEPT ![cur.id] = 0]
    /\ unprobed' = unprobed \ {cur.id}
    /\ old' = old \ {cur.id}
    /\ Unmoved /\ UNCHANGED <<refused, nodevars, exported>>

ProbeRefused ==
    /\ Doing("probe")
    /\ unprobed' = unprobed \ {cur.id}
    /\ IF StreakDead(cur.id)
         THEN /\ fails' = [fails EXCEPT ![cur.id] = 0]
              /\ old' = old \ {cur.id}
              /\ Step("runtime_fail")
         ELSE /\ fails' = [fails EXCEPT ![cur.id] = Smaller(@ + 1, 2)]
              /\ UNCHANGED old
              /\ Step("silent")
    /\ Unmoved /\ UNCHANGED <<refused, nodevars, exported>>

WindowPasses(d) ==
    /\ fails[d] > 0 /\ d \notin old
    /\ old' = old \cup {d}
    /\ UNCHANGED <<apivars, envvars, loopvars, disabled, claimed, mat, nodevars, fails,
                   unprobed, exported>>

-----------------------------------------------------------------------------
(* Sandboxes: one container under a fixed name.                             *)

SandboxUp ==
    /\ Doing("sandbox_up")
    /\ \/ running' = running \cup {cur.id} /\ Step("sandbox_up")
       \/ UNCHANGED running /\ Step("sandbox_up_failed") /\ cur.id \notin running
    /\ Unmoved /\ UNCHANGED <<refused, repo, served, kept, images, route, probevars, exported>>

\* The workspace is packed inside the container, so only a running one has it.
ExportWorkspace ==
    /\ Doing("sandbox_destroy")
    /\ \/ /\ cur.id \in running
          /\ exported' = exported \cup {cur.id}
          /\ cur' = [cur EXCEPT !.at = "exported", !.status = "available"]
       \/ /\ cur' = [cur EXCEPT !.at = "exported", !.status = "failed"]
          /\ UNCHANGED exported
    /\ Unmoved /\ UNCHANGED <<refused, nodevars, probevars>>

SandboxDestroy ==
    /\ cur # NoItem /\ cur.at = "exported"
    /\ \/ UNCHANGED refused /\ running' = running \ {cur.id} /\ Step("sandbox_destroy")
       \/ Refuses("docker") /\ UNCHANGED running /\ Step("sandbox_destroy_failed")
    /\ Unmoved /\ UNCHANGED <<repo, served, kept, images, route, probevars, exported>>

-----------------------------------------------------------------------------
(* The materialize goroutine: manifest, objects and tree, then the git      *)
(* server (platform) or compose up (user node), then its report.            *)

Advance(d, stage) == mat' = [mat EXCEPT ![d] = stage]

Elsewhere == UNCHANGED <<userNode, lost, crashes, asked, loopvars, bootKnown, unheard, rotated, fails, old, exported>>

FetchManifest(d) ==
    /\ mat[d] = "manifest"
    /\ \E s \in {"tree", "materialize_failed"} : Advance(d, s)
    /\ Elsewhere /\ UNCHANGED <<refused, row, artifact, disabled, claimed, nodevars, unprobed>>

MaterializeTree(d) ==
    /\ mat[d] = "tree"
    /\ \/ repo' = repo \cup {d} /\ \E s \in {"load", "serve"} : Advance(d, s)
       \/ UNCHANGED repo /\ Advance(d, "materialize_failed")
    /\ Elsewhere /\ UNCHANGED <<refused, row, artifact, disabled, claimed, served, running, kept,
                                images, route, unprobed>>

\* Only a loaded image that carries the deployment's tag and the node's
\* architecture passes; a refused one stays in the daemon.
LoadImages(d) ==
    /\ mat[d] = "load"
    /\ images' = images \cup {d}
    /\ \E s \in {"serve", "materialize_failed"} : Advance(d, s)
    /\ Elsewhere /\ UNCHANGED <<refused, row, artifact, disabled, claimed, repo, served,
                                running, kept, route, unprobed>>

PortFree == Cardinality(served) < PortCount

\* Serve is idempotent and takes a free port of the range.
Serve(d) ==
    /\ mat[d] = "serve" /\ ~userNode
    /\ IF d \in served \/ PortFree
         THEN served' = served \cup {d} /\ Advance(d, "materialized")
         ELSE UNCHANGED served /\ Advance(d, "materialize_failed")
    /\ Elsewhere /\ UNCHANGED <<refused, row, artifact, disabled, claimed, repo, running, kept,
                                images, route, unprobed>>

\* composeUp, nodeRunSingle: under a stable name, so that what a former run left
\* is replaced.
Converge(d) == running' = running \cup {d} /\ kept' = kept \ {d}

ComposeUp(d) ==
    /\ mat[d] = "serve" /\ userNode
    /\ \/ UNCHANGED refused /\ Converge(d) /\ Advance(d, "materialized")
       \/ /\ Refuses("docker") /\ UNCHANGED <<running, kept>>
          /\ Advance(d, "materialize_failed")
    /\ Elsewhere /\ UNCHANGED <<row, artifact, disabled, claimed, repo, served, images,
                                route, unprobed>>

\* Mutant: the goroutine keeps its claim.
KeepClaim(d) == UNCHANGED claimed

ReleaseClaim(d) == claimed' = claimed \ {d}

\* On a platform node the API then lets Coolify start the stack.
Materialized(d) ==
    /\ mat[d] \in {"materialized", "materialize_failed"}
    /\ Advance(d, "none")
    /\ ReleaseClaim(d)
    /\ Told(d, mat[d], "none")
    /\ running' = IF ~userNode /\ row'[d] = "register_route" /\ row[d] = "materialize"
                    THEN running \cup {d} ELSE running
    /\ UNCHANGED <<userNode, refused, crashes, asked, loopvars, bootKnown, unheard, rotated, fails,
                   old, exported, repo, served, kept, images, route>>

\* A crash or a reboot ends the process: what is in memory is gone, files,
\* containers and Caddy's routes stay.
Crash ==
    /\ loop # "exited" /\ Trouble
    /\ crashes' = crashes + 1
    /\ loop' = "pass" /\ toPoll' = Endpoint
    /\ batch' = {} /\ cur' = NoItem /\ nudge' = FALSE
    /\ wait' = [e \in Endpoint |-> 0] /\ idle' = [e \in Endpoint |-> 1]
    /\ disabled' = {} /\ claimed' = {} /\ bootKnown' = {} /\ unheard' = FALSE /\ served' = {}
    /\ mat' = [d \in Deployment |-> "none"]
    /\ fails' = [d \in Deployment |-> 0] /\ old' = {}
    /\ UNCHANGED <<row, artifact, rotated, userNode, refused, lost, asked, repo, running,
                   kept, images, route, unprobed, exported>>

-----------------------------------------------------------------------------
Init ==
    /\ userNode \in BOOLEAN
    /\ refused = {}
    /\ \E W \in Populations :
          row = [w \in Work |-> IF w \in W THEN "new" ELSE "absent"]
    /\ artifact = [s \in Sandbox |-> "none"]
    /\ bootKnown = {} /\ unheard = FALSE /\ rotated = {} /\ lost = 0 /\ crashes = 0 /\ asked = 0
    /\ loop = "pass" /\ toPoll = Endpoint /\ batch = {} /\ cur = NoItem
    /\ nudge = FALSE
    /\ wait = [e \in Endpoint |-> 0] /\ idle = [e \in Endpoint |-> 1]
    /\ disabled = {} /\ claimed = {} /\ mat = [d \in Deployment |-> "none"]
    /\ repo = {} /\ served = {} /\ running = {} /\ kept = {} /\ images = {} /\ route = {}
    /\ fails = [d \in Deployment |-> 0] /\ old = {}
    /\ unprobed = {} /\ exported = {}

User ==
    \/ \E d \in Deployment : \/ Create(d) \/ Restart(d) \/ AskStop(d) \/ Unroute(d)
                             \/ Delete(d) \/ ForceComplete(d)
    \/ \E s \in Sandbox : StartSandbox(s) \/ EndSandbox(s)

Item == [id : Work, action : SyncAction \cup {"materialize"}]

Sync ==
    \/ \E i \in batch : Refuse(i) \/ Skip(i) \/ Handle(i)
    \/ RegisterRoute \/ AssertRoute \/ RemoveRoute \/ HandleStop
    \/ ReleaseRoute \/ Teardown \/ ProbeAnswered \/ ProbeRefused
    \/ SandboxUp \/ ExportWorkspace \/ SandboxDestroy \/ Finish

Loop == Tick \/ PollNow \/ EndPass \/ Watermark \/ Sync \/ \E e \in Endpoint : Poll(e)

Goroutine(d) == \/ FetchManifest(d) \/ MaterializeTree(d) \/ LoadImages(d) \/ Serve(d)
                \/ ComposeUp(d) \/ Materialized(d)

Next ==
    \/ User \/ Crash \/ Loop
    \/ \E e \in Endpoint : RotateSecret(e)
    \/ \E d \in Deployment : Goroutine(d) \/ WindowPasses(d)

Spec == Init /\ [][Next]_vars

\* The ticker fires for ever, handlers and goroutines return.
FairSpec == Spec /\ WF_vars(Loop) /\ \A d \in Deployment : WF_vars(Goroutine(d))

-----------------------------------------------------------------------------
(* Properties.                                                              *)

\* Type correctness of the agent's state and of the API's rows.
TypeOK ==
    /\ userNode \in BOOLEAN /\ refused \subseteq {"caddy", "docker"}
    /\ row \in [Work -> RowState]
    /\ artifact \in [Sandbox -> {"none", "available", "failed"}]
    /\ bootKnown \subseteq Endpoint /\ unheard \in BOOLEAN /\ rotated \subseteq Endpoint
    /\ lost \in 0..MaxTrouble /\ crashes \in 0..MaxTrouble /\ asked \in 0..MaxUser
    /\ loop \in {"select", "pass", "watermark", "exited"} /\ toPoll \subseteq Endpoint
    /\ batch \subseteq Item /\ nudge \in BOOLEAN
    /\ cur # NoItem => cur \in Handler /\ cur.id \in claimed
    /\ wait \in [Endpoint -> 0..MaxGap] /\ idle \in [Endpoint -> 1..MaxIdle]
    /\ disabled \subseteq Endpoint /\ claimed \subseteq Work
    /\ mat \in [Deployment -> {"none", "manifest", "tree", "load", "serve", "materialized",
                               "materialize_failed"}]
    /\ repo \subseteq Deployment /\ served \subseteq Deployment
    /\ running \subseteq Work /\ kept \cup images \subseteq Deployment /\ route \subseteq Deployment
    /\ fails \in [Deployment -> 0..2] /\ unprobed \subseteq Deployment
    /\ old \subseteq Deployment /\ exported \subseteq Sandbox

\* What a row that was released leaves on the node: nothing, and nothing comes
\* back, except the route or the containers that Caddy or docker refused to
\* remove.  A materialize still at work would bring the deployment back
\* (agent.go 454-527: the claim; 950-1000: handleRelease).
ReleasedDeployment ==
    \A d \in Deployment : row[d] = "gone" =>
        /\ mat[d] = "none" /\ d \notin repo \cup served
        /\ "docker" \notin refused => d \notin running \cup kept \cup images
        /\ "caddy" \notin refused => d \notin route

\* A row the API believes live is live on this node: its repository is there
\* and served, or its containers run, and a ready one has its route; after a
\* crash, as soon as the endpoint has seen the new boot id (agent.go 66-70,
\* 1119-1136).
LiveRowIsServed ==
    \A d \in Deployment :
        /\ row[d] \in {"register_route", "ready"} /\ EndpointOf[d] \in bootKnown =>
              d \in (IF userNode THEN repo \cap running ELSE repo \cap served)
        /\ row[d] = "ready" => d \in route

\* The first probe of a deployment's present life never kills it, on a node
\* whose user does not stop and restart it: stop, release and materialize leave
\* the streak of the former life behind (agent.go 1044-1088).  Excused: a process
\* that probes rows before the API heard of it, because its first watermark was
\* lost, has a streak when the API then materializes them anew.
FirstProbeSpares ==
    [][\A d \in unprobed : ~userNode /\ ~unheard /\ cur' # NoItem /\ cur'.id = d
                             => cur'.at # "runtime_fail"]_vars

\* A destroyed sandbox has no container and never gets one again, and its
\* workspace is reported as available only if it was uploaded while the
\* container ran; it is lost to the user only if the export failed, or if the
\* report of an export that worked was (sandbox.go 335-412).
DestroyedSandbox ==
    \A s \in Sandbox :
        /\ row[s] = "destroyed" => s \notin running
        /\ artifact[s] = "available" => s \in exported
        /\ artifact[s] = "failed" /\ lost = 0 /\ crashes = 0 /\ refused = {} => s \notin exported
        /\ userNode => s \notin running

\* What the API has let go of, deployments and sandboxes, holds nothing here.
ReleasedLeavesNothing == ReleasedDeployment /\ DestroyedSandbox

Retired(d) == EndpointOf[d] \in rotated

\* A row that waits for a materialize or for its release does not wait for
\* ever, whatever happens to the other endpoint, and with backoff, crashes
\* and lost answers in between (agent.go 360-397, 454-527).
RowsAreServed ==
    \A d \in Deployment, r \in {"materialize", "releasing"} :
        row[d] = r ~> row[d] # r \/ Retired(d)

=============================================================================
