-------------------------------- MODULE UserNode --------------------------------
(***************************************************************************)
(* A user's own machine as a hosting node: it is registered with an install *)
(* code (node/register), its daemon is started from the credentials file    *)
(* (node/run.go, node/config), brings up a Caddy (node/caddy.go) and        *)
(* forwards Caddy's question whether a certificate may be issued for a      *)
(* label to the platform (node/agent/askserver.go).                         *)
(***************************************************************************)
EXTENDS Naturals, FiniteSets

CONSTANTS
    Label,         \* host labels under the deploy domain
    Handshake,     \* TLS handshakes of unknown labels
    WebPort,       \* 80 and 443
    AskDeadline,   \* ticks a question may take (5 s)
    AskCacheTTL,   \* ticks a yes is remembered (30 s)
    MaxNodes,      \* bound: registrations the platform confirms
    MaxNodeFaults  \* bound: crashes, failed writes, lost answers and upgrades, together

ASSUME UserNodeAssumption ==
    /\ Label # {} /\ AskDeadline \in Nat /\ AskCacheTTL \in Nat
    /\ MaxNodes \in Nat \ {0} /\ MaxNodeFaults \in Nat

VARIABLES
    readyOn,     \* readyOn[l]: the node a ready deployment of label l sits on, or 0
    issued,      \* nodes the platform has issued
    enrol,       \* the register command and the node it was given
    creds,       \* the node in the credentials file, or 0
    marker,      \* the node in the node-id file, or 0
    daemon,      \* the daemon: how far its start got, and its node
    wanted,      \* the configuration of the environment: domain and addresses
    scaffold,    \* the one in the Caddyfile, or 0: none, or half of one
    cached,      \* {cacheDir}/bin/caddy: "none", "torn", "other", "good"
    onPath,      \* the operator has a Caddy of their own
    theirs,      \* web ports another server of the operator holds
    proxy,       \* the Caddy that runs: whose it is, its binary and configuration
    asking,      \* asking[h]: a handshake's question
    allowed,     \* allowed[l]: ticks for which a yes is remembered, or 0
    lapsed,      \* ghost: ticks since l was last ready on the daemon's node
    unvouched,   \* ghost: labels that got a certificate on an outdated yes
    mismarked,   \* ghost: the last credentials were written without their node-id file
    nodeFaults

platformVars == <<readyOn, issued>>
enrolVars == <<enrol, creds, marker, mismarked>>
startVars == <<daemon, wanted, scaffold, cached>>
hostVars  == <<onPath, theirs>>
askVars   == <<asking, allowed, lapsed, unvouched>>
userNodeVars == <<platformVars, enrolVars, startVars, hostVars, proxy, askVars, nodeFaults>>

Quiet == [at |-> "none", label |-> CHOOSE l \in Label : TRUE, age |-> 0]
NoProxy == [who |-> "nobody", binary |-> "none", config |-> 0]
Longest == AskDeadline + AskCacheTTL + 1

NodeFault == nodeFaults < MaxNodeFaults /\ nodeFaults' = nodeFaults + 1
Perhaps(fault) == IF fault THEN NodeFault ELSE UNCHANGED nodeFaults

TakenPorts == theirs \cup (IF proxy.who = "nobody" THEN {} ELSE WebPort)

-----------------------------------------------------------------------------
(* Registration.                                                            *)

EnrolAt(step, node) == enrol' = [at |-> step, node |-> node]

\* RedeemInstallCode: a nonce for this machine to answer with.
Redeem ==
    /\ enrol.at = "idle" /\ issued < MaxNodes
    /\ EnrolAt("redeemed", 0)
    /\ UNCHANGED <<platformVars, creds, marker, mismarked, startVars, hostVars, proxy, askVars, nodeFaults>>

\* listenProbesOn: one of the two ports is enough; none is a failure.
BindProbes ==
    /\ enrol.at = "redeemed"
    /\ EnrolAt(IF WebPort \ TakenPorts = {} THEN "idle" ELSE "bound", 0)
    /\ UNCHANGED <<platformVars, creds, marker, mismarked, startVars, hostVars, proxy, askVars, nodeFaults>>

\* ConfirmRegistration: the platform probes and issues a node, which nobody
\* learns of when its answer is lost; or the probe fails.
Confirm(lost) ==
    /\ enrol.at = "bound" /\ Perhaps(lost)
    /\ \/ issued' = issued + 1 /\ IF lost THEN EnrolAt("idle", 0) ELSE EnrolAt("confirmed", issued')
       \/ ~lost /\ EnrolAt("idle", 0) /\ UNCHANGED issued
    /\ UNCHANGED <<readyOn, creds, marker, mismarked, startVars, hostVars, proxy, askVars>>

\* writeCredentials: a rename, so all or nothing.
WriteCredentials(fails) ==
    /\ enrol.at = "confirmed" /\ Perhaps(fails)
    /\ IF fails THEN EnrolAt("idle", 0) /\ UNCHANGED creds
       ELSE EnrolAt("saved", enrol.node) /\ creds' = enrol.node
    /\ UNCHANGED <<platformVars, marker, mismarked, startVars, hostVars, proxy, askVars>>

\* writeNodeIDMarker: a plain write, and its failure is only logged.
WriteNodeIDMarker(fails) ==
    /\ enrol.at = "saved" /\ Perhaps(fails)
    /\ EnrolAt("idle", 0) /\ mismarked' = fails
    /\ IF fails THEN marker' \in {marker, 0} ELSE marker' = enrol.node
    /\ UNCHANGED <<platformVars, creds, startVars, hostVars, proxy, askVars>>

RegisterDies ==
    /\ enrol.at # "idle" /\ NodeFault /\ EnrolAt("idle", 0)
    /\ IF enrol.at = "saved" THEN mismarked' = TRUE /\ marker' \in {marker, 0} ELSE UNCHANGED <<mismarked, marker>>
    /\ UNCHANGED <<platformVars, creds, startVars, hostVars, proxy, askVars>>

\* What the bridge on this machine takes for its node: the credentials when it
\* may read them, else the node-id file.
LocalNodeID(mayRead) == IF mayRead /\ creds # 0 THEN creds ELSE marker

-----------------------------------------------------------------------------
(* The daemon and its Caddy.                                                *)

DaemonAt(step) == daemon' = [daemon EXCEPT !.at = step]
Silenced ==
    /\ asking' = [h \in Handshake |-> Quiet] /\ allowed' = [l \in Label |-> 0]
    /\ lapsed' = [l \in Label |-> 0] /\ UNCHANGED unvouched

\* LoadCredentials: without them there is no node.
Loadable == creds # 0

\* RunDaemon, FromEnv: the daemon is the node of the credentials file, also when
\* the machine is registered again under it.
StartDaemon ==
    /\ daemon.at = "down" /\ Loadable
    /\ daemon' = [at |-> "ask", node |-> creds]
    /\ lapsed' = [l \in Label |-> IF readyOn[l] = creds THEN 0 ELSE Longest]
    /\ UNCHANGED <<platformVars, enrolVars, wanted, scaffold, cached, hostVars, proxy, asking, allowed, unvouched, nodeFaults>>

\* AskServer.Start: from here on Caddy's questions reach this daemon.
BindAsk ==
    /\ daemon.at = "ask" /\ DaemonAt("scaffold")
    /\ UNCHANGED <<platformVars, enrolVars, wanted, scaffold, cached, hostVars, proxy, askVars, nodeFaults>>

\* ensureNodeCaddyfile: a file that matches is left alone.
EnsureNodeCaddyfile ==
    /\ daemon.at = "scaffold" /\ DaemonAt("binary")
    /\ scaffold' = wanted
    /\ UNCHANGED <<platformVars, enrolVars, wanted, cached, hostVars, proxy, askVars, nodeFaults>>

\* ensureCaddy: the operator's Caddy is used and left to run; ours is asked for
\* its version, and fetched when it is not the pinned one.  downloadCaddy writes
\* it in place, which a Caddy that still runs from that file makes fail.
EnsureCaddy ==
    /\ daemon.at = "binary"
    /\ CASE onPath -> DaemonAt("up") /\ UNCHANGED cached
         [] ~onPath /\ cached = "good" -> DaemonAt("start") /\ UNCHANGED cached
         [] OTHER -> proxy.who # "orphan" /\ DaemonAt("start") /\ cached' = "good"
    /\ UNCHANGED <<platformVars, enrolVars, wanted, scaffold, hostVars, proxy, askVars, nodeFaults>>

\* startManagedCaddy: a child whose ports or whose admin address are taken
\* exits, which nobody waits for.
StartManagedCaddy ==
    /\ daemon.at = "start" /\ DaemonAt("up")
    /\ proxy' = IF TakenPorts = {} /\ enrol.at # "bound"
                THEN [who |-> "managed", binary |-> cached, config |-> scaffold] ELSE proxy
    /\ UNCHANGED <<platformVars, enrolVars, wanted, scaffold, cached, hostVars, askVars, nodeFaults>>

\* A signal, or a step of the start that failed: the deferred calls run.
DaemonStops ==
    /\ daemon.at # "down" /\ daemon' = [at |-> "down", node |-> 0]
    /\ proxy' = IF proxy.who = "managed" THEN NoProxy ELSE proxy
    /\ Silenced
    /\ UNCHANGED <<platformVars, enrolVars, wanted, scaffold, cached, hostVars, nodeFaults>>

\* Killed: its Caddy stays, and what it was writing is half written.
DaemonKilled ==
    /\ daemon.at # "down" /\ NodeFault /\ daemon' = [at |-> "down", node |-> 0]
    /\ proxy' = IF proxy.who = "managed" THEN [proxy EXCEPT !.who = "orphan"] ELSE proxy
    /\ scaffold' \in IF daemon.at = "scaffold" /\ scaffold # wanted THEN {scaffold, 0} ELSE {scaffold}
    /\ cached' \in IF daemon.at = "binary" /\ ~onPath /\ cached # "good" /\ proxy.who # "orphan"
                   THEN {cached, "torn"} ELSE {cached}
    /\ Silenced
    /\ UNCHANGED <<platformVars, enrolVars, wanted, hostVars>>

\* The operator: another configuration, a new release with another Caddy, a web
\* server on a port, a Caddy of their own (re)started or a Caddy stopped.
Operates ==
    /\ NodeFault
    /\ \/ daemon.at = "down" /\ wanted' = 3 - wanted /\ UNCHANGED <<cached, theirs, proxy>>
       \/ daemon.at = "down" /\ cached = "good" /\ cached' = "other" /\ UNCHANGED <<wanted, theirs, proxy>>
       \/ /\ proxy.who = "nobody" /\ enrol.at # "bound"
          /\ \E ports \in (SUBSET WebPort) \ {theirs} : theirs' = ports
          /\ UNCHANGED <<wanted, cached, proxy>>
       \/ /\ onPath /\ proxy.who \in {"nobody", "operator"} /\ theirs = {} /\ enrol.at # "bound" /\ scaffold # 0
          /\ proxy' = [who |-> "operator", binary |-> "other", config |-> scaffold]
          /\ UNCHANGED <<wanted, cached, theirs>>
       \/ proxy.who # "nobody" /\ proxy' = NoProxy /\ UNCHANGED <<wanted, cached, theirs>>
    /\ UNCHANGED <<platformVars, enrolVars, daemon, scaffold, onPath, askVars>>

-----------------------------------------------------------------------------
(* May a certificate be issued?                                             *)

\* The platform: a deployment becomes ready on a node, or is gone.
LabelMoves(l) ==
    /\ \E n \in (0..issued) \ {readyOn[l]} : readyOn' = [readyOn EXCEPT ![l] = n]
    /\ lapsed' = IF daemon.at # "down" /\ readyOn'[l] = daemon.node THEN [lapsed EXCEPT ![l] = 0] ELSE lapsed
    /\ UNCHANGED <<issued, enrolVars, startVars, hostVars, proxy, asking, allowed, unvouched, nodeFaults>>

CachedAllowed(l) == allowed[l] > 0
Remember(l) == allowed' = [allowed EXCEPT ![l] = AskCacheTTL + 1]
Certify(l) == unvouched' = IF lapsed[l] > AskDeadline + AskCacheTTL THEN unvouched \cup {l} ELSE unvouched

\* handleAsk: Caddy, configured with this daemon's address, meets a label it has
\* no certificate for; a remembered yes answers at once.
CaddyAsks(h, l) ==
    /\ asking[h].at = "none" /\ daemon.at \notin {"down", "ask"}
    /\ proxy.who # "nobody" /\ proxy.config = wanted
    /\ IF CachedAllowed(l) THEN Certify(l) /\ UNCHANGED asking
       ELSE asking' = [asking EXCEPT ![h] = [at |-> "asked", label |-> l, age |-> 0]] /\ UNCHANGED unvouched
    /\ UNCHANGED <<platformVars, enrolVars, startVars, hostVars, proxy, allowed, lapsed, nodeFaults>>

\* Client.Ask: the platform looks at its rows, or cannot be reached.
PlatformAnswers(h) ==
    /\ asking[h].at = "asked"
    /\ \E answer \in {"no"} \cup (IF readyOn[asking[h].label] = daemon.node THEN {"yes"} ELSE {}) :
         asking' = [asking EXCEPT ![h].at = answer]
    /\ UNCHANGED <<platformVars, enrolVars, startVars, hostVars, proxy, allowed, lapsed, unvouched, nodeFaults>>

\* Mutant: an answer is taken however late it comes.
AskEndsLate(h) ==
    /\ asking[h].at \in {"yes", "no"}
    /\ IF asking[h].at = "yes"
       THEN Certify(asking[h].label) /\ Remember(asking[h].label)
       ELSE UNCHANGED <<unvouched, allowed>>
    /\ asking' = [asking EXCEPT ![h] = Quiet]
    /\ UNCHANGED <<platformVars, enrolVars, startVars, hostVars, proxy, lapsed, nodeFaults>>

\* handleAsk, after the call: a yes in time is remembered, a no is not.
AskEnds(h) ==
    /\ asking[h].at \in {"yes", "no"} \/ asking[h].age > AskDeadline
    /\ IF asking[h].at = "yes" /\ asking[h].age <= AskDeadline
       THEN Certify(asking[h].label) /\ Remember(asking[h].label)
       ELSE UNCHANGED <<unvouched, allowed>>
    /\ asking' = [asking EXCEPT ![h] = Quiet]
    /\ UNCHANGED <<platformVars, enrolVars, startVars, hostVars, proxy, lapsed, nodeFaults>>

\* Time passes for the questions, the remembered answers and the lapsed labels.
NodeTick ==
    /\ daemon.at # "down"
    /\ asking' = [h \in Handshake |-> IF asking[h].at = "none" \/ asking[h].age > AskDeadline THEN asking[h]
                                      ELSE [asking[h] EXCEPT !.age = @ + 1]]
    /\ allowed' = [l \in Label |-> IF allowed[l] = 0 THEN 0 ELSE allowed[l] - 1]
    /\ lapsed' = [l \in Label |-> IF readyOn[l] = daemon.node THEN 0
                                  ELSE IF lapsed[l] < Longest THEN lapsed[l] + 1 ELSE Longest]
    /\ UNCHANGED <<platformVars, enrolVars, startVars, hostVars, proxy, unvouched, nodeFaults>>

-----------------------------------------------------------------------------

UserNodeInit ==
    /\ readyOn = [l \in Label |-> 0] /\ issued = 0
    /\ enrol = [at |-> "idle", node |-> 0] /\ creds = 0 /\ marker = 0 /\ mismarked = FALSE
    /\ daemon = [at |-> "down", node |-> 0] /\ wanted = 1 /\ scaffold = 0 /\ cached = "none"
    /\ onPath \in BOOLEAN /\ theirs \in {{}, WebPort} /\ proxy = NoProxy
    /\ asking = [h \in Handshake |-> Quiet] /\ allowed = [l \in Label |-> 0]
    /\ lapsed = [l \in Label |-> 0] /\ unvouched = {} /\ nodeFaults = 0

UserNodeNext ==
    \/ Redeem \/ BindProbes \/ RegisterDies
    \/ \E bad \in BOOLEAN : Confirm(bad) \/ WriteCredentials(bad) \/ WriteNodeIDMarker(bad)
    \/ StartDaemon \/ BindAsk \/ EnsureNodeCaddyfile \/ EnsureCaddy \/ StartManagedCaddy
    \/ DaemonStops \/ DaemonKilled \/ Operates \/ NodeTick
    \/ \E l \in Label : LabelMoves(l) \/ \E h \in Handshake : CaddyAsks(h, l)
    \/ \E h \in Handshake : PlatformAnswers(h) \/ AskEnds(h)

UserNodeSpec == UserNodeInit /\ [][UserNodeNext]_userNodeVars

-----------------------------------------------------------------------------
(* Properties.                                                              *)

\* Types; a daemon is not started without credentials.
RegisterTypes ==
    /\ readyOn \in [Label -> 0..issued] /\ issued \in 0..MaxNodes
    /\ enrol \in [at : {"idle", "redeemed", "bound", "confirmed", "saved"}, node : 0..issued]
    /\ creds \in 0..issued /\ marker \in 0..issued /\ mismarked \in BOOLEAN
DaemonTypes ==
    /\ daemon \in [at : {"down", "ask", "scaffold", "binary", "start", "up"}, node : 0..issued]
    /\ (creds = 0 => daemon.at = "down")
    /\ wanted \in 1..2 /\ scaffold \in 0..2 /\ cached \in {"none", "torn", "other", "good"}
ProxyTypes ==
    /\ onPath \in BOOLEAN /\ theirs \subseteq WebPort
    /\ proxy \in [who : {"nobody", "managed", "orphan", "operator"},
                  binary : {"none", "torn", "other", "good"}, config : 0..2]
AskTypes ==
    /\ asking \in [Handshake -> [at : {"none", "asked", "yes", "no"}, label : Label, age : 0..AskDeadline + 1]]
    /\ allowed \in [Label -> 0..AskCacheTTL + 1] /\ lapsed \in [Label -> 0..Longest]
    /\ unvouched \subseteq Label

UserNodeTypeOK ==
    RegisterTypes /\ DaemonTypes /\ ProxyTypes /\ AskTypes /\ nodeFaults \in 0..MaxNodeFaults

\* A certificate is issued only for a label that was ready on this node when the
\* platform was asked, which is not longer ago than a question may take and an
\* answer is remembered, also for handshakes that overlap and for a machine that
\* is registered again.
CertificatesAreVouchedFor == unvouched = {}

\* The bridge on this machine takes it for the node of the credentials or for
\* none.  Excused: between the two writes of a registration, and after one that
\* failed to write the node-id file, which is only logged.
MarkerFollowsCredentials ==
    \A mayRead \in BOOLEAN :
        LocalNodeID(mayRead) \in {creds, 0} \/ enrol.at = "saved" \/ mismarked

\* The daemon's own Caddy runs the pinned binary, whole, on the configuration
\* the daemon was started with, after downloads and writes cut short.
ManagedCaddyIsOurs ==
    proxy.who = "managed" => daemon.at = "up" /\ proxy.binary = "good" /\ proxy.config = wanted

NodeIsVouchedFor == CertificatesAreVouchedFor /\ MarkerFollowsCredentials /\ ManagedCaddyIsOurs

=============================================================================
