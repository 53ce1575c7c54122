------------------------------ MODULE MCResources ------------------------------
(* The components that own what outlives a call: the engines of sessions, the  *)
(* worktrees of missions, uploads, local stacks, preview builds, the binary and *)
(* the settings on the bridge's side, the object store, the previews and the   *)
(* set-up on the node's.  One of them in each behaviour: they share no variable, *)
(* so their product would only repeat each once for every state of the others.  *)
EXTENDS MCStore, NodePreviews, MissionBranches, SessionCommands,
        SourceUploads, LocalPreviews, PreviewBuilds, SelfUpdate, MachineSettings, UserNode

CONSTANTS a1, a2, b1, s1, m, n, s, w1, w2, i1

\* Two revisions of one mission, a preview of another, and a session preview.
SlotsOf == [i \in {a1, a2, b1, s1} |-> CASE i \in {a1, a2} -> m [] i = b1 -> n [] OTHER -> s]
\* Two missions need no third request: an idle one is stopped without it.
AsksOf == [show \in SUBSET {a1, a2, b1, s1} |-> IF show = {a1, b1} THEN 2 ELSE 3]

\* A chunked declare of two parts.
PartsOf == [f \in File |-> IF f = Compose THEN 2 ELSE 1]

VARIABLE owner

ResourceInit ==
    /\ StoreInit /\ PreviewInit /\ MissionInit /\ CommandInit
    /\ UploadInit /\ LocalInit /\ BuildInit /\ UpdateInit
    /\ SettingsInit /\ UserNodeInit
    /\ owner \in {"store", "previews", "mission", "sessions", "uploads",
                  "stack", "builds", "update", "settings", "node"}
    /\ owner # "previews" => shown = {s1}
    /\ owner # "uploads" => tier = "source"
    /\ owner # "builds" => kind = "static"
    /\ owner # "node" => ~onPath /\ theirs = {}

Others(mine) ==
    /\ owner = mine
    /\ mine # "store" => UNCHANGED storeVars
    /\ mine # "previews" => UNCHANGED previewVars
    /\ mine # "mission" => UNCHANGED missionVars
    /\ mine # "sessions" => UNCHANGED commandVars
    /\ mine # "uploads" => UNCHANGED uploadVars
    /\ mine # "stack" => UNCHANGED localVars
    /\ mine # "builds" => UNCHANGED buildVars
    /\ mine # "update" => UNCHANGED updateVars
    /\ mine # "settings" => UNCHANGED settingVars
    /\ mine # "node" => UNCHANGED userNodeVars

ResourceNext ==
    /\ UNCHANGED owner
    /\ \/ Others("store") /\ StoreNext
       \/ Others("previews") /\ PreviewNext
       \/ Others("mission") /\ MissionNext
       \/ Others("sessions") /\ CommandNext
       \/ Others("uploads") /\ UploadNext
       \/ Others("stack") /\ LocalNext
       \/ Others("builds") /\ BuildNext
       \/ Others("update") /\ UpdateNext
       \/ Others("settings") /\ SettingsNext
       \/ Others("node") /\ UserNodeNext

ResourceVars == <<storeVars, previewVars, missionVars, commandVars, uploadVars,
                  localVars, buildVars, updateVars, settingVars, userNodeVars, owner>>
ResourceSpec == ResourceInit /\ [][ResourceNext]_ResourceVars

\* The variables of the component that moves stay in their types.
ResourceTypeOK ==
    /\ owner = "store" => StoreTypeOK
    /\ owner = "previews" => PreviewTypeOK
    /\ owner = "mission" => MissionTypeOK
    /\ owner = "sessions" => CommandTypeOK
    /\ owner = "uploads" => UploadTypeOK
    /\ owner = "stack" => LocalTypeOK
    /\ owner = "builds" => BuildTypeOK
    /\ owner = "update" => UpdateTypeOK
    /\ owner = "settings" => SettingsTypeOK
    /\ owner = "node" => UserNodeTypeOK
=============================================================================
