---------------------------- MODULE ResourceProofs ----------------------------
(***************************************************************************)
(* The composition MCResources: every step of it is a step of one component *)
(* and leaves the others alone, so each of them keeps what is proved of it.  *)
(***************************************************************************)
EXTENDS MCResources, NodeProofs, SessionProofs, MachineProofs, TLAPS

PartsStart ==
    /\ StoreInit /\ PreviewInit /\ MissionInit /\ CommandInit /\ UploadInit
    /\ LocalInit /\ BuildInit /\ UpdateInit /\ SettingsInit /\ UserNodeInit
PartsStep ==
    /\ [StoreNext]_storeVars /\ [PreviewNext]_previewVars /\ [MissionNext]_missionVars
    /\ [CommandNext]_commandVars /\ [UploadNext]_uploadVars /\ [LocalNext]_localVars
    /\ [BuildNext]_buildVars /\ [UpdateNext]_updateVars /\ [SettingsNext]_settingVars
    /\ [UserNodeNext]_userNodeVars

\* Whoever owns the behaviour, the others stutter.
LEMMA ResourcesStepByParts == [ResourceNext]_ResourceVars => PartsStep
BY DEF ResourceNext, Others, ResourceVars, PartsStep

LEMMA ResourcesRefineParts ==
    ResourceSpec =>
        /\ StoreSpec /\ PreviewSpec /\ MissionSpec /\ CommandSpec /\ UploadSpec
        /\ LocalSpec /\ BuildSpec /\ UpdateSpec /\ SettingsSpec /\ UserNodeSpec
<1>1. ResourceInit => PartsStart
    BY DEF ResourceInit, PartsStart
<1> QED BY <1>1, ResourcesStepByParts, PTL
        DEF ResourceSpec, PartsStart, PartsStep, StoreSpec, PreviewSpec, MissionSpec, CommandSpec, UploadSpec,
            LocalSpec, BuildSpec, UpdateSpec, SettingsSpec, UserNodeSpec

\* Whichever component owns the behaviour, its variables keep their types, and so do
\* those of all others: for every value of the constants.
THEOREM ResourceTypeCorrect == ResourceSpec => []ResourceTypeOK
<1>1. /\ StoreTypeOK /\ PreviewTypeOK /\ MissionTypeOK /\ CommandTypeOK /\ UploadTypeOK
      /\ LocalTypeOK /\ BuildTypeOK /\ UpdateTypeOK /\ SettingsTypeOK /\ UserNodeTypeOK
      => ResourceTypeOK
    BY DEF ResourceTypeOK
<1> QED BY <1>1, ResourcesRefineParts, StoreTypeCorrect, PreviewTypeCorrect, MissionTypeCorrect, CommandTypeCorrect,
           UploadTypeCorrect, LocalTypeCorrect, BuildTypeCorrect, UpdateTypeCorrect, SettingsTypeCorrect,
           UserNodeTypeCorrect, PTL

===============================================================================
