---------------------------- MODULE MachineSettings ----------------------------
(***************************************************************************)
(* The settings of a machine: what the user and the admin set on the platform *)
(* reaches a running bridge as pushes, handled one by one by its worker, and   *)
(* as the answers to requests it sends when it starts, each applied by a       *)
(* goroutine of its own.  Approval rules are kept in memory, in the rules      *)
(* engine and in the configuration file, scanner rules in two halves that are  *)
(* merged into the scanner.  All machines of a user share one file, which      *)
(* every save reads and writes as a whole, and no lock guards: the pair        *)
(* command, or another machine's bridge, writes it as well.                  *)
(***************************************************************************)
EXTENDS Naturals, Sequences

CONSTANTS
    MaxSettingEdits,   \* bound: changes on the platform
    MaxSettingFaults   \* bound: failed requests and saves, and crashes

ASSUME MachineSettingsAssumption == MaxSettingEdits \in Nat /\ MaxSettingFaults \in Nat

Topic == {"rules", "config", "user", "org"}
Actor == {"worker", "rulesFetch", "orgFetch", "otherMachine"}

VARIABLES
    set,          \* set[topic]: version on the platform
    pushes,       \* pushes on their way to the worker
    running,      \* the bridge runs
    memory,       \* Bridge.config: versions of the rules and of the rest
    engine,       \* the rules the engine evaluates
    half,         \* orgScannerRules, userScannerRules
    scanning,     \* what the scanner has
    disk,         \* config.json: this machine's entry and another's
    cut,          \* config.json is truncated
    userFile,     \* scanner-rules.json
    doing,        \* doing[a]: the handler a is in, the version it applies, what it has read
    late,         \* ghost: the rules asked for at start did not come, or were overtaken by a push
    others,       \* ghost: what the other machine's entry was last set to
    overlapped,   \* ghost: two handlers of one subject, or two saves, at a time, or a save cut short
    settingEdits, settingFaults

settingVars == <<set, pushes, running, memory, engine, half, scanning, disk, cut, userFile,
                 doing, late, others, overlapped, settingEdits, settingFaults>>
applied == <<engine, half, scanning>>
onDisk == <<disk, cut, userFile>>
bounds == <<settingEdits, settingFaults>>

NotDoing == [at |-> "idle", topic |-> "none", version |-> 0, seen |-> "none"]
NoEntries == [own |-> [rules |-> 0, config |-> 0], other |-> 0]
SettingFault == settingFaults < MaxSettingFaults /\ settingFaults' = settingFaults + 1
Does(a, step) == doing' = [doing EXCEPT ![a].at = step]
Saving(a) == doing[a].at \in {"read", "cut", "write"}
Scanned(a) == doing[a].at \in {"merge", "replace"}
Ruling(a) == doing[a].topic \in {"rules", "config"} /\ doing[a].at # "idle"
Meet(P(_), a) == P(a) /\ \E b \in Actor \ {a} : P(b)

\* A handler that begins while another is at the same.
Overlap == overlapped' = (overlapped \/ \E a \in Actor : Meet(Saving, a)' \/ Meet(Scanned, a)' \/ Meet(Ruling, a)')

-----------------------------------------------------------------------------

\* The user, or for "org" the admin, changes a setting; the user's changes are
\* pushed to a machine that runs.
EditSetting(topic) ==
    /\ settingEdits < MaxSettingEdits /\ settingEdits' = settingEdits + 1
    /\ set' = [set EXCEPT ![topic] = settingEdits']
    /\ pushes' = IF running /\ topic # "org" THEN Append(pushes, <<topic, settingEdits'>>) ELSE pushes
    /\ UNCHANGED <<running, memory, applied, onDisk, doing, late, others, overlapped, settingFaults>>

\* A pairing of another machine, or a save of its bridge.
OtherSaves ==
    /\ doing["otherMachine"].at = "idle" /\ settingEdits < MaxSettingEdits /\ settingEdits' = settingEdits + 1
    /\ doing' = [doing EXCEPT !["otherMachine"] = [NotDoing EXCEPT !.at = "read", !.version = settingEdits']]
    /\ Overlap
    /\ UNCHANGED <<set, pushes, running, memory, applied, onDisk, late, others, settingFaults>>

\* New loads the file, Start asks for the rules.
StartBridge ==
    /\ ~running /\ ~cut /\ doing["worker"].at = "idle"
    /\ running' = TRUE /\ pushes' = <<>> /\ late' = FALSE
    /\ memory' = disk.own /\ engine' = disk.own.rules
    /\ half' = [org |-> 0, user |-> userFile] /\ scanning' = half'
    /\ doing' = [doing EXCEPT !["rulesFetch"] = [NotDoing EXCEPT !.at = "ask"],
                              !["orgFetch"] = [NotDoing EXCEPT !.at = "ask"]]
    /\ UNCHANGED <<set, onDisk, others, overlapped, bounds>>

-----------------------------------------------------------------------------
(* A handler.                                                               *)

\* The platform answers; until it is applied, the answer grows old.
Answer(a) ==
    /\ doing[a].at = "ask" /\ a \in {"rulesFetch", "orgFetch"}
    /\ doing' = [doing EXCEPT ![a].at = "answered",
                              ![a].version = set[IF a = "orgFetch" THEN "org" ELSE "rules"]]
    /\ UNCHANGED <<set, pushes, running, memory, applied, onDisk, late, others, overlapped, bounds>>

\* handleRulesSync, handleConfigSync and the like: one push after the other.
Handle ==
    /\ running /\ doing["worker"].at = "idle" /\ pushes # <<>>
    /\ pushes' = Tail(pushes)
    /\ LET topic == Head(pushes)[1]   v == Head(pushes)[2]
       IN  /\ doing' = [doing EXCEPT !["worker"] = [at |-> CASE topic = "rules" -> "engine"
                                                             [] topic = "config" -> "read"
                                                             [] OTHER -> "merge",
                                                    topic |-> topic, version |-> v, seen |-> "none"]]
           /\ memory' = IF topic \in {"rules", "config"} THEN [memory EXCEPT ![topic] = v] ELSE memory
           /\ half' = IF topic = "user" THEN [half EXCEPT !.user = v] ELSE half
           /\ late' = (late /\ topic # "rules")
    /\ Overlap
    /\ UNCHANGED <<set, running, engine, scanning, onDisk, others, bounds>>

\* syncRulesFromAPI: an error leaves the rules.
SyncRulesFromAPI ==
    /\ doing["rulesFetch"].at \in {"ask", "answered"}
    /\ \/ /\ doing["rulesFetch"].at = "answered" /\ UNCHANGED settingFaults
          /\ memory' = [memory EXCEPT !.rules = doing["rulesFetch"].version]
          /\ doing' = [doing EXCEPT !["rulesFetch"].at = "engine", !["rulesFetch"].topic = "rules"]
          /\ late' = (doing["rulesFetch"].version # set["rules"])
       \/ /\ SettingFault /\ doing' = [doing EXCEPT !["rulesFetch"] = NotDoing]
          /\ late' = TRUE /\ UNCHANGED memory
    /\ Overlap
    /\ UNCHANGED <<set, pushes, running, applied, onDisk, others, settingEdits>>

\* syncOrgScannerRulesFromAPI: an error empties the admin's half.
SyncOrgScannerRulesFromAPI ==
    /\ doing["orgFetch"].at \in {"ask", "answered"}
    /\ \/ doing["orgFetch"].at = "answered" /\ UNCHANGED settingFaults /\ half' = [half EXCEPT !.org = doing["orgFetch"].version]
       \/ SettingFault /\ half' = [half EXCEPT !.org = 0]
    /\ doing' = [doing EXCEPT !["orgFetch"].at = "merge", !["orgFetch"].topic = "org"]
    /\ Overlap
    /\ UNCHANGED <<set, pushes, running, memory, engine, scanning, onDisk, late, others, settingEdits>>

UpdateRules(a) ==
    /\ doing[a].at = "engine" /\ engine' = doing[a].version /\ Does(a, "read")
    /\ Overlap
    /\ UNCHANGED <<set, pushes, running, memory, half, scanning, onDisk, late, others, bounds>>

\* applyScannerRules: the merge, under the lock, and ...
MergeScannerRules(a) ==
    /\ doing[a].at = "merge" /\ doing' = [doing EXCEPT ![a].seen = half, ![a].at = "replace"]
    /\ UNCHANGED <<set, pushes, running, memory, applied, onDisk, late, others, overlapped, bounds>>

\* Mutant: the user's rules are handed to the scanner as they are.
ReplaceUnmerged(a) ==
    /\ doing[a].at = "replace"
    /\ scanning' = IF a = "worker" THEN [org |-> 0, user |-> half.user] ELSE doing[a].seen
    /\ userFile' = IF a = "worker" THEN doing[a].version ELSE userFile
    /\ doing' = [doing EXCEPT ![a] = NotDoing]
    /\ UNCHANGED <<set, pushes, running, memory, engine, half, disk, cut, late, others, overlapped, bounds>>

\* ... ReplaceCustomRules, without it; then SaveScannerRules keeps the user's.
ReplaceCustomRules(a) ==
    /\ doing[a].at = "replace" /\ scanning' = doing[a].seen
    /\ userFile' = IF a = "worker" THEN doing[a].version ELSE userFile
    /\ doing' = [doing EXCEPT ![a] = NotDoing]
    /\ UNCHANGED <<set, pushes, running, memory, engine, half, disk, cut, late, others, overlapped, bounds>>

-----------------------------------------------------------------------------
(* config.Save.                                                             *)

\* loadFile: a file that cannot be read counts as one without machines.
LoadFile(a) ==
    /\ doing[a].at = "read"
    /\ LET file == IF cut THEN NoEntries ELSE disk
       IN  doing' = [doing EXCEPT ![a].at = "cut",
                                  ![a].seen = IF a = "otherMachine" THEN [file EXCEPT !.other = doing[a].version]
                                              ELSE [file EXCEPT !.own = memory]]
    /\ UNCHANGED <<set, pushes, running, memory, applied, onDisk, late, others, overlapped, bounds>>

\* os.WriteFile truncates the file ...
Truncate(a) ==
    /\ doing[a].at = "cut" /\ cut' = TRUE /\ Does(a, "write")
    /\ UNCHANGED <<set, pushes, running, memory, applied, disk, userFile, late, others, overlapped, bounds>>

\* ... and writes it.
WriteFile(a) ==
    /\ doing[a].at = "write" /\ disk' = doing[a].seen /\ cut' = FALSE
    /\ others' = IF a = "otherMachine" THEN doing[a].version ELSE others
    /\ doing' = [doing EXCEPT ![a] = NotDoing]
    /\ UNCHANGED <<set, pushes, running, memory, applied, userFile, late, overlapped, bounds>>

\* The bridge dies, or is restarted.
BridgeStops ==
    /\ running /\ SettingFault /\ running' = FALSE /\ pushes' = <<>>
    /\ overlapped' = (overlapped \/ \E a \in Actor : doing[a].at = "write" /\ a # "otherMachine")
    /\ doing' = [a \in Actor |-> IF a = "otherMachine" THEN doing[a] ELSE NotDoing]
    /\ UNCHANGED <<set, memory, applied, onDisk, late, others, settingEdits>>

SettingsInit ==
    /\ set = [topic \in Topic |-> 0] /\ pushes = <<>> /\ running = FALSE
    /\ memory = NoEntries.own /\ engine = 0 /\ half = [org |-> 0, user |-> 0] /\ scanning = half
    /\ disk = NoEntries /\ cut = FALSE /\ late = FALSE /\ userFile = 0 /\ doing = [a \in Actor |-> NotDoing]
    /\ others = 0 /\ overlapped = FALSE /\ settingEdits = 0 /\ settingFaults = 0

SettingsNext ==
    \/ OtherSaves \/ StartBridge \/ Handle \/ SyncRulesFromAPI \/ SyncOrgScannerRulesFromAPI \/ BridgeStops
    \/ \E topic \in Topic : EditSetting(topic)
    \/ \E a \in Actor : \/ Answer(a) \/ UpdateRules(a) \/ MergeScannerRules(a) \/ ReplaceCustomRules(a)
                        \/ LoadFile(a) \/ Truncate(a) \/ WriteFile(a)

SettingsSpec == SettingsInit /\ [][SettingsNext]_settingVars

-----------------------------------------------------------------------------
(* Properties.                                                              *)

SettingsTypeOK ==
    /\ set \in [Topic -> 0..MaxSettingEdits] /\ engine \in 0..MaxSettingEdits
    /\ memory \in [{"rules", "config"} -> 0..MaxSettingEdits]
    /\ half \in [{"org", "user"} -> 0..MaxSettingEdits] /\ scanning \in [{"org", "user"} -> 0..MaxSettingEdits]
    /\ cut \in BOOLEAN /\ disk.other \in 0..MaxSettingEdits

\* When the machine is at rest, the engine evaluates the rules that are in
\* memory, in the file and on the platform; the scanner has both halves, the
\* user's as they are on disk; and the entry of the other machine is as it was
\* written.  Excused, because there is no lock: two handlers of one subject or
\* two saves at a time, a save cut short; and, as to the platform, an answer
\* that failed or was overtaken by a push.
SettingsAgree ==
    running /\ pushes = <<>> /\ ~overlapped /\ (\A a \in Actor : doing[a].at = "idle")
      => /\ engine = memory.rules /\ disk.own = memory /\ ~cut
         /\ late \/ memory.rules = set["rules"]
         /\ scanning = half /\ half.user = userFile
         /\ disk.other = others

=============================================================================
