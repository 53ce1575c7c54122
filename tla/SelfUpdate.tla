------------------------------ MODULE SelfUpdate ------------------------------
(***************************************************************************)
(* The update command (cmd_update.go, internal/updater): the latest release   *)
(* is looked up, its archive downloaded and verified, the binary in it staged  *)
(* next to the installed one and put in its place by two renames, with a      *)
(* backup between them.  The command can be interrupted at any step, and the   *)
(* user can run it in two terminals: nothing locks the files.                 *)
(***************************************************************************)
EXTENDS Naturals

CONSTANTS
    MaxReleases,      \* bound: releases published after the installed one
    MaxUpdateFaults,  \* bound: failed steps and interrupted commands
    MaxUpdateRuns     \* bound: commands started

ASSUME SelfUpdateAssumption ==
    MaxReleases \in Nat /\ MaxUpdateFaults \in Nat /\ MaxUpdateRuns \in Nat

Terminal == 1..2
Absent == MaxReleases + 1   \* no file
Partial == MaxReleases + 2  \* a file that is not a whole, verified binary

VARIABLES
    latest,       \* the latest release: its version, and whether its assets can be verified
    installed,    \* the file at the installed path
    backup,       \* the file beside it with the suffix .bak
    command,      \* command[t]: a run of "update", its release, its downloaded and staged files
    twoAtATime,   \* ghost: two commands have run at a time
    updateFaults, updateRuns

updateVars == <<latest, installed, backup, command, twoAtATime, updateFaults, updateRuns>>

NoCommand == [at |-> "idle", runs |-> 0, release |-> 0, sound |-> TRUE, file |-> Absent, stage |-> Absent]
UpdateFault == updateFaults < MaxUpdateFaults /\ updateFaults' = updateFaults + 1
GoesTo(t, step) == command' = [command EXCEPT ![t].at = step]
Stops(t) == command' = [command EXCEPT ![t] = NoCommand]

-----------------------------------------------------------------------------

\* A release, or one whose checksums or signature do not fit its archive.
Release ==
    /\ latest.version < MaxReleases
    /\ \E sound \in BOOLEAN : latest' = [version |-> latest.version + 1, sound |-> sound]
    /\ UNCHANGED <<installed, backup, command, twoAtATime, updateFaults, updateRuns>>

RunUpdate(t) ==
    /\ command[t].at = "idle" /\ installed # Absent /\ updateRuns < MaxUpdateRuns
    /\ updateRuns' = updateRuns + 1
    /\ command' = [command EXCEPT ![t] = [NoCommand EXCEPT !.at = "check", !.runs = installed]]
    /\ twoAtATime' = (twoAtATime \/ \E u \in Terminal : command[u].at # "idle")
    /\ UNCHANGED <<latest, installed, backup, updateFaults>>

\* CheckUpdate compares the release with the version that runs.
CheckUpdate(t) ==
    /\ command[t].at = "check"
    /\ \/ /\ UNCHANGED updateFaults
          /\ IF command[t].runs < latest.version
             THEN command' = [command EXCEPT ![t].at = "download", ![t].release = latest.version, ![t].sound = latest.sound]
             ELSE Stops(t)
       \/ UpdateFault /\ Stops(t)
    /\ UNCHANGED <<latest, installed, backup, twoAtATime, updateRuns>>

\* DownloadVerified: signature, checksum, then the archive, or nothing.
DownloadVerified(t) ==
    /\ command[t].at = "download"
    /\ \/ /\ command[t].sound /\ UNCHANGED updateFaults
          /\ command' = [command EXCEPT ![t].at = "stage", ![t].file = command[t].release]
       \/ ~command[t].sound /\ UNCHANGED updateFaults /\ Stops(t)
       \/ UpdateFault /\ Stops(t)                  \* a broken transfer
    /\ UNCHANGED <<latest, installed, backup, twoAtATime, updateRuns>>

\* stageNextTo copies the binary to a name of its own beside the installed one.
StageNextTo(t) ==
    /\ command[t].at = "stage"
    /\ \/ command[t].stage = Absent /\ command' = [command EXCEPT ![t].stage = Partial] /\ UNCHANGED updateFaults
       \/ /\ command[t].stage = Partial /\ UNCHANGED updateFaults
          /\ command' = [command EXCEPT ![t].stage = command[t].file, ![t].at = "backup"]
       \/ UpdateFault /\ Stops(t)
    /\ UNCHANGED <<latest, installed, backup, twoAtATime, updateRuns>>

\* applyUpdateTo: the old backup goes ...
RemoveBackup(t) ==
    /\ command[t].at = "backup"
    /\ backup' = Absent /\ GoesTo(t, "away")
    /\ UNCHANGED <<latest, installed, twoAtATime, updateFaults, updateRuns>>

\* Mutant: the installed binary is removed, not kept as the backup.
RemoveAway(t) ==
    /\ command[t].at = "away" /\ installed' = Absent
    /\ IF installed = Absent THEN Stops(t) ELSE GoesTo(t, "in")
    /\ UNCHANGED <<latest, backup, twoAtATime, updateFaults, updateRuns>>

\* ... the installed binary becomes the backup ...
RenameAway(t) ==
    /\ command[t].at = "away"
    /\ \/ /\ installed # Absent /\ UNCHANGED updateFaults
          /\ backup' = installed /\ installed' = Absent /\ GoesTo(t, "in")
       \/ /\ installed = Absent \/ updateFaults < MaxUpdateFaults
          /\ updateFaults' = IF installed = Absent THEN updateFaults ELSE updateFaults + 1
          /\ Stops(t) /\ UNCHANGED <<installed, backup>>
    /\ UNCHANGED <<latest, twoAtATime, updateRuns>>

\* ... and the staged one the installed one, or the backup is put back.
RenameIn(t) ==
    /\ command[t].at = "in"
    /\ \/ /\ installed' = command[t].stage /\ UNCHANGED <<backup, updateFaults>>
          /\ command' = [command EXCEPT ![t].stage = Absent, ![t].at = "clean"]
       \/ /\ UpdateFault /\ Stops(t)
          /\ \/ UNCHANGED <<installed, backup>>       \* which may fail, too
             \/ backup # Absent /\ installed' = backup /\ backup' = Absent
    /\ UNCHANGED <<latest, twoAtATime, updateRuns>>

\* chmod, and the backup goes; an error of chmod leaves it.
CleanUp(t) ==
    /\ command[t].at = "clean" /\ Stops(t)
    /\ \/ backup' = Absent /\ UNCHANGED updateFaults
       \/ UpdateFault /\ UNCHANGED backup
    /\ UNCHANGED <<latest, installed, twoAtATime, updateRuns>>

\* The command is interrupted; its staged file stays, under a name nobody uses.
Interrupted(t) ==
    /\ command[t].at # "idle" /\ UpdateFault /\ Stops(t)
    /\ UNCHANGED <<latest, installed, backup, twoAtATime, updateRuns>>

UpdateInit ==
    /\ latest = [version |-> 0, sound |-> TRUE] /\ installed = 0 /\ backup = Absent
    /\ command = [t \in Terminal |-> NoCommand]
    /\ twoAtATime = FALSE /\ updateFaults = 0 /\ updateRuns = 0

UpdateNext ==
    \/ Release
    \/ \E t \in Terminal :
         \/ RunUpdate(t) \/ CheckUpdate(t) \/ DownloadVerified(t) \/ StageNextTo(t)
         \/ RemoveBackup(t) \/ RenameAway(t) \/ RenameIn(t) \/ CleanUp(t) \/ Interrupted(t)

UpdateSpec == UpdateInit /\ [][UpdateNext]_updateVars

-----------------------------------------------------------------------------
(* Properties.                                                              *)

UpdateTypeOK ==
    /\ installed \in 0..MaxReleases \cup {Absent} /\ backup \in 0..MaxReleases \cup {Absent}
    /\ \A t \in Terminal : command[t].release \in 0..MaxReleases

\* Whatever step an update fails or is interrupted at, and the next one after
\* it, a binary is left: the installed one or its backup, and neither is ever
\* a part of one.  Two commands at a time are excused from the first: one
\* removes the backup which is all that the other, interrupted, has left.
BinaryRemains ==
    /\ Partial \notin {installed, backup}
    /\ twoAtATime \/ installed # Absent \/ backup # Absent

=============================================================================
