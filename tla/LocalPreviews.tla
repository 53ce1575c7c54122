---------------------------- MODULE LocalPreviews -----------------------------
(***************************************************************************)
(* A mission's compose stack on the user's own machine                      *)
(* (internal/deploysource/localpreview.go): the user starts and stops it on   *)
(* the platform's page, the bridge's poll loop finds the request, runs docker *)
(* compose and settles the platform's row with a report.  A report that is    *)
(* lost, or a bridge that dies, leaves the request to the next poll.         *)
(***************************************************************************)
EXTENDS Naturals

CONSTANTS
    MaxStackClicks,   \* bound: requests of the user
    MaxStackTroubles  \* bound: failures of docker, lost reports, dead containers, crashes

ASSUME LocalPreviewsAssumption == MaxStackClicks \in Nat /\ MaxStackTroubles \in Nat

Runner == 1..2

VARIABLES
    wish,        \* the platform's row: "off", "start", "stop" while requested, else how it was settled
    answer,      \* the action in the last poll's answer, or "none"
    slot,        \* the mission's in-flight slot
    runner,      \* runner[r]: an action being executed: "idle", its action, its report
    stack,       \* the compose stack: "down", "up", "stopped"
    diedBySelf,  \* ghost: the containers have died since they were started
    overtaken,   \* ghost: a row was settled while the answer that offers it was on its way
    strayed,     \* ghost: the last action run was one of such an answer
    stackClicks, stackTroubles

localVars == <<wish, answer, slot, runner, stack, diedBySelf, overtaken, strayed, stackClicks, stackTroubles>>
strays == <<overtaken, strayed>>

NoRunner == [at |-> "idle", report |-> "none"]
StackTrouble == stackTroubles < MaxStackTroubles /\ stackTroubles' = stackTroubles + 1
Click == stackClicks < MaxStackClicks /\ stackClicks' = stackClicks + 1

-----------------------------------------------------------------------------

\* A stack that is being stopped is not started before that is settled.
UserStarts ==
    /\ wish \in {"off", "stopped", "failed"} /\ Click /\ wish' = "start"
    /\ UNCHANGED <<answer, slot, runner, stack, diedBySelf, strays, stackTroubles>>

UserStops ==
    /\ wish \in {"start", "running"} /\ Click /\ wish' = "stop"
    /\ UNCHANGED <<answer, slot, runner, stack, diedBySelf, strays, stackTroubles>>

StackDies ==
    /\ stack = "up" /\ StackTrouble /\ stack' = "stopped" /\ diedBySelf' = TRUE
    /\ UNCHANGED <<wish, answer, slot, runner, strays, stackClicks>>

PollLocalPreviews ==
    /\ answer = "none" /\ wish \in {"start", "stop"} /\ answer' = wish
    /\ overtaken' = FALSE
    /\ UNCHANGED <<wish, slot, runner, stack, diedBySelf, strayed, stackClicks, stackTroubles>>

\* Mutant: an action is started while the last one runs.
RunUnclaimed ==
    /\ answer # "none" /\ answer' = "none" /\ UNCHANGED slot
    /\ \E r \in Runner : runner[r].at = "idle" /\ runner' = [runner EXCEPT ![r] = [at |-> answer, report |-> "none"]]
    /\ UNCHANGED <<wish, stack, diedBySelf, strays, stackClicks, stackTroubles>>

\* claimLocalPreview: one action of a mission at a time.
ClaimAndRun ==
    /\ answer # "none" /\ answer' = "none"
    /\ IF slot THEN UNCHANGED <<slot, runner, strayed>>
       ELSE /\ slot' = TRUE /\ strayed' = overtaken
            /\ \E r \in Runner : /\ runner[r].at = "idle"
                                 /\ runner' = [runner EXCEPT ![r] = [at |-> answer, report |-> "none"]]
    /\ UNCHANGED <<wish, stack, diedBySelf, overtaken, stackClicks, stackTroubles>>

\* runLocalPreviewStart: no compose file, no docker, a stack that does not come
\* up (whatever is up of it stays), or no port, though it is up.
ComposeUp(r) ==
    /\ runner[r].at = "start"
    /\ \/ /\ stack' = "up" /\ diedBySelf' = FALSE /\ UNCHANGED stackTroubles
          /\ \E report \in {"running", "failed"} : runner' = [runner EXCEPT ![r] = [at |-> "report", report |-> report]]
       \/ /\ StackTrouble /\ stack' \in {stack, "up"} /\ UNCHANGED diedBySelf
          /\ runner' = [runner EXCEPT ![r] = [at |-> "report", report |-> "failed"]]
    /\ UNCHANGED <<wish, answer, slot, strays, stackClicks>>

\* runLocalPreviewStop: the containers are kept.
ComposeStop(r) ==
    /\ runner[r].at = "stop"
    /\ \/ /\ stack' = (IF stack = "up" THEN "stopped" ELSE stack) /\ UNCHANGED stackTroubles
          /\ runner' = [runner EXCEPT ![r] = [at |-> "report", report |-> "stopped"]]
       \/ /\ StackTrouble /\ UNCHANGED stack
          /\ runner' = [runner EXCEPT ![r] = [at |-> "report", report |-> "failed"]]
    /\ UNCHANGED <<wish, answer, slot, diedBySelf, strays, stackClicks>>

\* The report: lost, or taken by the platform if the row waits for it.
Settles(report) ==
    \/ wish = "start" /\ report \in {"running", "failed"}
    \/ wish = "stop" /\ report \in {"stopped", "failed"}
ReportLocalPreview(r) ==
    /\ runner[r].at = "report"
    /\ runner' = [runner EXCEPT ![r] = NoRunner] /\ slot' = FALSE
    /\ \/ wish' = (IF Settles(runner[r].report) THEN runner[r].report ELSE wish) /\ UNCHANGED stackTroubles
       \/ StackTrouble /\ UNCHANGED wish
    /\ overtaken' = (answer # "none")
    /\ UNCHANGED <<answer, stack, diedBySelf, strayed, stackClicks>>

BridgeDies ==
    /\ StackTrouble
    /\ runner' = [r \in Runner |-> NoRunner] /\ slot' = FALSE /\ answer' = "none"
    /\ UNCHANGED <<wish, stack, diedBySelf, strays, stackClicks>>

LocalInit ==
    /\ wish = "off" /\ answer = "none" /\ slot = FALSE /\ runner = [r \in Runner |-> NoRunner]
    /\ stack = "down" /\ diedBySelf = FALSE /\ overtaken = FALSE /\ strayed = FALSE
    /\ stackClicks = 0 /\ stackTroubles = 0

LocalNext ==
    \/ UserStarts \/ UserStops \/ StackDies \/ PollLocalPreviews \/ ClaimAndRun \/ BridgeDies
    \/ \E r \in Runner : ComposeUp(r) \/ ComposeStop(r) \/ ReportLocalPreview(r)

LocalSpec == LocalInit /\ [][LocalNext]_localVars

-----------------------------------------------------------------------------
(* Properties.                                                              *)

LocalTypeOK ==
    /\ wish \in {"off", "start", "stop", "running", "stopped", "failed"}
    /\ answer \in {"none", "start", "stop"} /\ stack \in {"down", "up", "stopped"}
    /\ \A r \in Runner : runner[r].at \in {"idle", "start", "stop", "report"}

\* What the page says of a settled stack is so, whatever the order in which
\* requests, polls, actions, lost reports and restarts come: no action of a
\* request that is over is still under way.  Excused: an action taken from an
\* answer that was on its way while its row was settled.
SettledIsTrue ==
    strayed \/ /\ wish = "running" => stack = "up" \/ diedBySelf
               /\ wish = "stopped" => stack # "up"

=============================================================================
