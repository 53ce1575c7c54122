------------------------------- MODULE Callbacks -------------------------------
(***************************************************************************)
(* The reports of finished tasks (internal/workflows/callback.go): each is  *)
(* posted by a goroutine of its own, a few times; one that never got        *)
(* through is written to a file named after its task, and the files are     *)
(* posted again on every reconnect and heartbeat.                           *)
(***************************************************************************)
EXTENDS Naturals, FiniteSets

CONSTANTS
    Report,
    ReportedTask,  \* ReportedTask[r]: the task of report r
    NoReport,
    MaxRetries     \* posts before a report is cached (5 in the code)

ReportTasks == {ReportedTask[r] : r \in Report}
Torn == "torn"     \* a file that is not the JSON of a report

ASSUME CallbacksAssumption ==
    /\ NoReport \notin Report /\ Torn \notin Report
    /\ MaxRetries \in Nat \ {0} /\ DOMAIN ReportedTask = Report

VARIABLES
    progress,      \* progress[r]: "none", "posting", "exhausted", "over"
    tries,         \* tries[r]: posts that failed
    file,          \* file[t]: the report cached for a task, NoReport or Torn
    draining,      \* cacheMu is held by RetryCachedEvents
    listed,        \* the files it has still to look at
    reading,       \* the report it is posting
    arrived,       \* ghost: reports the orchestrator has seen
    crashed,       \* ghost: reports in memory or half written at a crash
    overwritten    \* ghost: reports whose file another report of the task replaced

drainVars == <<draining, listed, reading>>
callbackVars == <<progress, tries, file, drainVars, arrived, crashed, overwritten>>

Reaches(r, ok) == arrived' \in {arrived \cup {r}} \cup (IF ok THEN {} ELSE {arrived})

\* SendTaskResult, SendTaskError
SendReport(r) ==
    /\ progress[r] = "none" /\ progress' = [progress EXCEPT ![r] = "posting"]
    /\ UNCHANGED <<tries, file, drainVars, arrived, crashed, overwritten>>

\* sendEventWithRetry.  A post that failed may have been received all the same.
PostReport(r, ok) ==
    /\ progress[r] = "posting"
    /\ Reaches(r, ok)
    /\ tries' = [tries EXCEPT ![r] = IF ok THEN @ ELSE @ + 1]
    /\ progress' = [progress EXCEPT ![r] = IF ok THEN "over" ELSE IF tries[r] + 1 = MaxRetries THEN "exhausted" ELSE @]
    /\ UNCHANGED <<file, drainVars, crashed, overwritten>>

Replaced(t, r) == ({file[t]} \cap Report) \ {r}

WriteReport(r) ==
    LET t == ReportedTask[r] IN
    /\ file' = [file EXCEPT ![t] = r]
    /\ overwritten' = overwritten \cup Replaced(t, r)
    /\ progress' = [progress EXCEPT ![r] = "over"]
    /\ UNCHANGED <<tries, drainVars, arrived, crashed>>

\* Mutant: the cache is written beside a drain.
CacheEventUnlocked(r) == progress[r] = "exhausted" /\ WriteReport(r)

\* cacheEvent
CacheEvent(r) == progress[r] = "exhausted" /\ ~draining /\ WriteReport(r)

\* RetryCachedEvents: the files of the directory, one after another, under the lock.
StartDrain ==
    /\ ~draining /\ draining' = TRUE
    /\ listed' = {t \in ReportTasks : file[t] # NoReport} /\ listed' # {}
    /\ UNCHANGED <<progress, tries, file, reading, arrived, crashed, overwritten>>

ReadCached(t) ==
    /\ draining /\ reading = NoReport /\ t \in listed
    /\ listed' = listed \ {t}
    /\ IF file[t] = Torn THEN file' = [file EXCEPT ![t] = NoReport] /\ UNCHANGED reading
       ELSE reading' = file[t] /\ UNCHANGED file
    /\ UNCHANGED <<progress, tries, draining, arrived, crashed, overwritten>>

PostCached(ok) ==
    /\ reading # NoReport /\ reading' = NoReport
    /\ Reaches(reading, ok)
    /\ file' = IF ok THEN [file EXCEPT ![ReportedTask[reading]] = NoReport] ELSE file
    /\ UNCHANGED <<progress, tries, draining, listed, crashed, overwritten>>

EndDrain ==
    /\ draining /\ listed = {} /\ reading = NoReport
    /\ draining' = FALSE
    /\ UNCHANGED <<progress, tries, file, listed, reading, arrived, crashed, overwritten>>

\* The bridge dies, perhaps while it writes a file, and is started again.
BridgeCrashes ==
    /\ \E r \in Report : progress[r] \in {"posting", "exhausted"}
    /\ progress' = [r \in Report |-> IF progress[r] \in {"posting", "exhausted"} THEN "over" ELSE progress[r]]
    /\ crashed' = crashed \cup {r \in Report : progress[r] \in {"posting", "exhausted"}}
    /\ draining' = FALSE /\ listed' = {} /\ reading' = NoReport
    /\ \/ UNCHANGED <<file, overwritten>>
       \/ \E r \in Report : /\ progress[r] = "exhausted" /\ ~draining
                            /\ file' = [file EXCEPT ![ReportedTask[r]] = Torn]
                            /\ overwritten' = overwritten \cup Replaced(ReportedTask[r], r)
    /\ UNCHANGED <<tries, arrived>>

CallbackInit ==
    /\ progress = [r \in Report |-> "none"] /\ tries = [r \in Report |-> 0]
    /\ file = [t \in ReportTasks |-> NoReport]
    /\ draining = FALSE /\ listed = {} /\ reading = NoReport
    /\ arrived = {} /\ crashed = {} /\ overwritten = {}

CallbackNext ==
    \/ \E r \in Report : SendReport(r) \/ CacheEvent(r) \/ \E ok \in BOOLEAN : PostReport(r, ok)
    \/ StartDrain \/ EndDrain \/ BridgeCrashes
    \/ \E t \in ReportTasks : ReadCached(t)
    \/ \E ok \in BOOLEAN : PostCached(ok)

CallbackSpec == CallbackInit /\ [][CallbackNext]_callbackVars

CallbackTypeOK ==
    /\ progress \in [Report -> {"none", "posting", "exhausted", "over"}]
    /\ tries \in [Report -> 0..MaxRetries]
    /\ file \in [ReportTasks -> Report \cup {NoReport, Torn}]
    /\ draining \in BOOLEAN /\ listed \subseteq ReportTasks /\ reading \in Report \cup {NoReport}
    /\ arrived \cup crashed \cup overwritten \subseteq Report

\* A report is not given up: until the orchestrator has it, it is being posted
\* or is on disk, while reports are cached beside a drain that posts and removes
\* files.  Excused: a report in memory or half written when the bridge died, and
\* one whose file another report of its task replaced (callback.go 340).
ReportIsKept ==
    \A r \in Report :
        \/ progress[r] \in {"none", "posting", "exhausted"} \/ r \in arrived
        \/ file[ReportedTask[r]] = r \/ r \in crashed \/ r \in overwritten

=============================================================================
