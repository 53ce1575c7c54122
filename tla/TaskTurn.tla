------------------------------- MODULE TaskTurn -------------------------------
(***************************************************************************)
(* The end of a workflow task's turn (internal/bridge/bridge.go): a task    *)
(* session is over when its engine ends its turn, unless the engine asked   *)
(* the user a question.  A question waits in a goroutine of its own for     *)
(* the answer or for five minutes; a watchdog per task stops a session that *)
(* is silent.  Questions, watchdogs and stops all go by the task's id,      *)
(* which the attempts of a task share.  (TaskPool has the dispatch.)        *)
(***************************************************************************)
EXTENDS Naturals, FiniteSets

CONSTANTS
    MaxAttempts,   \* bound: dispatches of the task
    MaxQuestions   \* bound: questions of all attempts

ASSUME TaskTurnAssumption == MaxAttempts \in Nat /\ MaxQuestions \in Nat

VARIABLES
    attempt,       \* attempt of the session in the registry, 0: none
    launched,      \* attempts launched so far
    taskTurn,      \* the engine's turn: "none", "working", "ended"
    arming,        \* the launch has sent its prompt and not yet armed the watchdog
    dog,           \* taskWatchdogs has the task
    removals,      \* callbacks of removed sessions not yet run
    stops,         \* exit codes of goroutines about to stop the session
    pendingQuestion, \* pendingQuestions[task]: a question, 0: none
    questions,     \* questions asked so far; each has its channel
    answers,       \* answers[q]: its channel: "empty", "answered", "closed"
    waiters,       \* waiters[q]: "none", "waiting", "injecting", "late", "done"
    handling,      \* channel handleWorkflowTaskAnswer found, 0: none
    posted,        \* ... and whether it has sent the answer
    leftToDog,     \* ghost: attempts that only the watchdog can end
    unwatched      \* ghost: attempts whose watchdog an earlier one's removal cancelled

turnVars == <<attempt, launched, taskTurn>>
dogVars == <<arming, dog, removals>>
questionVars == <<pendingQuestion, questions, answers, waiters>>
handlerVars == <<handling, posted>>
taskTurnVars == <<turnVars, dogVars, stops, questionVars, handlerVars, leftToDog, unwatched>>

Questions == 1..MaxQuestions

\* launchTaskSession: the session is registered and prompted, then watched.
Launch ==
    /\ attempt = 0 /\ launched < MaxAttempts /\ ~arming
    /\ launched' = launched + 1 /\ attempt' = launched + 1 /\ taskTurn' = "working" /\ arming' = TRUE
    /\ UNCHANGED <<dog, removals, stops, questionVars, handlerVars, leftToDog, unwatched>>

ArmTaskWatchdog ==
    /\ arming /\ arming' = FALSE /\ dog' = TRUE
    /\ UNCHANGED <<turnVars, removals, stops, questionVars, handlerVars, leftToDog, unwatched>>

\* The prompt could not be sent: the session is stopped as failed, unwatched.
PromptFails ==
    /\ arming /\ arming' = FALSE /\ stops' = stops \cup {1}
    /\ UNCHANGED <<turnVars, dog, removals, questionVars, handlerVars, leftToDog, unwatched>>

\* fireTaskWatchdog
FireTaskWatchdog ==
    /\ dog /\ dog' = FALSE
    /\ stops' = IF attempt # 0 THEN stops \cup {1} ELSE stops
    /\ UNCHANGED <<turnVars, arming, removals, questionVars, handlerVars, leftToDog, unwatched>>

\* handleQuestionMarker: an earlier question's channel is closed.
HandleQuestionMarker ==
    /\ taskTurn = "working" /\ questions < MaxQuestions
    /\ questions' = questions + 1 /\ pendingQuestion' = questions + 1
    /\ answers' = [q \in Questions |-> IF q = pendingQuestion THEN "closed" ELSE answers[q]]
    /\ waiters' = [waiters EXCEPT ![questions + 1] = "waiting"]
    /\ UNCHANGED <<turnVars, dogVars, stops, handlerVars, leftToDog, unwatched>>

\* Mutant: only a task that never asked ends with its turn.
EndsTask == IF questions = 0 THEN stops' = stops \cup {0} ELSE UNCHANGED stops

\* The turn-end branch of forwardSessionOutput: not with a question pending.
EndOfTurnEndsTask == IF pendingQuestion = 0 THEN stops' = stops \cup {0} ELSE UNCHANGED stops

EngineEndsTurn ==
    /\ taskTurn = "working" /\ taskTurn' = "ended"
    /\ EndOfTurnEndsTask
    /\ leftToDog' = IF posted THEN leftToDog \cup {attempt} ELSE leftToDog
    /\ UNCHANGED <<attempt, launched, dogVars, questionVars, handlerVars, unwatched>>

\* StopWithExitCode, by the id of the task.
StopWithExitCode(code) ==
    /\ code \in stops /\ stops' = stops \ {code}
    /\ attempt' = 0 /\ taskTurn' = "none"
    /\ removals' = IF attempt # 0 THEN removals + 1 ELSE removals
    /\ UNCHANGED <<launched, arming, dog, questionVars, handlerVars, leftToDog, unwatched>>

\* removeStatusTracker, some time after the session was removed.
RemoveStatusTracker ==
    /\ removals > 0 /\ removals' = removals - 1 /\ dog' = FALSE
    /\ unwatched' = IF attempt # 0 THEN unwatched \cup {attempt} ELSE unwatched
    /\ UNCHANGED <<turnVars, arming, stops, questionVars, handlerVars, leftToDog>>

WaiterGetsAnswer(q) ==
    /\ waiters[q] = "waiting" /\ answers[q] # "empty"
    /\ waiters' = [waiters EXCEPT ![q] = "injecting"]
    /\ UNCHANGED <<turnVars, dogVars, stops, pendingQuestion, questions, answers, handlerVars, leftToDog, unwatched>>

\* The engine takes a prompt once its turn is over (AcpEngine), or refuses it.
WaiterInjects(q) ==
    /\ waiters[q] = "injecting" /\ (attempt = 0 \/ taskTurn = "ended")
    /\ waiters' = [waiters EXCEPT ![q] = "done"]
    /\ \/ taskTurn' = (IF attempt = 0 THEN taskTurn ELSE "working") /\ UNCHANGED leftToDog
       \/ taskTurn' = taskTurn /\ attempt # 0 /\ leftToDog' = leftToDog \cup {attempt}
    /\ UNCHANGED <<attempt, launched, dogVars, stops, pendingQuestion, questions, answers, handlerVars, unwatched>>

\* Five minutes: whatever question the task has is forgotten ...
WaiterTimesOut(q) ==
    /\ waiters[q] = "waiting"
    /\ waiters' = [waiters EXCEPT ![q] = "late"]
    /\ pendingQuestion' = 0
    /\ UNCHANGED <<turnVars, dogVars, stops, questions, answers, handlerVars, leftToDog, unwatched>>

\* ... and the session is stopped as failed.
WaiterStops(q) ==
    /\ waiters[q] = "late"
    /\ waiters' = [waiters EXCEPT ![q] = "done"] /\ stops' = stops \cup {1}
    /\ UNCHANGED <<turnVars, dogVars, pendingQuestion, questions, answers, handlerVars, leftToDog, unwatched>>

\* handleWorkflowTaskAnswer: the channel is looked up ...
FindQuestion ==
    /\ handling = 0 /\ pendingQuestion # 0
    /\ handling' = pendingQuestion /\ posted' = FALSE
    /\ UNCHANGED <<turnVars, dogVars, stops, questionVars, leftToDog, unwatched>>

\* ... the answer sent into it (a closed one panics, which the worker survives) ...
PostAnswer ==
    /\ handling # 0 /\ ~posted
    /\ IF answers[handling] = "closed"
         THEN handling' = 0 /\ UNCHANGED <<answers, posted>>
         ELSE /\ answers[handling] = "empty"
              /\ answers' = [answers EXCEPT ![handling] = "answered"] /\ posted' = TRUE /\ UNCHANGED handling
    /\ UNCHANGED <<turnVars, dogVars, stops, pendingQuestion, questions, waiters, leftToDog, unwatched>>

\* ... and the task's entry removed.
ClearQuestion ==
    /\ handling # 0 /\ posted
    /\ handling' = 0 /\ posted' = FALSE /\ pendingQuestion' = 0
    /\ UNCHANGED <<turnVars, dogVars, stops, questions, answers, waiters, leftToDog, unwatched>>

\* With no question pending the answer goes to the engine as guidance.
Guide ==
    /\ handling = 0 /\ pendingQuestion = 0 /\ taskTurn = "ended" /\ taskTurn' = "working"
    /\ UNCHANGED <<attempt, launched, dogVars, stops, questionVars, handlerVars, leftToDog, unwatched>>

TurnInit ==
    /\ attempt = 0 /\ launched = 0 /\ taskTurn = "none"
    /\ arming = FALSE /\ dog = FALSE /\ removals = 0 /\ stops = {}
    /\ pendingQuestion = 0 /\ questions = 0
    /\ answers = [q \in Questions |-> "empty"] /\ waiters = [q \in Questions |-> "none"]
    /\ handling = 0 /\ posted = FALSE
    /\ leftToDog = {} /\ unwatched = {}

WaiterStep(q) == WaiterGetsAnswer(q) \/ WaiterInjects(q) \/ WaiterTimesOut(q) \/ WaiterStops(q)

TurnNext ==
    \/ Launch \/ ArmTaskWatchdog \/ PromptFails \/ FireTaskWatchdog \/ RemoveStatusTracker
    \/ HandleQuestionMarker \/ EngineEndsTurn \/ Guide
    \/ \E code \in {0, 1} : StopWithExitCode(code)
    \/ \E q \in Questions : WaiterStep(q)
    \/ FindQuestion \/ PostAnswer \/ ClearQuestion

TurnSpec == TurnInit /\ [][TurnNext]_taskTurnVars

AttemptTypes ==
    /\ attempt \in 0..launched /\ launched \in 0..MaxAttempts
    /\ taskTurn \in {"none", "working", "ended"} /\ (attempt = 0 <=> taskTurn = "none")
FlagTypes == arming \in BOOLEAN /\ dog \in BOOLEAN /\ posted \in BOOLEAN
StopTypes == removals \in 0..MaxAttempts /\ stops \subseteq {0, 1}
QuestionTypes ==
    pendingQuestion \in 0..questions /\ questions \in 0..MaxQuestions /\ handling \in 0..questions
ChannelTypes ==
    /\ answers \in [Questions -> {"empty", "answered", "closed"}]
    /\ waiters \in [Questions -> {"none", "waiting", "injecting", "late", "done"}]
GhostTypes == leftToDog \cup unwatched \subseteq 1..MaxAttempts

TurnTypeOK ==
    AttemptTypes /\ FlagTypes /\ StopTypes /\ QuestionTypes /\ ChannelTypes /\ GhostTypes

\* No task is parked: when the engine's turn is over, the session is being
\* stopped, or a question's goroutine is still there to resume or to stop it,
\* through answers that arrive late, twice, or for a question replaced by the
\* next.  The watchdog is what is left where the engine refused the answer, or
\* where its next turn was over before the answer's entry was removed; excused
\* there: a watchdog that the removal of the previous attempt cancelled.
NoParkedTask ==
    taskTurn = "ended" =>
        \/ stops # {}
        \/ \E q \in Questions : waiters[q] \in {"waiting", "injecting", "late"}
        \/ attempt \in leftToDog /\ (arming \/ dog \/ attempt \in unwatched)

=============================================================================
