------------------------------ MODULE AcpEngine -------------------------------
(***************************************************************************)
(* The ACP adapter (internal/protocol/acp.go): the bridge's side of the    *)
(* JSON-RPC conversation with a coding agent on its stdin and stdout.      *)
(*                                                                         *)
(* A prompt starts a turn; while it lasts isProcessing is latched and the  *)
(* next prompt waits.  The agent may ask for permission, and delegates     *)
(* shell commands to the bridge, which gates them on the user.  What ends  *)
(* a turn: the agent's answer, the idle watchdog, the patience of the next *)
(* prompt, an error, the agent's death.  The agent is external: it may     *)
(* stay silent for ever at any point.                                      *)
(***************************************************************************)
EXTENDS Naturals, FiniteSets, Sequences

CONSTANTS
    Prompt,      \* prompts, each sent by a goroutine of its own
    Question,    \* permission requests of the agent
    Terminal,    \* shell commands the agent delegates
    NoPrompt,
    MaxErrors,   \* consecutive errors after which the adapter gives up (5 in the code)
    MaxPipe,     \* bound: frames unread on the agent's stdout
    MaxFrames    \* bound: questions, commands and reports of the agent in one life

ASSUME AcpEngineAssumption ==
    /\ NoPrompt \notin Prompt
    /\ MaxErrors \in Nat \ {0} /\ MaxPipe \in Nat \ {0} /\ MaxFrames \in Nat

VARIABLES
    setup,         \* "initializing", "creating", "setting mode", "ready" or "unusable": the agent's session
    connected,     \* the adapter believes in its agent
    latch,         \* isProcessing
    lastPrompt,    \* lastPromptID
    awaiting,      \* awaitingPerms: the agent's questions the user has not answered
    gated,         \* pendingPerms: commands that wait for the user
    known,         \* terminals: commands the adapter still knows
    command,       \* command[t]: what became of it
    waiter,        \* waiter[t]: the goroutine that answers terminal/wait_for_exit
    tools,         \* activeTools is not empty
    errors,        \* consecutiveErrors
    sender,        \* sender[p]: how far SendMessage got
    patient,       \* senders that have waited staleTurnWait in silence
    quiet,         \* 0: traffic; 1: staleTurnWait; 2: turnIdleTimeout; 3: that with tools
    watchdog,      \* "idle", or "firing" after its checks
    process,       \* the agent's process runs
    stopping,      \* Disconnect was called
    exited,        \* an exit_code was emitted
    toBridge,      \* stdout
    turn,          \* the prompt the agent works on
    backlog,       \* prompts the agent keeps for later
    used,          \* frames the agent has made: each question, command and report once
    answered,      \* ghost: prompts whose answer was read
    abandoned,     \* ghost: prompts given up by the watchdog or by a later prompt
    spoiled        \* ghost: prompts in flight when the answer to another was read

acpAdapter == <<connected, latch, lastPrompt, tools, errors, exited>>
acpPerms   == <<awaiting, gated, known, command, waiter>>
acpSend    == <<sender, patient>>
acpClock   == <<quiet, watchdog>>
acpAgent   == <<setup, turn, backlog>>
acpPipes   == <<used, toBridge>>
acpGhosts  == <<answered, abandoned, spoiled>>
acpVars == <<acpAdapter, acpPerms, acpSend, acpClock, acpAgent, acpPipes, acpGhosts, process, stopping>>

Frame(kind, what) == [kind |-> kind, what |-> what]

\* sendJSONRPC: a written frame counts as activity; a closed pipe refuses it.
SendJSONRPC ==
    /\ quiet' = IF process THEN 0 ELSE quiet
    /\ patient' = IF process THEN {} ELSE patient

\* The agent's side of a prompt: one that finds a turn in progress is kept for
\* later or dropped.  The other frames owe it nothing.
AgentTakes(p) ==
    IF turn = NoPrompt /\ process THEN turn' = p /\ UNCHANGED backlog
    ELSE turn' = turn /\ backlog' \in {backlog} \cup {backlog \cup {q} : q \in (IF process THEN {p} ELSE {})}

AwaitingPermission == awaiting # {} \/ gated # {}

-----------------------------------------------------------------------------
(* A prompt.                                                                *)

Entered == IF latch THEN "waiting" ELSE "clear"

StartSend(p) ==
    /\ sender[p] = "none" /\ ~stopping /\ setup # "initializing"
    /\ sender' = [sender EXCEPT ![p] = IF ~connected THEN "failed"
                                       ELSE IF setup # "ready" THEN "early" ELSE Entered]
    /\ UNCHANGED <<acpAdapter, acpPerms, patient, acpClock, acpAgent, acpPipes, acpGhosts, process, stopping>>

\* A prompt before the agent's session is there: it waits thirty seconds.
SessionComes(p) ==
    /\ sender[p] = "early"
    /\ \/ setup = "ready" /\ sender' = [sender EXCEPT ![p] = Entered]
       \/ setup # "ready" /\ sender' = [sender EXCEPT ![p] = "failed"]
    /\ UNCHANGED <<acpAdapter, acpPerms, patient, acpClock, acpAgent, acpPipes, acpGhosts, process, stopping>>

\* Mutant: only the latch is looked at.
TurnEndedOnly(p) ==
    /\ sender[p] = "waiting" /\ ~latch
    /\ sender' = [sender EXCEPT ![p] = "clear"]
    /\ UNCHANGED <<acpAdapter, acpPerms, patient, acpClock, acpAgent, acpPipes, acpGhosts, process, stopping>>

\* waitForTurnEnd: the turn ended, or the adapter is gone.
TurnEnded(p) ==
    /\ sender[p] = "waiting" /\ (~latch \/ ~connected)
    /\ sender' = [sender EXCEPT ![p] = IF latch THEN "failed" ELSE "clear"]
    /\ UNCHANGED <<acpAdapter, acpPerms, patient, acpClock, acpAgent, acpPipes, acpGhosts, process, stopping>>

\* A turn silent for staleTurnWait, with no question open, is cancelled.
CancelStale(p) ==
    /\ sender[p] = "waiting" /\ latch /\ connected /\ p \in patient /\ ~AwaitingPermission
    /\ sender' = [sender EXCEPT ![p] = "grace"]
    /\ SendJSONRPC
    /\ UNCHANGED <<acpAdapter, acpPerms, watchdog, acpAgent, acpPipes, acpGhosts, process, stopping>>

\* staleTurnCancelGrace: the agent winds down, or the latch is cleared for it.
GraceEnds(p) ==
    /\ sender[p] = "grace"
    /\ sender' = [sender EXCEPT ![p] = "clear"]
    /\ latch' = FALSE
    /\ abandoned' = IF latch THEN abandoned \cup {lastPrompt} ELSE abandoned
    /\ UNCHANGED <<connected, lastPrompt, tools, errors, exited, acpPerms, patient, acpClock,
                   acpAgent, acpPipes, answered, spoiled, process, stopping>>

\* SendMessage(Content): latched before the frame is written.
SendPrompt(p) ==
    /\ sender[p] = "clear"
    /\ sender' = [sender EXCEPT ![p] = IF process THEN "sent" ELSE "failed"]
    /\ latch' = TRUE /\ lastPrompt' = p /\ tools' = FALSE
    /\ awaiting' = {}
    /\ SendJSONRPC /\ AgentTakes(p) /\ UNCHANGED setup
    /\ spoiled' = IF latch THEN spoiled \cup {lastPrompt, p} ELSE spoiled
    /\ UNCHANGED <<connected, errors, exited, gated, known, command, waiter, watchdog,
                   acpPipes, answered, abandoned, process, stopping>>

-----------------------------------------------------------------------------
(* Answers of the user.                                                     *)

\* SendMessage(Permission) for a question of the agent.
AnswerQuestion(q) ==
    /\ connected /\ q \in awaiting
    /\ awaiting' = awaiting \ {q}
    /\ SendJSONRPC
    /\ UNCHANGED <<acpAdapter, gated, known, command, waiter, sender, watchdog, acpAgent, acpPipes,
                   acpGhosts, process, stopping>>

Closed(t) == command[t] \in {"finished", "rejected"}

\* Mutant: a rejection that does not close doneChan.
ResolveTerminalQuietly(t, approved) ==
    /\ t \in gated
    /\ gated' = gated \ {t}
    /\ command' = [command EXCEPT ![t] = IF approved THEN "running" ELSE "forgotten"]
    /\ UNCHANGED <<acpAdapter, awaiting, known, waiter, acpSend, acpClock, acpAgent, acpPipes,
                   acpGhosts, process, stopping>>

\* resolvePendingTerminal, by the user or by the timer of the gate.
ResolveTerminal(t, approved) ==
    /\ t \in gated
    /\ gated' = gated \ {t}
    /\ command' = [command EXCEPT ![t] = IF approved THEN "running"
                                         ELSE IF t \in known THEN "rejected" ELSE "forgotten"]
    /\ UNCHANGED <<acpAdapter, awaiting, known, waiter, acpSend, acpClock, acpAgent, acpPipes,
                   acpGhosts, process, stopping>>

\* executeTerminalCommand: the result is kept if the terminal still is.
CommandEnds(t) ==
    /\ command[t] = "running"
    /\ command' = [command EXCEPT ![t] = IF t \in known THEN "finished" ELSE "forgotten"]
    /\ UNCHANGED <<acpAdapter, awaiting, gated, known, waiter, acpSend, acpClock, acpAgent, acpPipes,
                   acpGhosts, process, stopping>>

\* The terminal is forgotten thirty seconds after its command ended.
ForgetTerminal(t) ==
    /\ command[t] = "finished" /\ t \in known
    /\ known' = known \ {t}
    /\ UNCHANGED <<acpAdapter, awaiting, gated, command, waiter, acpSend, acpClock, acpAgent, acpPipes,
                   acpGhosts, process, stopping>>

\* doneChan is closed: the goroutine of wait_for_exit writes its answer.
WaiterAnswers(t) ==
    /\ waiter[t] = "waiting" /\ Closed(t)
    /\ waiter' = [waiter EXCEPT ![t] = "answered"]
    /\ SendJSONRPC
    /\ UNCHANGED <<acpAdapter, awaiting, gated, known, command, sender, watchdog, acpAgent, acpPipes,
                   acpGhosts, process, stopping>>

-----------------------------------------------------------------------------
(* The read loop.                                                           *)

InFlight == IF latch THEN {lastPrompt} \ {NoPrompt} ELSE {}

\* Mutant: any error frame ends the turn.
EndTurnOnError(p) == latch' = FALSE /\ lastPrompt' = NoPrompt

\* handleError: an error that answers the prompt in flight ends its turn.
ErrorEndsTurn(p) ==
    IF p = lastPrompt THEN latch' = FALSE /\ lastPrompt' = NoPrompt ELSE UNCHANGED <<latch, lastPrompt>>

HandleError(p) ==
    /\ ErrorEndsTurn(p)
    /\ errors' = errors + 1
    /\ connected' = (connected /\ errors + 1 < MaxErrors)
    /\ answered' = answered \cup {p}
    /\ UNCHANGED <<tools, exited, acpPerms, spoiled>>

\* handleResponse, handlePromptResult: the answer is matched by its id, but one
\* that carries a stopReason ends the turn whatever its id is.
HandlePromptResult(p) ==
    /\ latch' = FALSE /\ lastPrompt' = NoPrompt
    /\ errors' \in {0, errors}   \* a refusal does not reset the count
    /\ answered' = answered \cup {p}
    /\ spoiled' = spoiled \cup (InFlight \ {p})
    /\ UNCHANGED <<connected, tools, exited, acpPerms>>

\* trackTool
TrackTool(begun) ==
    /\ tools' = begun
    /\ UNCHANGED <<connected, latch, lastPrompt, errors, exited, acpPerms, answered, spoiled>>

\* processSessionUpdate: all updates count as activity and are passed on; those
\* of a tool are tracked besides.
SessionUpdate(f) == TrackTool(f.kind = "tool_begun")

HandlePermissionRequest(q) ==
    /\ awaiting' = awaiting \cup {q}
    /\ UNCHANGED <<acpAdapter, gated, known, command, waiter, answered, spoiled>>

\* gateTerminalOnPermission: the command waits for the user, or for its timer.
GateTerminal(t) == gated' = gated \cup {t} /\ command' = [command EXCEPT ![t] = "gated"]

\* handleTerminalCreate: gated on the user in every mode that does not approve.
HandleTerminalCreate(t) ==
    /\ known' = known \cup {t}
    /\ \/ GateTerminal(t)
       \/ gated' = gated /\ command' = [command EXCEPT ![t] = "running"]
    /\ UNCHANGED <<acpAdapter, awaiting, waiter, answered, spoiled>>

\* handleTerminalWaitForExit: a goroutine waits, or the terminal is unknown.
HandleTerminalWait(t) ==
    /\ waiter' = [waiter EXCEPT ![t] = IF t \in known THEN "waiting" ELSE "answered"]
    /\ UNCHANGED <<acpAdapter, awaiting, gated, known, command, answered, spoiled>>

HandleTerminalRelease(t) ==
    /\ known' = known \ {t}
    /\ UNCHANGED <<acpAdapter, awaiting, gated, command, waiter, answered, spoiled>>

Handle(f) ==
    CASE f.kind = "result"     -> HandlePromptResult(f.what)
      [] f.kind = "error"      -> HandleError(f.what)
      [] f.kind \in {"tool_begun", "tool_done"} -> SessionUpdate(f)
      [] f.kind = "ask"        -> HandlePermissionRequest(f.what)
      [] f.kind = "create"     -> HandleTerminalCreate(f.what)
      [] f.kind = "wait"       -> HandleTerminalWait(f.what)
      [] f.kind = "release"    -> HandleTerminalRelease(f.what)

ReadMessages ==
    /\ toBridge # <<>> /\ connected
    /\ Handle(Head(toBridge))
    /\ toBridge' = Tail(toBridge)
    /\ quiet' = 0 /\ patient' = {}
    /\ UNCHANGED <<sender, watchdog, used, acpAgent, abandoned, process, stopping>>

\* stdout is at its end, or the adapter gave up: an unexpected end is reported.
ReadEnds ==
    /\ ~exited /\ ~stopping /\ connected /\ ~process /\ toBridge = <<>>
    /\ connected' = FALSE /\ exited' = TRUE
    /\ UNCHANGED <<latch, lastPrompt, tools, errors, acpPerms, acpSend, acpClock, acpAgent, acpPipes,
                   acpGhosts, process, stopping>>

-----------------------------------------------------------------------------
(* Clocks.                                                                  *)

Tick ==
    /\ quiet < 3 /\ connected /\ toBridge = <<>>
    /\ quiet' = quiet + 1
    /\ patient' = IF AwaitingPermission THEN patient
                  ELSE patient \cup {p \in Prompt : sender[p] = "waiting"}
    /\ UNCHANGED <<acpAdapter, acpPerms, sender, watchdog, acpAgent, acpPipes, acpGhosts, process, stopping>>

\* turnWatchdog: its checks, then fireTurnWatchdog.
WatchdogChecks ==
    /\ watchdog = "idle" /\ connected /\ latch /\ ~AwaitingPermission
    /\ quiet >= (IF tools THEN 3 ELSE 2)
    /\ watchdog' = "firing"
    /\ UNCHANGED <<acpAdapter, acpPerms, acpSend, quiet, acpAgent, acpPipes, acpGhosts, process, stopping>>

FireTurnWatchdog ==
    /\ watchdog = "firing"
    /\ watchdog' = "idle"
    /\ latch' = FALSE /\ lastPrompt' = NoPrompt /\ tools' = FALSE
    /\ abandoned' = abandoned \cup InFlight
    /\ SendJSONRPC
    /\ UNCHANGED <<connected, errors, exited, acpPerms, sender, acpAgent, acpPipes, answered, spoiled,
                   process, stopping>>

\* disconnectLocked: nothing is done to an agent that is not connected any more.
DisconnectLocked ==
    /\ stopping' = TRUE
    /\ IF connected
         THEN /\ connected' = FALSE /\ process' = FALSE
              /\ awaiting' = {} /\ gated' = {}
         ELSE UNCHANGED <<connected, process, awaiting, gated>>
    /\ UNCHANGED <<latch, lastPrompt, tools, errors, exited, known, command, waiter, acpSend, acpClock,
                   turn, backlog, acpPipes, acpGhosts>>

\* Disconnect, once Connect has let go of the lock.
Disconnect == ~stopping /\ setup # "initializing" /\ DisconnectLocked /\ UNCHANGED setup

-----------------------------------------------------------------------------
(* Connect: initialize, session/new, and the mode the user asked for.       *)

SetupMoves(from, to) ==
    /\ setup = from /\ setup' = to
    /\ UNCHANGED <<acpAdapter, acpPerms, patient, sender, watchdog, turn, backlog, acpPipes, acpGhosts, process, stopping>>

\* The answer to initialize; session/new is sent.
InitializeAnswered == process /\ connected /\ quiet' = 0 /\ SetupMoves("initializing", "creating")

\* No answer: Connect fails and tears the adapter down.
InitializeFails == setup = "initializing" /\ setup' = "unusable" /\ DisconnectLocked

\* The answer to session/new: in another mode than the user's it is not exposed.
SessionCreated ==
    /\ process /\ connected /\ quiet' = 0
    /\ SetupMoves("creating", "ready") \/ SetupMoves("creating", "setting mode")

\* applyInitialMode: exposed once the mode is in force, never if it cannot be.
InitialModeApplied == process /\ connected /\ quiet' = 0 /\ SetupMoves("setting mode", "ready")
InitialModeFails == UNCHANGED quiet /\ SetupMoves("setting mode", "unusable")

-----------------------------------------------------------------------------
(* The agent.                                                               *)

AgentWrites(f) == process /\ Len(toBridge) < MaxPipe /\ toBridge' = Append(toBridge, f)

AgentEndsTurn(kind) ==
    /\ turn # NoPrompt /\ AgentWrites(Frame(kind, turn))
    /\ \E p \in (IF backlog = {} THEN {NoPrompt} ELSE backlog) : turn' = p /\ backlog' = backlog \ {p}
    /\ UNCHANGED <<setup, acpAdapter, acpPerms, acpSend, acpClock, used, acpGhosts, process, stopping>>

AgentFrames ==
    {Frame(k, NoPrompt) : k \in {"tool_begun", "tool_done"}} \cup {Frame("ask", q) : q \in Question}
        \cup {Frame(k, t) : k \in {"create", "wait", "release"}, t \in Terminal}

\* What the agent sends in its turn: a command is created before it is waited
\* for or released, and nobody waits for one that was released.
AgentSends(f) ==
    /\ turn # NoPrompt /\ f \notin used /\ Cardinality(used) < MaxFrames
    /\ f.kind = "tool_done" => Frame("tool_begun", NoPrompt) \in used
    /\ f.kind \in {"wait", "release"} => Frame("create", f.what) \in used
    /\ f.kind = "wait" => Frame("release", f.what) \notin used
    /\ AgentWrites(f)
    /\ used' = used \cup {f}
    /\ UNCHANGED <<acpAdapter, acpPerms, acpSend, acpClock, acpAgent, acpGhosts, process, stopping>>

\* monitorProcess waits for the process, which closes stdout under the read
\* loop: what it has not read yet may be lost.
AgentDies ==
    /\ process
    /\ process' = FALSE
    /\ toBridge' \in {toBridge, <<>>}
    /\ UNCHANGED <<acpAdapter, acpPerms, acpSend, acpClock, acpAgent, used, acpGhosts, stopping>>

-----------------------------------------------------------------------------

AcpInit ==
    /\ setup = "initializing" /\ connected = TRUE /\ latch = FALSE /\ lastPrompt = NoPrompt /\ tools = FALSE
    /\ errors = 0 /\ exited = FALSE
    /\ awaiting = {} /\ gated = {} /\ known = {}
    /\ command = [t \in Terminal |-> "none"] /\ waiter = [t \in Terminal |-> "none"]
    /\ sender = [p \in Prompt |-> "none"] /\ patient = {}
    /\ quiet = 0 /\ watchdog = "idle"
    /\ turn = NoPrompt /\ backlog = {} /\ used = {}
    /\ toBridge = <<>>
    /\ answered = {} /\ abandoned = {} /\ spoiled = {}
    /\ process = TRUE /\ stopping = FALSE

SendStep(p) == StartSend(p) \/ SessionComes(p) \/ TurnEnded(p) \/ CancelStale(p) \/ GraceEnds(p) \/ SendPrompt(p)

UserStep ==
    \/ \E q \in Question : AnswerQuestion(q)
    \/ \E t \in Terminal, approved \in BOOLEAN : ResolveTerminal(t, approved)

CommandStep(t) == CommandEnds(t) \/ ForgetTerminal(t) \/ WaiterAnswers(t)

AgentStep ==
    \/ AgentEndsTurn("result") \/ AgentEndsTurn("error") \/ AgentDies
    \/ \E f \in AgentFrames : AgentSends(f)

SetupStep == InitializeAnswered \/ InitializeFails \/ SessionCreated \/ InitialModeApplied \/ InitialModeFails

AcpNext ==
    \/ SetupStep
    \/ \E p \in Prompt : SendStep(p)
    \/ UserStep \/ AgentStep
    \/ \E t \in Terminal : CommandStep(t)
    \/ ReadMessages \/ ReadEnds \/ Tick \/ WatchdogChecks \/ FireTurnWatchdog \/ Disconnect

AcpSpec == AcpInit /\ [][AcpNext]_acpVars

\* The goroutines run, time passes and the gate of a command times out; the
\* agent, the user and the commands owe nothing.
AcpFairness ==
    /\ \A p \in Prompt : WF_acpVars(SessionComes(p) \/ TurnEnded(p) \/ CancelStale(p) \/ GraceEnds(p) \/ SendPrompt(p))
    /\ \A t \in Terminal : WF_acpVars(ResolveTerminal(t, FALSE))
    /\ WF_acpVars(ReadMessages) /\ WF_acpVars(ReadEnds) /\ WF_acpVars(Tick)
    /\ WF_acpVars(WatchdogChecks) /\ WF_acpVars(FireTurnWatchdog)

FairAcp == AcpSpec /\ AcpFairness

-----------------------------------------------------------------------------
(* Properties.                                                              *)

AcpTypeOK ==
    /\ {connected, latch, tools, exited, process, stopping} \subseteq BOOLEAN
    /\ setup \in {"initializing", "creating", "setting mode", "ready", "unusable"}
    /\ lastPrompt \in Prompt \cup {NoPrompt} /\ turn \in Prompt \cup {NoPrompt}
    /\ awaiting \subseteq Question /\ gated \subseteq Terminal /\ known \subseteq Terminal
    /\ command \in [Terminal -> {"none", "gated", "running", "finished", "rejected", "forgotten"}]
    /\ waiter \in [Terminal -> {"none", "waiting", "answered"}]
    /\ sender \in [Prompt -> {"none", "early", "waiting", "grace", "clear", "sent", "failed"}]
    /\ patient \subseteq Prompt /\ quiet \in 0..3 /\ watchdog \in {"idle", "firing"}
    /\ errors \in Nat /\ backlog \subseteq Prompt /\ used \subseteq AgentFrames
    /\ answered \subseteq Prompt /\ abandoned \subseteq Prompt /\ spoiled \subseteq Prompt
    /\ \A t \in gated : command[t] = "gated"

\* isProcessing says whether a turn is open: it is never latched for a prompt
\* that was answered, which would hold up every later prompt, and never open
\* while the agent owes an answer to a prompt nobody gave up.  Excused: two
\* prompts that passed waitForTurnEnd together, and the late answer to a prompt
\* given up, which ends whatever turn it meets (acp.go 1808-1817).
TurnLatch ==
    connected =>
        /\ latch => lastPrompt \notin answered
        /\ ~latch => \A p \in Prompt :
                       sender[p] = "sent" => p \in answered \cup abandoned \cup spoiled

\* The agent is not left waiting for a command: as long as one of its
\* wait_for_exit is open, the command is gated, runs or has its result, unless
\* the agent released it or the adapter is torn down.
NoDeafWaiter ==
    \A t \in Terminal :
        waiter[t] = "waiting" =>
            \/ Closed(t) \/ t \in gated \/ (command[t] = "running" /\ t \in known)
            \/ Frame("release", t) \in used \/ stopping

\* A prompt that waits, for the agent's session or for the turn before it, goes
\* through or is refused, however silent the agent is, unless a question to the
\* user is open.
PromptGoesThrough ==
    \A p \in Prompt :
        sender[p] \in {"early", "waiting"} ~> sender[p] \in {"sent", "failed"} \/ awaiting # {}

=============================================================================
