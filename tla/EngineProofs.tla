----------------------------- MODULE EngineProofs -----------------------------
(***************************************************************************)
(* Proofs about an engine, the session it speaks through and the end of a   *)
(* task session.                                                           *)
(*                                                                         *)
(* The ACP adapter (AcpEngine): its latch says whether a turn is open, and  *)
(* the agent is not left waiting for a command.  For every number of        *)
(* prompts, questions, commands, frames and errors.                         *)
(*                                                                         *)
(* The bridge's side of a session (BridgeSessions): what the engine says    *)
(* arrives whole and in order, and its questions stay before the user.  For *)
(* every number of sessions, ids and frames and every size of the channel.  *)
(*                                                                         *)
(* The turn of a task session, with the questions and watchdogs that can    *)
(* end it (TaskTurn), and the report of it (Callbacks).  For every number   *)
(* of attempts and questions, every set of reports and tasks and every      *)
(* number of retries.                                                       *)
(***************************************************************************)
EXTENDS MCBridge, SequenceTheorems, TLAPS

Setup == {"initializing", "creating", "setting mode", "ready", "unusable"}
CommandState == {"none", "gated", "running", "finished", "rejected", "forgotten"}
SenderState == {"none", "early", "waiting", "grace", "clear", "sent", "failed"}
TurnFrames == {Frame(k, p) : k \in {"result", "error"}, p \in Prompt}
PipeFrames == TurnFrames \cup AgentFrames

\* The prompts and the latch.
LatchTypes ==
    /\ setup \in Setup /\ lastPrompt \in Prompt \cup {NoPrompt} /\ turn \in Prompt \cup {NoPrompt}
    /\ sender \in [Prompt -> SenderState] /\ patient \subseteq Prompt /\ quiet \in 0..3
    /\ watchdog \in {"idle", "firing"} /\ errors \in Nat /\ backlog \subseteq Prompt
    /\ answered \subseteq Prompt /\ abandoned \subseteq Prompt /\ spoiled \subseteq Prompt

\* The questions, the commands and the frames about them.
PermTypes ==
    /\ awaiting \subseteq Question /\ gated \subseteq Terminal /\ known \subseteq Terminal
    /\ command \in [Terminal -> CommandState] /\ waiter \in [Terminal -> {"none", "waiting", "answered"}]
    /\ used \subseteq AgentFrames /\ toBridge \in Seq(PipeFrames)

Flags == {connected, latch, tools, exited, process, stopping} \subseteq BOOLEAN

InPipe == {toBridge[i] : i \in 1..Len(toBridge)}

\* What the agent works on, keeps, answers or has answered was sent to it.
SentOnly ==
    /\ turn # NoPrompt => sender[turn] = "sent"
    /\ \A p \in backlog \cup answered : sender[p] = "sent"
    /\ \A f \in InPipe : f \in TurnFrames => sender[f.what] = "sent"

\* The latch is that of a prompt without an answer; a prompt that was sent and
\* is not the latched one was answered, given up or spoiled.
LatchInv ==
    /\ latch => lastPrompt \in Prompt /\ lastPrompt \notin answered
    /\ \A p \in Prompt : sender[p] = "sent" =>
         p \in answered \cup abandoned \cup spoiled \/ (latch /\ lastPrompt = p)

\* A frame of the agent is made and read once; nothing is known of a command
\* that has not been asked for.
Once == \A i, j \in 1..Len(toBridge) : toBridge[i] \in AgentFrames /\ toBridge[i] = toBridge[j] => i = j
FrameInv ==
    /\ \A f \in InPipe : f \in AgentFrames => f \in used
    /\ \A t \in Terminal : command[t] # "none" => Frame("create", t) \in used /\ Frame("create", t) \notin InPipe
    /\ \A t \in Terminal : command[t] = "none" => t \notin known /\ t \notin gated

\* A command the adapter knows is gated, runs or has its result; what waits
\* waits for one, or for one that was released.
TerminalInv ==
    /\ \A t \in gated : command[t] = "gated"
    /\ \A t \in known : t \in gated \/ command[t] = "running" \/ Closed(t) \/ stopping
    /\ \A t \in Terminal : waiter[t] = "waiting" =>
         t \in known \/ Frame("release", t) \in used \/ stopping \/ command[t] = "finished"

EngineInv == Flags /\ LatchTypes /\ PermTypes /\ SentOnly /\ LatchInv /\ Once /\ FrameInv /\ TerminalInv

-----------------------------------------------------------------------------
(* Frames and pipes.                                                        *)

\* Answers and the frames of the agent's own are told apart by their kind.
LEMMA FrameFacts ==
    /\ \A f \in TurnFrames : f.kind \in {"result", "error"} /\ f.what \in Prompt /\ f \notin AgentFrames
    /\ \A f \in AgentFrames : /\ f.kind \in {"tool_begun", "tool_done", "ask", "create", "wait", "release"}
                              /\ f.kind = "ask" => f.what \in Question
                              /\ f.kind \in {"create", "wait", "release"} => f.what \in Terminal /\ f = Frame(f.kind, f.what)
    /\ \A t, u : Frame("create", t) = Frame("create", u) => t = u
    /\ \A t : Frame("create", t) # Frame("wait", t)
    /\ \A t \in Terminal : Frame("create", t) \in AgentFrames
<1>1. \A f \in TurnFrames : f.kind \in {"result", "error"} /\ f.what \in Prompt
    BY DEF TurnFrames, Frame
<1>2. \A f \in AgentFrames : /\ f.kind \in {"tool_begun", "tool_done", "ask", "create", "wait", "release"}
                             /\ f.kind = "ask" => f.what \in Question
                             /\ f.kind \in {"create", "wait", "release"} => f.what \in Terminal /\ f = Frame(f.kind, f.what)
    BY DEF AgentFrames, Frame
<1>3. \A t, u : Frame("create", t) = Frame("create", u) => t = u
    BY DEF Frame
<1>4. \A t : Frame("create", t) # Frame("wait", t)
    BY DEF Frame
<1>5. \A t \in Terminal : Frame("create", t) \in AgentFrames
    BY DEF AgentFrames
<1>6. \A f \in TurnFrames : f \notin AgentFrames
    BY <1>1, <1>2
<1> QED BY <1>1, <1>2, <1>3, <1>4, <1>5, <1>6

\* A pipe that is written to.
LEMMA PipeAppend ==
    ASSUME NEW f \in PipeFrames, toBridge \in Seq(PipeFrames), toBridge' = Append(toBridge, f), Once, f \in AgentFrames => f \notin InPipe
    PROVE  toBridge' \in Seq(PipeFrames) /\ InPipe' = InPipe \cup {f} /\ Once'
<1>1. /\ toBridge' \in Seq(PipeFrames) /\ Len(toBridge') = Len(toBridge) + 1 /\ Len(toBridge) \in Nat
      /\ toBridge'[Len(toBridge) + 1] = f /\ \A i \in 1..Len(toBridge) : toBridge'[i] = toBridge[i]
    OBVIOUS
<1>2. InPipe' = InPipe \cup {f}
    BY <1>1 DEF InPipe
<1>3. Once'
    BY <1>1 DEF Once, InPipe
<1> QED BY <1>1, <1>2, <1>3

\* A pipe that is read.
LEMMA PipeRead ==
    ASSUME toBridge \in Seq(PipeFrames), toBridge # <<>>, toBridge' = Tail(toBridge), Once
    PROVE  /\ toBridge' \in Seq(PipeFrames) /\ InPipe' \subseteq InPipe /\ Head(toBridge) \in InPipe /\ Head(toBridge) \in PipeFrames
           /\ Once' /\ (Head(toBridge) \in AgentFrames => Head(toBridge) \notin InPipe')
<1>1. /\ toBridge' \in Seq(PipeFrames) /\ Len(toBridge) \in Nat \ {0} /\ Len(toBridge') = Len(toBridge) - 1
      /\ Head(toBridge) = toBridge[1] /\ Head(toBridge) \in PipeFrames
      /\ \A i \in 1..Len(toBridge') : toBridge'[i] = toBridge[i + 1]
    OBVIOUS
<1>2. InPipe' \subseteq InPipe /\ Head(toBridge) \in InPipe
    BY <1>1 DEF InPipe
<1>3. Once'
    BY <1>1 DEF Once
<1>4. Head(toBridge) \in AgentFrames => Head(toBridge) \notin InPipe'
    BY <1>1 DEF Once, InPipe
<1> QED BY <1>1, <1>2, <1>3, <1>4

\* A pipe that is cut off.
LEMMA PipeLost ==
    ASSUME toBridge' \in {toBridge, <<>>}, toBridge \in Seq(PipeFrames), Once
    PROVE  toBridge' \in Seq(PipeFrames) /\ InPipe' \subseteq InPipe /\ Once'
<1>1. CASE toBridge' = toBridge
    BY <1>1 DEF Once, InPipe
<1>2. CASE toBridge' = <<>>
    BY <1>2 DEF Once, InPipe
<1> QED BY <1>1, <1>2

LEMMA EngineInitHolds == AcpInit => EngineInv
<1> SUFFICES ASSUME AcpInit PROVE EngineInv
    OBVIOUS
<1>1. toBridge = <<>> /\ toBridge \in Seq(PipeFrames) /\ InPipe = {} /\ Once
    BY DEF AcpInit, InPipe, Once
<1>2. Flags
    BY DEF AcpInit, Flags
<1>3. LatchTypes
    BY DEF AcpInit, LatchTypes, Setup, SenderState
<1>4. PermTypes
    BY <1>1 DEF AcpInit, PermTypes, CommandState
<1>5. SentOnly /\ LatchInv /\ FrameInv /\ TerminalInv
    BY <1>1 DEF AcpInit, SentOnly, LatchInv, FrameInv, TerminalInv
<1> QED BY <1>1, <1>2, <1>3, <1>4, <1>5 DEF EngineInv

-----------------------------------------------------------------------------
(* What a step leaves alone stays so.                                       *)

LEMMA SentFrame ==
    ASSUME EngineInv, UNCHANGED <<turn, backlog, answered>>, InPipe' \subseteq InPipe,
           \A p \in Prompt : sender[p] = "sent" => sender'[p] = "sent"
    PROVE  SentOnly'
BY FrameFacts DEF EngineInv, SentOnly, LatchTypes

LEMMA LatchFrame ==
    ASSUME EngineInv, UNCHANGED <<latch, lastPrompt, answered, abandoned, spoiled>>,
           \A p \in Prompt : sender'[p] = "sent" => sender[p] = "sent"
    PROVE  LatchInv'
BY DEF EngineInv, LatchInv

LEMMA FrameFrame ==
    ASSUME EngineInv, UNCHANGED <<used, command, known, gated>>, InPipe' \subseteq InPipe
    PROVE  FrameInv'
BY DEF EngineInv, FrameInv

LEMMA TerminalFrame ==
    ASSUME EngineInv, UNCHANGED <<command, known, gated, waiter>>, used \subseteq used', stopping' = stopping
    PROVE  TerminalInv'
BY DEF EngineInv, TerminalInv, Closed

LEMMA PipeFrame ==
    ASSUME EngineInv, UNCHANGED toBridge
    PROVE  toBridge' \in Seq(PipeFrames) /\ InPipe' = InPipe /\ Once'
BY DEF EngineInv, PermTypes, Once, InPipe

-----------------------------------------------------------------------------
(* Prompts.                                                                 *)

\* A write resets the clock.
LEMMA SendFacts == ASSUME LatchTypes, SendJSONRPC PROVE quiet' \in 0..3 /\ patient' \subseteq Prompt
BY DEF LatchTypes, SendJSONRPC

\* A prompt that is on its way, and not sent yet, moves on.
LEMMA SenderMoves ==
    ASSUME EngineInv, NEW p \in Prompt, NEW x \in SenderState \ {"sent"}, sender[p] # "sent",
           sender' = [sender EXCEPT ![p] = x], quiet' \in 0..3, patient' \subseteq Prompt, UNCHANGED watchdog,
           UNCHANGED <<acpAdapter, acpPerms, acpAgent, acpPipes, acpGhosts, process, stopping>>
    PROVE  EngineInv'
<1> USE DEF acpAdapter, acpPerms, acpAgent, acpPipes, acpGhosts
<1>1. sender' \in [Prompt -> SenderState] /\ \A q \in Prompt : sender'[q] = "sent" <=> sender[q] = "sent"
    BY DEF EngineInv, LatchTypes
<1>2. Flags'
    BY DEF EngineInv, Flags
<1>3. LatchTypes'
    BY <1>1 DEF EngineInv, LatchTypes
<1>4. PermTypes' /\ Once' /\ InPipe' = InPipe
    BY PipeFrame DEF EngineInv, PermTypes
<1>5. SentOnly' /\ LatchInv' /\ FrameInv' /\ TerminalInv'
    BY <1>1, <1>4, SentFrame, LatchFrame, FrameFrame, TerminalFrame
<1> QED BY <1>2, <1>3, <1>4, <1>5 DEF EngineInv

LEMMA WaitHolds ==
    ASSUME EngineInv, NEW p \in Prompt, StartSend(p) \/ SessionComes(p) \/ TurnEnded(p) \/ CancelStale(p)
    PROVE  EngineInv'
<1>1. quiet \in 0..3 /\ patient \subseteq Prompt /\ LatchTypes
    BY DEF EngineInv, LatchTypes
<1>2. CASE CancelStale(p)
    BY <1>1, <1>2, SendFacts, SenderMoves DEF CancelStale, SenderState
<1>3. CASE StartSend(p)
  <2>1. PICK x \in SenderState \ {"sent"} : sender' = [sender EXCEPT ![p] = x]
    BY <1>3 DEF StartSend, Entered, SenderState
  <2> QED BY <1>1, <1>3, <2>1, SenderMoves DEF StartSend, acpSend, acpClock
<1>4. CASE SessionComes(p)
  <2>1. PICK x \in SenderState \ {"sent"} : sender' = [sender EXCEPT ![p] = x]
    BY <1>4 DEF SessionComes, Entered, SenderState
  <2> QED BY <1>1, <1>4, <2>1, SenderMoves DEF SessionComes, acpClock
<1>5. CASE TurnEnded(p)
  <2>1. PICK x \in SenderState \ {"sent"} : sender' = [sender EXCEPT ![p] = x]
    BY <1>5 DEF TurnEnded, SenderState
  <2> QED BY <1>1, <1>5, <2>1, SenderMoves DEF TurnEnded, acpClock
<1> QED BY <1>2, <1>3, <1>4, <1>5

\* The patience of a later prompt gives the latched one up.
LEMMA GraceHolds == ASSUME EngineInv, NEW p \in Prompt, GraceEnds(p) PROVE EngineInv'
<1>1. sender' = [sender EXCEPT ![p] = "clear"] /\ sender[p] = "grace" /\ latch' = FALSE
      /\ abandoned' = (IF latch THEN abandoned \cup {lastPrompt} ELSE abandoned)
      /\ UNCHANGED <<connected, lastPrompt, tools, errors, exited, acpPerms, patient, acpClock,
                     acpAgent, acpPipes, answered, spoiled, process, stopping>>
    BY DEF GraceEnds
<1> USE DEF acpPerms, acpClock, acpAgent, acpPipes
<1>2. sender' \in [Prompt -> SenderState] /\ \A q \in Prompt : sender'[q] = "sent" <=> sender[q] = "sent"
    BY <1>1 DEF EngineInv, LatchTypes, SenderState
<1>3. Flags'
    BY <1>1 DEF EngineInv, Flags
<1>4. LatchTypes'
    BY <1>1, <1>2 DEF EngineInv, LatchTypes, LatchInv
<1>5. PermTypes' /\ Once' /\ InPipe' = InPipe
    BY <1>1, PipeFrame DEF EngineInv, PermTypes
<1>6. LatchInv'
    BY <1>1, <1>2 DEF EngineInv, LatchInv
<1>7. SentOnly' /\ FrameInv' /\ TerminalInv'
    BY <1>1, <1>2, <1>5, SentFrame, FrameFrame, TerminalFrame
<1> QED BY <1>3, <1>4, <1>5, <1>6, <1>7 DEF EngineInv

\* A prompt takes the latch; the one that had it is spoiled.
LEMMA SendPromptHolds == ASSUME EngineInv, NEW p \in Prompt, SendPrompt(p) PROVE EngineInv'
<1>1. /\ sender' = [sender EXCEPT ![p] = IF process THEN "sent" ELSE "failed"] /\ sender[p] = "clear"
      /\ latch' = TRUE /\ lastPrompt' = p /\ tools' = FALSE /\ awaiting' = {} /\ setup' = setup
      /\ spoiled' = (IF latch THEN spoiled \cup {lastPrompt, p} ELSE spoiled)
      /\ UNCHANGED <<connected, errors, exited, gated, known, command, waiter, watchdog,
                     used, toBridge, answered, abandoned, process, stopping>>
    BY DEF SendPrompt, acpPipes
<1>2. /\ sender' \in [Prompt -> SenderState] /\ sender'[p] = (IF process THEN "sent" ELSE "failed")
      /\ \A q \in Prompt \ {p} : sender'[q] = sender[q]
    BY <1>1 DEF EngineInv, LatchTypes, SenderState
<1>3. /\ turn' \in {turn} \cup (IF process THEN {p} ELSE {})
      /\ backlog' \subseteq backlog \cup (IF process THEN {p} ELSE {})
    BY DEF SendPrompt, AgentTakes
<1>4. Flags'
    BY <1>1 DEF EngineInv, Flags
<1>5. quiet' \in 0..3 /\ patient' \subseteq Prompt
    BY SendFacts DEF SendPrompt, EngineInv
<1>6. LatchTypes'
    BY <1>1, <1>2, <1>3, <1>5 DEF EngineInv, LatchTypes, LatchInv
<1>7. PermTypes' /\ Once' /\ InPipe' = InPipe
    BY <1>1, PipeFrame DEF EngineInv, PermTypes
<1>8. SentOnly'
    BY <1>1, <1>2, <1>3, <1>7, FrameFacts DEF EngineInv, SentOnly, LatchTypes
<1>9. p \notin answered
    BY <1>1 DEF EngineInv, SentOnly
<1>10. LatchInv'
    BY <1>1, <1>2, <1>9 DEF EngineInv, LatchInv
<1>11. FrameInv' /\ TerminalInv'
    BY <1>1, <1>7, FrameFrame, TerminalFrame
<1> QED BY <1>4, <1>6, <1>7, <1>8, <1>10, <1>11 DEF EngineInv

-----------------------------------------------------------------------------
(* Commands.                                                                *)

\* A command, its waiter or a question moves, by the user or by itself.
LEMMA PermsMove ==
    ASSUME EngineInv, PermTypes', FrameInv', TerminalInv', LatchTypes', UNCHANGED toBridge,
           UNCHANGED <<acpAdapter, sender, acpAgent, acpGhosts, process, stopping>>
    PROVE  EngineInv'
<1> USE DEF acpAdapter, acpAgent, acpGhosts
<1>1. Flags'
    BY DEF EngineInv, Flags
<1>2. Once' /\ InPipe' = InPipe
    BY PipeFrame
<1>3. SentOnly' /\ LatchInv'
    BY <1>2, SentFrame, LatchFrame
<1> QED BY <1>1, <1>2, <1>3 DEF EngineInv

LEMMA CommandHolds ==
    ASSUME EngineInv, NEW t \in Terminal, CommandStep(t) \/ \E approved \in BOOLEAN : ResolveTerminal(t, approved)
    PROVE  EngineInv'
<1>0. /\ UNCHANGED <<acpAdapter, awaiting, used, toBridge, sender, acpAgent, acpGhosts, process, stopping, watchdog>>
      /\ command \in [Terminal -> CommandState] /\ waiter \in [Terminal -> {"none", "waiting", "answered"}] /\ LatchTypes
    BY DEF CommandStep, CommandEnds, ForgetTerminal, WaiterAnswers, ResolveTerminal, acpSend, acpClock, acpPipes, EngineInv, PermTypes
<1>1. quiet' \in 0..3 /\ patient' \subseteq Prompt
    BY <1>0, SendFacts DEF CommandStep, CommandEnds, ForgetTerminal, WaiterAnswers, ResolveTerminal, acpSend, acpClock, LatchTypes
<1>2. LatchTypes'
    BY <1>0, <1>1 DEF LatchTypes, acpAdapter, acpAgent, acpGhosts
<1>3. InPipe' = InPipe
    BY <1>0, PipeFrame
<1>4. CASE CommandEnds(t)
  <2>1. PICK x \in {"finished", "forgotten"} :
          command' = [command EXCEPT ![t] = x] /\ (t \in known => x = "finished") /\ (x = "forgotten" => t \notin known)
          /\ command[t] = "running" /\ UNCHANGED <<gated, known, waiter>>
    BY <1>4 DEF CommandEnds
  <2>2. command' \in [Terminal -> CommandState] /\ command'[t] = x /\ \A u \in Terminal \ {t} : command'[u] = command[u]
    BY <1>0, <2>1 DEF CommandState
  <2>3. PermTypes'
    BY <1>0, <2>1, <2>2 DEF EngineInv, PermTypes
  <2>4. FrameInv'
    BY <1>0, <1>3, <2>1, <2>2 DEF EngineInv, FrameInv
  <2>5. TerminalInv'
    BY <1>0, <2>1, <2>2 DEF EngineInv, TerminalInv, Closed, PermTypes
  <2> QED BY <1>0, <1>2, <2>3, <2>4, <2>5, PermsMove
<1>5. CASE ForgetTerminal(t)
  <2>1. known' = known \ {t} /\ command[t] = "finished" /\ UNCHANGED <<gated, command, waiter>>
    BY <1>5 DEF ForgetTerminal
  <2>2. PermTypes'
    BY <1>0, <2>1 DEF EngineInv, PermTypes
  <2>3. FrameInv'
    BY <1>0, <1>3, <2>1 DEF EngineInv, FrameInv
  <2>4. TerminalInv'
    BY <1>0, <2>1 DEF EngineInv, TerminalInv, Closed
  <2> QED BY <1>0, <1>2, <2>2, <2>3, <2>4, PermsMove
<1>6. CASE WaiterAnswers(t)
  <2>1. waiter' = [waiter EXCEPT ![t] = "answered"] /\ UNCHANGED <<gated, command, known>>
    BY <1>6 DEF WaiterAnswers
  <2>2. PermTypes'
    BY <1>0, <2>1 DEF EngineInv, PermTypes
  <2>3. FrameInv'
    BY <1>0, <1>3, <2>1 DEF EngineInv, FrameInv
  <2>4. TerminalInv'
    BY <1>0, <2>1 DEF EngineInv, TerminalInv, Closed
  <2> QED BY <1>0, <1>2, <2>2, <2>3, <2>4, PermsMove
<1>7. ASSUME NEW approved \in BOOLEAN, ResolveTerminal(t, approved) PROVE EngineInv'
  <2>1. PICK x \in {"running", "rejected", "forgotten"} :
          command' = [command EXCEPT ![t] = x] /\ (x = "forgotten" => t \notin known) /\ t \in gated
          /\ gated' = gated \ {t} /\ UNCHANGED <<known, waiter>>
    BY <1>7 DEF ResolveTerminal
  <2>2. command' \in [Terminal -> CommandState] /\ command'[t] = x /\ \A u \in Terminal \ {t} : command'[u] = command[u]
    BY <1>0, <2>1 DEF CommandState
  <2>3. PermTypes'
    BY <1>0, <2>1, <2>2 DEF EngineInv, PermTypes
  <2>4. command[t] = "gated"
    BY <2>1 DEF EngineInv, TerminalInv
  <2>5. FrameInv'
    BY <1>0, <1>3, <2>1, <2>2, <2>4 DEF EngineInv, FrameInv
  <2>6. TerminalInv'
    BY <1>0, <2>1, <2>2, <2>4 DEF EngineInv, TerminalInv, Closed, PermTypes
  <2> QED BY <1>0, <1>2, <2>3, <2>5, <2>6, PermsMove
<1> QED BY <1>4, <1>5, <1>6, <1>7 DEF CommandStep

\* An answer to a question.
LEMMA AnswerHolds == ASSUME EngineInv, NEW q \in Question, AnswerQuestion(q) PROVE EngineInv'
<1>1. /\ awaiting' = awaiting \ {q} /\ UNCHANGED <<gated, known, command, waiter, watchdog, used, toBridge>>
      /\ UNCHANGED <<acpAdapter, sender, acpAgent, acpGhosts, process, stopping>>
    BY DEF AnswerQuestion, acpPipes
<1>2. quiet' \in 0..3 /\ patient' \subseteq Prompt
    BY SendFacts DEF AnswerQuestion, EngineInv
<1>3. LatchTypes'
    BY <1>1, <1>2 DEF EngineInv, LatchTypes, acpAdapter, acpAgent, acpGhosts
<1>4. PermTypes' /\ FrameInv' /\ TerminalInv'
    BY <1>1, PipeFrame, FrameFrame, TerminalFrame DEF EngineInv, PermTypes
<1> QED BY <1>1, <1>3, <1>4, PermsMove

-----------------------------------------------------------------------------
(* The read loop.                                                           *)

\* A frame leaves the pipe: what was read is in nobody's way any more.
LEMMA ReadHolds == ASSUME EngineInv, ReadMessages PROVE EngineInv'
<1> DEFINE f == Head(toBridge)
<1>1. /\ toBridge # <<>> /\ toBridge' = Tail(toBridge) /\ Handle(f) /\ quiet' = 0 /\ patient' = {}
      /\ UNCHANGED <<sender, watchdog, used, acpAgent, abandoned, process, stopping>>
    BY DEF ReadMessages
<1>2. /\ toBridge' \in Seq(PipeFrames) /\ InPipe' \subseteq InPipe /\ f \in InPipe /\ f \in PipeFrames /\ Once'
      /\ (f \in AgentFrames => f \notin InPipe')
    BY <1>1, PipeRead DEF EngineInv, PermTypes
<1> HIDE DEF f
<1>3. ASSUME Flags', PermTypes', LatchTypes', answered' = answered, LatchInv', FrameInv', TerminalInv' PROVE EngineInv'
  <2>1. SentOnly'
    BY <1>1, <1>2, <1>3, SentFrame DEF acpAgent
  <2> QED BY <1>2, <1>3, <2>1 DEF EngineInv
<1>4. ASSUME NEW p \in Prompt, f = Frame("result", p) \/ f = Frame("error", p), UNCHANGED <<acpPerms, tools, exited>>,
             connected' \in BOOLEAN, latch' \in BOOLEAN, errors' \in Nat, spoiled \subseteq spoiled', spoiled' \subseteq Prompt,
             answered' = answered \cup {p}, lastPrompt' \in {lastPrompt, NoPrompt}, latch' => latch /\ lastPrompt' = lastPrompt /\ p # lastPrompt,
             latch /\ ~latch' => lastPrompt = p \/ lastPrompt \in spoiled'
      PROVE  EngineInv'
  <2>1. sender[p] = "sent"
    <3>1. f \in TurnFrames /\ f.what = p
      BY <1>4 DEF TurnFrames, Frame
    <3> QED BY <1>2, <3>1 DEF EngineInv, SentOnly
  <2>2. Flags'
    BY <1>1, <1>4 DEF EngineInv, Flags
  <2>3. LatchTypes'
    BY <1>1, <1>4 DEF EngineInv, LatchTypes, acpAgent
  <2>4. PermTypes'
    BY <1>1, <1>2, <1>4 DEF EngineInv, PermTypes, acpPerms
  <2>5. SentOnly'
    BY <1>1, <1>2, <1>4, <2>1, FrameFacts DEF EngineInv, SentOnly, acpAgent
  <2>6. LatchInv'
    BY <1>1, <1>4 DEF EngineInv, LatchInv
  <2>7. FrameInv' /\ TerminalInv'
    BY <1>1, <1>2, <1>4, FrameFrame, TerminalFrame DEF acpPerms
  <2> QED BY <1>2, <2>2, <2>3, <2>4, <2>5, <2>6, <2>7 DEF EngineInv
<1>5. latch \in BOOLEAN /\ connected \in BOOLEAN /\ errors \in Nat /\ NoPrompt \notin Prompt /\ (latch => lastPrompt \in Prompt)
      /\ spoiled \subseteq Prompt /\ InFlight \subseteq Prompt /\ (latch => InFlight = {lastPrompt})
    BY AcpEngineAssumption DEF EngineInv, Flags, LatchTypes, LatchInv, InFlight
<1>6. ASSUME NEW p \in Prompt, f = Frame("result", p) PROVE EngineInv'
  <2>1. HandlePromptResult(p)
    BY <1>1, <1>6 DEF Handle, Frame
  <2>2. /\ latch' = FALSE /\ lastPrompt' = NoPrompt /\ errors' \in {0, errors} /\ answered' = answered \cup {p}
        /\ spoiled' = spoiled \cup (InFlight \ {p}) /\ UNCHANGED <<connected, tools, exited, acpPerms>>
    BY <2>1 DEF HandlePromptResult
  <2>3. latch => lastPrompt = p \/ lastPrompt \in spoiled'
    BY <1>5, <2>2
  <2>4. spoiled \subseteq spoiled' /\ spoiled' \subseteq Prompt /\ errors' \in Nat
    BY <1>5, <2>2
  <2>5. connected' \in BOOLEAN /\ latch' \in BOOLEAN
    BY <1>5, <2>2
  <2> QED BY <1>4, <1>6, <2>2, <2>3, <2>4, <2>5
<1>7. ASSUME NEW p \in Prompt, f = Frame("error", p) PROVE EngineInv'
  <2>1. HandleError(p)
    BY <1>1, <1>7 DEF Handle, Frame
  <2>2. connected' \in BOOLEAN /\ errors' \in Nat
    BY <1>5, <2>1 DEF HandleError
  <2>3. CASE p = lastPrompt
    BY <1>4, <1>5, <1>7, <2>1, <2>2, <2>3 DEF HandleError, ErrorEndsTurn
  <2>4. CASE p # lastPrompt
    BY <1>4, <1>5, <1>7, <2>1, <2>2, <2>4 DEF HandleError, ErrorEndsTurn
  <2> QED BY <2>3, <2>4
<1>8. CASE f.kind \in {"tool_begun", "tool_done"}
  <2>1. tools' \in BOOLEAN /\ UNCHANGED <<connected, latch, lastPrompt, errors, exited, acpPerms, answered, spoiled>>
    BY <1>1, <1>8 DEF Handle, SessionUpdate, TrackTool
  <2>2. Flags'
    BY <1>1, <2>1 DEF EngineInv, Flags
  <2>3. LatchTypes' /\ LatchInv'
    BY <1>1, <2>1, LatchFrame DEF EngineInv, LatchTypes, acpAgent
  <2>4. PermTypes' /\ FrameInv' /\ TerminalInv'
    BY <1>1, <1>2, <2>1, FrameFrame, TerminalFrame DEF EngineInv, PermTypes, acpPerms
  <2> QED BY <1>3, <2>1, <2>2, <2>3, <2>4
<1>9. ASSUME UNCHANGED <<acpAdapter, answered, spoiled>> PROVE Flags' /\ LatchTypes' /\ LatchInv'
  <2>1. Flags'
    BY <1>1, <1>9 DEF EngineInv, Flags, acpAdapter
  <2>2. LatchTypes' /\ LatchInv'
    BY <1>1, <1>9, LatchFrame DEF EngineInv, LatchTypes, acpAgent, acpAdapter
  <2> QED BY <2>1, <2>2
<1>10. CASE f \in AgentFrames /\ f.kind = "ask"
  <2>1. f.what \in Question /\ HandlePermissionRequest(f.what)
    BY <1>1, <1>10, FrameFacts DEF Handle
  <2>2. UNCHANGED <<acpAdapter, gated, known, command, waiter, answered, spoiled>> /\ awaiting' = awaiting \cup {f.what}
    BY <2>1 DEF HandlePermissionRequest
  <2>3. PermTypes' /\ FrameInv' /\ TerminalInv'
    BY <1>1, <1>2, <2>1, <2>2, FrameFrame, TerminalFrame DEF EngineInv, PermTypes
  <2> QED BY <1>3, <1>9, <2>2, <2>3
<1>11. CASE f \in AgentFrames /\ f.kind = "release"
  <2>1. PICK t \in Terminal : f = Frame("release", t) /\ HandleTerminalRelease(t)
    BY <1>1, <1>11, FrameFacts DEF Handle
  <2>2. UNCHANGED <<acpAdapter, awaiting, gated, command, waiter, answered, spoiled>> /\ known' = known \ {t}
    BY <2>1 DEF HandleTerminalRelease
  <2>3. Frame("release", t) \in used
    BY <1>2, <1>11, <2>1 DEF EngineInv, FrameInv
  <2>4. PermTypes'
    BY <1>1, <1>2, <2>2 DEF EngineInv, PermTypes
  <2>5. FrameInv'
    BY <1>1, <1>2, <2>2 DEF EngineInv, FrameInv
  <2>6. TerminalInv'
    BY <1>1, <2>2, <2>3 DEF EngineInv, TerminalInv, Closed
  <2> QED BY <1>3, <1>9, <2>2, <2>4, <2>5, <2>6
<1>12. CASE f \in AgentFrames /\ f.kind = "wait"
  <2>1. PICK t \in Terminal : HandleTerminalWait(t)
    BY <1>1, <1>12, FrameFacts DEF Handle
  <2>2. UNCHANGED <<acpAdapter, awaiting, gated, command, known, answered, spoiled>>
        /\ waiter' = [waiter EXCEPT ![t] = IF t \in known THEN "waiting" ELSE "answered"]
    BY <2>1 DEF HandleTerminalWait
  <2>3. waiter' \in [Terminal -> {"none", "waiting", "answered"}] /\ waiter'[t] = (IF t \in known THEN "waiting" ELSE "answered")
        /\ \A u \in Terminal \ {t} : waiter'[u] = waiter[u]
    BY <2>2 DEF EngineInv, PermTypes
  <2>4. PermTypes' /\ FrameInv'
    BY <1>1, <1>2, <2>2, <2>3, FrameFrame DEF EngineInv, PermTypes
  <2>5. TerminalInv'
    BY <1>1, <2>2, <2>3 DEF EngineInv, TerminalInv, Closed
  <2> QED BY <1>3, <1>9, <2>2, <2>4, <2>5
<1>13. CASE f \in AgentFrames /\ f.kind = "create"
  <2>1. PICK t \in Terminal : f = Frame("create", t) /\ HandleTerminalCreate(t)
    BY <1>1, <1>13, FrameFacts DEF Handle
  <2>2. PICK x \in {"gated", "running"} :
          /\ UNCHANGED <<acpAdapter, awaiting, waiter, answered, spoiled>> /\ known' = known \cup {t}
          /\ command' = [command EXCEPT ![t] = x] /\ gated' = (IF x = "gated" THEN gated \cup {t} ELSE gated)
    BY <2>1 DEF HandleTerminalCreate, GateTerminal
  <2>3. command[t] = "none" /\ t \notin gated /\ t \notin known /\ f \in used
    BY <1>2, <1>13, <2>1 DEF EngineInv, FrameInv
  <2>4. command' \in [Terminal -> CommandState] /\ command'[t] = x /\ \A u \in Terminal \ {t} : command'[u] = command[u]
    BY <2>2 DEF EngineInv, PermTypes, CommandState
  <2>5. PermTypes'
    BY <1>1, <1>2, <2>2, <2>4 DEF EngineInv, PermTypes
  <2>6. FrameInv'
    BY <1>1, <1>2, <1>13, <2>1, <2>2, <2>3, <2>4 DEF EngineInv, FrameInv
  <2>7. TerminalInv'
    BY <1>1, <2>2, <2>3, <2>4 DEF EngineInv, TerminalInv, Closed, PermTypes
  <2> QED BY <1>3, <1>9, <2>2, <2>5, <2>6, <2>7
<1>14. f \in TurnFrames => \E p \in Prompt : f = Frame("result", p) \/ f = Frame("error", p)
    BY DEF TurnFrames
<1> QED BY <1>2, <1>6, <1>7, <1>8, <1>10, <1>11, <1>12, <1>13, <1>14, FrameFacts DEF PipeFrames

-----------------------------------------------------------------------------
(* Clocks, set-up, the agent.                                               *)

\* Steps that touch neither the prompts' fate nor the commands.
LEMMA ClockMoves ==
    ASSUME EngineInv, quiet' \in 0..3, patient' \subseteq Prompt, watchdog' \in {"idle", "firing"}, setup' \in Setup,
           {connected', exited'} \subseteq BOOLEAN,
           UNCHANGED <<latch, lastPrompt, tools, errors, acpPerms, sender, turn, backlog, acpPipes, acpGhosts, process, stopping>>
    PROVE  EngineInv'
<1> USE DEF acpPerms, acpPipes, acpGhosts
<1>1. Flags'
    BY DEF EngineInv, Flags
<1>2. LatchTypes'
    BY DEF EngineInv, LatchTypes
<1>3. PermTypes' /\ Once' /\ InPipe' = InPipe
    BY PipeFrame DEF EngineInv, PermTypes
<1>4. SentOnly' /\ LatchInv' /\ FrameInv' /\ TerminalInv'
    BY <1>3, SentFrame, LatchFrame, FrameFrame, TerminalFrame
<1> QED BY <1>1, <1>2, <1>3, <1>4 DEF EngineInv

LEMMA ClockHolds ==
    ASSUME EngineInv, ReadEnds \/ Tick \/ WatchdogChecks
    PROVE  EngineInv'
<1>1. quiet \in 0..3 /\ patient \subseteq Prompt /\ watchdog \in {"idle", "firing"} /\ setup \in Setup
      /\ {connected, exited} \subseteq BOOLEAN
    BY DEF EngineInv, LatchTypes, Flags
<1>2. CASE ReadEnds
    BY <1>1, <1>2, ClockMoves DEF ReadEnds, acpSend, acpClock, acpAgent
<1>3. CASE Tick
  <2>1. quiet' \in 0..3 /\ patient' \subseteq Prompt
    BY <1>1, <1>3 DEF Tick
  <2> QED BY <1>1, <1>3, <2>1, ClockMoves DEF Tick, acpAdapter, acpAgent
<1>4. CASE WatchdogChecks
    BY <1>1, <1>4, ClockMoves DEF WatchdogChecks, acpAdapter, acpSend, acpAgent
<1> QED BY <1>2, <1>3, <1>4

LEMMA SetupHolds ==
    ASSUME EngineInv, InitializeAnswered \/ SessionCreated \/ InitialModeApplied \/ InitialModeFails
    PROVE  EngineInv'
<1>1. quiet \in 0..3 /\ patient \subseteq Prompt /\ watchdog \in {"idle", "firing"}
      /\ {connected, exited} \subseteq BOOLEAN
    BY DEF EngineInv, LatchTypes, Flags
<1>2. setup' \in Setup /\ quiet' \in 0..3
      /\ UNCHANGED <<acpAdapter, acpPerms, patient, sender, watchdog, turn, backlog, acpPipes, acpGhosts, process, stopping>>
  <2>1. \E from, to \in Setup : SetupMoves(from, to)
    BY DEF InitializeAnswered, SessionCreated, InitialModeApplied, InitialModeFails, Setup
  <2>2. quiet' \in {0, quiet}
    BY DEF InitializeAnswered, SessionCreated, InitialModeApplied, InitialModeFails
  <2> QED BY <1>1, <2>1, <2>2 DEF SetupMoves
<1> QED BY <1>1, <1>2, ClockMoves DEF acpAdapter

\* The watchdog gives the latched prompt up.
LEMMA WatchdogHolds == ASSUME EngineInv, FireTurnWatchdog PROVE EngineInv'
<1>1. /\ watchdog' = "idle" /\ latch' = FALSE /\ lastPrompt' = NoPrompt /\ tools' = FALSE /\ abandoned' = abandoned \cup InFlight
      /\ UNCHANGED <<connected, errors, exited, acpPerms, sender, acpAgent, acpPipes, answered, spoiled, process, stopping>>
    BY DEF FireTurnWatchdog
<1>2. InFlight \subseteq Prompt /\ (latch => InFlight = {lastPrompt})
    BY AcpEngineAssumption DEF EngineInv, LatchTypes, LatchInv, InFlight
<1>3. quiet' \in 0..3 /\ patient' \subseteq Prompt
    BY SendFacts DEF FireTurnWatchdog, EngineInv
<1>4. Flags'
    BY <1>1 DEF EngineInv, Flags
<1>5. LatchTypes'
    BY <1>1, <1>2, <1>3 DEF EngineInv, LatchTypes, acpAgent
<1>6. PermTypes' /\ Once' /\ InPipe' = InPipe
    BY <1>1, PipeFrame DEF EngineInv, PermTypes, acpPerms, acpPipes
<1>7. LatchInv'
    BY <1>1, <1>2 DEF EngineInv, LatchInv
<1>8. SentOnly' /\ FrameInv' /\ TerminalInv'
    BY <1>1, <1>6, SentFrame, FrameFrame, TerminalFrame DEF acpAgent, acpPerms, acpPipes
<1> QED BY <1>4, <1>5, <1>6, <1>7, <1>8 DEF EngineInv

\* The adapter is torn down, by the user or by a Connect without an answer.
LEMMA DisconnectHolds == ASSUME EngineInv, Disconnect \/ InitializeFails PROVE EngineInv'
<1>1. /\ stopping' = TRUE /\ setup' \in Setup /\ connected' \in {connected, FALSE} /\ process' \in {process, FALSE}
      /\ awaiting' \subseteq awaiting /\ gated' \subseteq gated
      /\ UNCHANGED <<latch, lastPrompt, tools, errors, exited, known, command, waiter, acpSend, acpClock,
                     turn, backlog, acpPipes, acpGhosts>>
    BY DEF Disconnect, InitializeFails, DisconnectLocked, EngineInv, LatchTypes, Setup
<1> USE DEF acpSend, acpClock, acpPipes, acpGhosts
<1>2. Flags'
    BY <1>1 DEF EngineInv, Flags
<1>3. LatchTypes'
    BY <1>1 DEF EngineInv, LatchTypes
<1>4. PermTypes' /\ Once' /\ InPipe' = InPipe
    BY <1>1, PipeFrame DEF EngineInv, PermTypes
<1>5. SentOnly' /\ LatchInv'
    BY <1>1, <1>4, SentFrame, LatchFrame
<1>6. FrameInv'
    BY <1>1, <1>4 DEF EngineInv, FrameInv
<1>7. TerminalInv'
    BY <1>1 DEF EngineInv, TerminalInv
<1> QED BY <1>2, <1>3, <1>4, <1>5, <1>6, <1>7 DEF EngineInv

\* The agent writes, and works on what it was sent.
LEMMA AgentHolds == ASSUME EngineInv, AgentStep PROVE EngineInv'
<1>1. ASSUME NEW kind \in {"result", "error"}, AgentEndsTurn(kind) PROVE EngineInv'
  <2>1. /\ turn \in Prompt /\ toBridge' = Append(toBridge, Frame(kind, turn))
        /\ UNCHANGED <<setup, acpAdapter, acpPerms, acpSend, acpClock, used, acpGhosts, process, stopping>>
    BY <1>1 DEF AgentEndsTurn, AgentWrites, EngineInv, LatchTypes
  <2>2. PICK p \in (IF backlog = {} THEN {NoPrompt} ELSE backlog) : turn' = p /\ backlog' = backlog \ {p}
    BY <1>1 DEF AgentEndsTurn
  <2>3. Frame(kind, turn) \in TurnFrames /\ Frame(kind, turn) \in PipeFrames /\ Frame(kind, turn).what = turn
    BY <2>1 DEF TurnFrames, PipeFrames, Frame
  <2>4. Frame(kind, turn) \notin AgentFrames
    BY <2>3, FrameFacts
  <2>5. toBridge' \in Seq(PipeFrames) /\ InPipe' = InPipe \cup {Frame(kind, turn)} /\ Once'
    BY <2>1, <2>3, <2>4, PipeAppend DEF EngineInv, PermTypes
  <2> USE DEF acpAdapter, acpPerms, acpSend, acpClock, acpGhosts
  <2>6. Flags'
    BY <2>1 DEF EngineInv, Flags
  <2>7. LatchTypes'
    BY <2>1, <2>2 DEF EngineInv, LatchTypes
  <2>8. PermTypes'
    BY <2>1, <2>5 DEF EngineInv, PermTypes
  <2>9. SentOnly'
    BY <2>1, <2>2, <2>3, <2>5, AcpEngineAssumption DEF EngineInv, SentOnly
  <2>10. LatchInv' /\ TerminalInv'
    BY <2>1, LatchFrame, TerminalFrame
  <2>11. FrameInv'
    BY <2>1, <2>4, <2>5, FrameFacts DEF EngineInv, FrameInv
  <2> QED BY <2>5, <2>6, <2>7, <2>8, <2>9, <2>10, <2>11 DEF EngineInv
<1>2. ASSUME NEW f \in AgentFrames, AgentSends(f) PROVE EngineInv'
  <2>1. /\ f \notin used /\ used' = used \cup {f} /\ toBridge' = Append(toBridge, f)
        /\ UNCHANGED <<acpAdapter, acpPerms, acpSend, acpClock, acpAgent, acpGhosts, process, stopping>>
    BY <1>2 DEF AgentSends, AgentWrites
  <2>2. f \in PipeFrames /\ f \notin InPipe /\ f \notin TurnFrames
    BY <2>1, FrameFacts DEF PipeFrames, EngineInv, FrameInv
  <2>3. toBridge' \in Seq(PipeFrames) /\ InPipe' = InPipe \cup {f} /\ Once'
    BY <2>1, <2>2, PipeAppend DEF EngineInv, PermTypes
  <2> USE DEF acpAdapter, acpPerms, acpSend, acpClock, acpAgent, acpGhosts
  <2>4. Flags'
    BY <2>1 DEF EngineInv, Flags
  <2>5. LatchTypes'
    BY <2>1 DEF EngineInv, LatchTypes
  <2>6. PermTypes'
    BY <2>1, <2>3 DEF EngineInv, PermTypes
  <2>7. SentOnly'
    BY <2>1, <2>2, <2>3 DEF EngineInv, SentOnly
  <2>8. LatchInv' /\ TerminalInv'
    BY <2>1, LatchFrame, TerminalFrame
  <2>9. FrameInv'
    BY <2>1, <2>2, <2>3 DEF EngineInv, FrameInv
  <2> QED BY <2>3, <2>4, <2>5, <2>6, <2>7, <2>8, <2>9 DEF EngineInv
<1>3. CASE AgentDies
  <2>1. /\ process' = FALSE /\ toBridge' \in {toBridge, <<>>}
        /\ UNCHANGED <<acpAdapter, acpPerms, acpSend, acpClock, acpAgent, used, acpGhosts, stopping>>
    BY <1>3 DEF AgentDies
  <2>2. toBridge' \in Seq(PipeFrames) /\ InPipe' \subseteq InPipe /\ Once'
    BY <2>1, PipeLost DEF EngineInv, PermTypes
  <2> USE DEF acpAdapter, acpPerms, acpSend, acpClock, acpAgent, acpGhosts
  <2>3. Flags'
    BY <2>1 DEF EngineInv, Flags
  <2>4. LatchTypes'
    BY <2>1 DEF EngineInv, LatchTypes
  <2>5. PermTypes'
    BY <2>1, <2>2 DEF EngineInv, PermTypes
  <2>6. SentOnly' /\ LatchInv' /\ FrameInv' /\ TerminalInv'
    BY <2>1, <2>2, SentFrame, LatchFrame, FrameFrame, TerminalFrame
  <2> QED BY <2>2, <2>3, <2>4, <2>5, <2>6 DEF EngineInv
<1> QED BY <1>1, <1>2, <1>3 DEF AgentStep

LEMMA EngineStepHolds == EngineInv /\ [AcpNext]_acpVars => EngineInv'
<1> SUFFICES ASSUME EngineInv, [AcpNext]_acpVars PROVE EngineInv'
    OBVIOUS
<1>1. CASE UNCHANGED acpVars
  <2>1. quiet \in 0..3 /\ patient \subseteq Prompt /\ watchdog \in {"idle", "firing"} /\ setup \in Setup
        /\ {connected, exited} \subseteq BOOLEAN
    BY DEF EngineInv, LatchTypes, Flags
  <2> QED BY <1>1, <2>1, ClockMoves DEF acpVars, acpAdapter, acpPerms, acpSend, acpClock, acpAgent, acpPipes, acpGhosts
<1>2. CASE \E p \in Prompt : SendStep(p)
    BY <1>2, WaitHolds, GraceHolds, SendPromptHolds DEF SendStep
<1>3. CASE SetupStep
    BY <1>3, SetupHolds, DisconnectHolds DEF SetupStep
<1>4. CASE UserStep
    BY <1>4, AnswerHolds, CommandHolds DEF UserStep
<1> QED BY <1>1, <1>2, <1>3, <1>4, AgentHolds, CommandHolds, ReadHolds, ClockHolds, WatchdogHolds, DisconnectHolds DEF AcpNext

-----------------------------------------------------------------------------

\* Every reachable state of the adapter is well typed.
THEOREM AcpTypeCorrect == AcpSpec => []AcpTypeOK
<1>1. EngineInv => AcpTypeOK
    BY DEF EngineInv, Flags, LatchTypes, PermTypes, TerminalInv, AcpTypeOK, Setup, SenderState, CommandState
<1> QED BY <1>1, EngineInitHolds, EngineStepHolds, PTL DEF AcpSpec

\* isProcessing says whether a turn is open (acp.go, the latch of a prompt).
THEOREM TurnLatchHolds == AcpSpec => []TurnLatch
<1>1. EngineInv => TurnLatch
    BY DEF EngineInv, LatchInv, TurnLatch
<1> QED BY <1>1, EngineInitHolds, EngineStepHolds, PTL DEF AcpSpec

\* The agent is not left waiting for a command (acp.go, terminal/wait_for_exit).
THEOREM NoDeafWaiterHolds == AcpSpec => []NoDeafWaiter
<1>1. EngineInv => NoDeafWaiter
    BY DEF EngineInv, TerminalInv, NoDeafWaiter, Closed
<1> QED BY <1>1, EngineInitHolds, EngineStepHolds, PTL DEF AcpSpec

-----------------------------------------------------------------------------
(***************************************************************************)
(* The sessions of the bridge.                                              *)
(***************************************************************************)

\* What the bridge has not forwarded, and the whole path of an engine's text:
\* handed over, batched, unread.
Unread(s) == stray[s] \o chan[s]
Path(s) == (sent[s] \o batch[s]) \o Unread(s)
In(f, q) == \E i \in 1..Len(q) : q[i] = f
IsText(f) == f.kind = "text"
Texts == {Text(n) : n \in 1..MaxEmits}

\* Types, by what they are about.
OutTypes ==
    /\ chan \in [Session -> Seq(Frames)] /\ stray \in [Session -> Seq(Frames)]
    /\ \A s \in Session : Len(chan[s]) <= ChannelCap
    /\ batch \in [Session -> Seq(Texts)] /\ sent \in [Session -> Seq(Texts)]
    /\ worker \in [Session -> {"none", "serving", "leaving"}]
    /\ loose \subseteq Session \X Frames
LifeTypes ==
    /\ live \subseteq Session /\ running \subseteq live /\ ending \subseteq Session
    /\ resend \subseteq Session /\ cut \subseteq Session /\ reordered \subseteq Session
    /\ spent \in 0..MaxEmits /\ said \in [Session -> 0..MaxEmits]
    /\ \A s \in Session : said[s] <= spent
AskTypes ==
    /\ permSessionMap \in [Id -> Session \cup {NoSession}]
    /\ permPending \subseteq Session \X Id /\ open \subseteq Session \X Id
    /\ web \subseteq Session \X Id /\ asked \subseteq Session \X Id
    /\ answer \in [asker : Session \cup {NoSession}, id : Id \cup {0}, to : Session \cup {NoSession}]
    /\ \A q \in open : q[1] \in running
    /\ answer # NoAnswer => answer.id \in Id

\* A session without a worker has nothing in its channel.  One that kept its
\* order has no loose frames, and a new worker only when the old one is done.
FlowInv(s) ==
    /\ worker[s] = "none" => chan[s] = <<>>
    /\ s \notin reordered => (stray[s] # <<>> => worker[s] = "none") /\ \A l \in loose : l[1] # s

\* The text on the path is in the order it was said, the next chunk has a
\* higher number, and none is missing unless the user cut it off.
InOrder(q) == \A i, j \in 1..Len(q) : i < j /\ IsText(q[i]) /\ IsText(q[j]) => q[i].what < q[j].what
OrderInv(s) ==
    /\ InOrder(Path(s))
    /\ \A i \in 1..Len(Path(s)) : IsText(Path(s)[i]) => Path(s)[i].what <= said[s]
    /\ s \notin cut => \A n \in 1..said[s] : In(Text(n), Path(s))

\* The exit of an engine is the last thing of it, and when it was forwarded
\* nothing is unread.
LifeInv(s) ==
    /\ s \notin live => s \notin ending /\ Unread(s) = <<>>
    /\ s \in running => s \notin ending /\ ~In(Exit, Unread(s))
    /\ s \in live \ running =>
         \/ s \in ending /\ Unread(s) = <<>>
         \/ s \notin ending /\ Unread(s) # <<>> /\ \A i \in 1..Len(Unread(s)) : Unread(s)[i] = Exit <=> i = Len(Unread(s))

\* Whatever is recorded, shown, answered or under way was asked.
AskedInv ==
    /\ permPending \subseteq asked /\ web \subseteq asked /\ open \subseteq asked
    /\ \A id \in Id : permSessionMap[id] # NoSession => <<permSessionMap[id], id>> \in asked
    /\ answer.to # NoSession => <<answer.to, answer.id>> \in asked
    /\ \A s \in Session, id \in Id : In(Ask(id), stray[s]) \/ In(Ask(id), chan[s]) \/ <<s, Ask(id)>> \in loose => <<s, id>> \in asked

\* A question that was asked after the engine idled is behind the idle frame.
IdleInv(s) ==
    \A i \in 1..Len(Unread(s)), id \in Id : Unread(s)[i] = TurnIdle /\ <<s, id>> \in open =>
        \E j \in i+1..Len(Unread(s)) : Unread(s)[j] = Ask(id)

\* A question nobody else used the id of is unread, being answered, or pending
\* and then on the page when the link is up and no re-send is owed.
Sole(s, id) == \A t \in Session : <<t, id>> \in asked => t = s
Shown(s, id) ==
    <<s, id>> \in open /\ Sole(s, id) =>
      \/ In(Ask(id), Unread(s)) \/ (answer.asker = s /\ answer.id = id)
      \/ /\ <<s, id>> \in permPending
         /\ link /\ s \notin resend => <<s, id>> \in web

LinkFlag == link \in BOOLEAN
SessionTypes == OutTypes /\ LifeTypes /\ AskTypes
\* The inductive invariant.
OrderedInv(s) == OrderInv(s) /\ (s \notin cut => LifeInv(s)) /\ IdleInv(s) /\ \A id \in Id : Shown(s, id)
SessionInv == /\ SessionTypes /\ AskedInv /\ \A s \in Session : FlowInv(s)
              /\ \A s \in Session \ reordered : OrderedInv(s)

-----------------------------------------------------------------------------
(* Frames and sequences of frames.                                          *)

\* The frames of an engine by their kinds.
LEMMA SaidFrames ==
    /\ Texts \subseteq Frames /\ TurnIdle \in Frames /\ Exit \in Frames /\ \A id \in Id : Ask(id) \in Frames
    /\ \A f \in Frames : f.kind \in {"text", "ask", "idle", "exit"}
    /\ \A f \in Frames : f.kind = "text" => f \in Texts /\ f.what \in 1..MaxEmits /\ f = Text(f.what)
    /\ \A f \in Frames : f.kind = "ask" => f.what \in Id /\ f = Ask(f.what)
    /\ \A f \in Frames : f.kind = "idle" => f = TurnIdle
    /\ \A f \in Frames : f.kind = "exit" => f = Exit
    /\ TurnIdle.kind = "idle" /\ Exit.kind = "exit"
    /\ \A n : Text(n).kind = "text" /\ Text(n).what = n
    /\ \A id : Ask(id).kind = "ask" /\ Ask(id).what = id
<1>1. Texts \subseteq Frames /\ TurnIdle \in Frames /\ Exit \in Frames /\ \A id \in Id : Ask(id) \in Frames
    BY DEF Texts, Frames
<1>2. /\ TurnIdle.kind = "idle" /\ Exit.kind = "exit"
      /\ \A n : Text(n).kind = "text" /\ Text(n).what = n
      /\ \A id : Ask(id).kind = "ask" /\ Ask(id).what = id
    BY DEF Text, Ask, TurnIdle, Exit
<1>3. ASSUME NEW f \in Frames
      PROVE  \/ f = TurnIdle \/ f = Exit \/ (\E id \in Id : f = Ask(id)) \/ (\E n \in 1..MaxEmits : f = Text(n))
    BY DEF Frames
<1>4. ASSUME NEW f \in Frames
      PROVE  /\ f.kind \in {"text", "ask", "idle", "exit"}
             /\ f.kind = "text" => f \in Texts /\ f.what \in 1..MaxEmits /\ f = Text(f.what)
             /\ f.kind = "ask" => f.what \in Id /\ f = Ask(f.what)
             /\ f.kind = "idle" => f = TurnIdle
             /\ f.kind = "exit" => f = Exit
  <2>1. CASE f = TurnIdle \/ f = Exit
    BY <1>2, <2>1
  <2>2. CASE \E id \in Id : f = Ask(id)
    BY <1>2, <2>2
  <2>3. CASE \E n \in 1..MaxEmits : f = Text(n)
    BY <1>2, <2>3 DEF Texts
  <2> QED BY <1>3, <2>1, <2>2, <2>3
<1> QED BY <1>1, <1>2, <1>4

\* A frame at the end, and one taken from the front.
LEMMA PutLast ==
    ASSUME NEW S, NEW q \in Seq(S), NEW f \in S
    PROVE  /\ Append(q, f) \in Seq(S) /\ Len(Append(q, f)) = Len(q) + 1 /\ Len(q) \in Nat
           /\ Append(q, f)[Len(q) + 1] = f /\ \A i \in 1..Len(q) : Append(q, f)[i] = q[i]
           /\ \A g : In(g, Append(q, f)) <=> In(g, q) \/ g = f
<1>1. /\ Append(q, f) \in Seq(S) /\ Len(Append(q, f)) = Len(q) + 1 /\ Len(q) \in Nat
      /\ Append(q, f)[Len(q) + 1] = f /\ \A i \in 1..Len(q) : Append(q, f)[i] = q[i]
    OBVIOUS
<1>2. \A g : In(g, Append(q, f)) <=> In(g, q) \/ g = f
    BY <1>1 DEF In
<1> QED BY <1>1, <1>2

\* The first frame taken: what is left, and that nothing else is lost.
LEMMA TakeFirst ==
    ASSUME NEW S, NEW q \in Seq(S), q # <<>>
    PROVE  /\ Tail(q) \in Seq(S) /\ Len(q) \in Nat \ {0} /\ Len(Tail(q)) = Len(q) - 1
           /\ Head(q) \in S /\ Head(q) = q[1] /\ \A i \in 1..Len(Tail(q)) : Tail(q)[i] = q[i + 1]
           /\ \A g : In(g, q) <=> In(g, Tail(q)) \/ g = Head(q)
<1>1. /\ Tail(q) \in Seq(S) /\ Len(q) \in Nat \ {0} /\ Len(Tail(q)) = Len(q) - 1
      /\ Head(q) \in S /\ Head(q) = q[1] /\ \A i \in 1..Len(Tail(q)) : Tail(q)[i] = q[i + 1]
    OBVIOUS
<1>2. ASSUME NEW g, In(g, q) PROVE In(g, Tail(q)) \/ g = Head(q)
  <2>1. PICK i \in 1..Len(q) : q[i] = g
    BY <1>2 DEF In
  <2>2. CASE i = 1
    BY <1>1, <2>1, <2>2
  <2>3. CASE i # 1
    <3>1. i - 1 \in 1..Len(Tail(q)) /\ Tail(q)[i - 1] = g
        BY <1>1, <2>1, <2>3
    <3> QED BY <3>1 DEF In
  <2> QED BY <2>2, <2>3
<1>3. ASSUME NEW g, In(g, Tail(q)) \/ g = Head(q) PROVE In(g, q)
  <2>1. CASE In(g, Tail(q))
    <3>1. PICK i \in 1..Len(Tail(q)) : Tail(q)[i] = g
        BY <2>1 DEF In
    <3>2. i + 1 \in 1..Len(q) /\ q[i + 1] = g
        BY <1>1, <3>1
    <3> QED BY <3>2 DEF In
  <2>2. CASE g = Head(q)
    BY <1>1, <2>2 DEF In
  <2> QED BY <1>3, <2>1, <2>2
<1> QED BY <1>1, <1>2, <1>3

\* Two stretches of a path.
LEMMA Stretches ==
    ASSUME NEW S, NEW p \in Seq(S), NEW q \in Seq(S)
    PROVE  /\ p \o q \in Seq(S) /\ Len(p) \in Nat /\ Len(q) \in Nat /\ Len(p \o q) = Len(p) + Len(q)
           /\ \A i \in 1..Len(p) : (p \o q)[i] = p[i]
           /\ \A i \in 1..Len(q) : (p \o q)[Len(p) + i] = q[i]
           /\ \A g : In(g, p \o q) <=> In(g, p) \/ In(g, q)
           /\ p \o <<>> = p /\ <<>> \o q = q
<1>1. /\ p \o q \in Seq(S) /\ Len(p) \in Nat /\ Len(q) \in Nat /\ Len(p \o q) = Len(p) + Len(q)
      /\ \A i \in 1..Len(p) + Len(q) : (p \o q)[i] = IF i <= Len(p) THEN p[i] ELSE q[i - Len(p)]
    BY ConcatProperties, LenProperties
<1>2. /\ \A i \in 1..Len(p) : (p \o q)[i] = p[i]
      /\ \A i \in 1..Len(q) : (p \o q)[Len(p) + i] = q[i]
    BY <1>1
<1>3. ASSUME NEW g, In(g, p \o q) PROVE In(g, p) \/ In(g, q)
  <2>1. PICK i \in 1..(Len(p) + Len(q)) : (p \o q)[i] = g
    BY <1>1, <1>3 DEF In
  <2>2. CASE i <= Len(p)
    BY <1>1, <2>1, <2>2 DEF In
  <2>3. CASE i > Len(p)
    <3>1. i - Len(p) \in 1..Len(q) /\ q[i - Len(p)] = g
        BY <1>1, <2>1, <2>3
    <3> QED BY <3>1 DEF In
  <2> QED BY <1>1, <2>2, <2>3
<1>4. ASSUME NEW g, In(g, p) \/ In(g, q) PROVE In(g, p \o q)
  <2>1. CASE In(g, p)
    BY <1>1, <1>2, <2>1 DEF In
  <2>2. CASE In(g, q)
    <3>1. PICK i \in 1..Len(q) : q[i] = g
        BY <2>2 DEF In
    <3>2. Len(p) + i \in 1..Len(p \o q) /\ (p \o q)[Len(p) + i] = g
        BY <1>1, <1>2, <3>1
    <3> QED BY <3>2 DEF In
  <2> QED BY <1>4, <2>1, <2>2
<1>5. p \o <<>> = p /\ <<>> \o q = q
    BY ConcatEmptySeq
<1> QED BY <1>1, <1>2, <1>3, <1>4, <1>5

\* A frame at the end of the second stretch is at the end of both.
LEMMA AppendsLast ==
    ASSUME NEW S, NEW p \in Seq(S), NEW q \in Seq(S), NEW f \in S
    PROVE  p \o Append(q, f) = Append(p \o q, f)
<1>1. <<f>> \in Seq(S) /\ Append(q, f) = q \o <<f>>
    BY AppendIsConcat
<1>2. p \o q \in Seq(S)
    BY ConcatProperties
<1>3. Append(p \o q, f) = (p \o q) \o <<f>>
    BY <1>2, AppendIsConcat
<1>4. (p \o q) \o <<f>> = p \o (q \o <<f>>)
    BY <1>1, ConcatAssociative
<1> QED BY <1>1, <1>3, <1>4

\* Where the stretches meet a frame moves over without changing the path.
LEMMA MovesOver ==
    ASSUME NEW S, NEW p \in Seq(S), NEW q \in Seq(S)
    PROVE  /\ q # <<>> => p \o q = Append(p, Head(q)) \o Tail(q)
           /\ p # <<>> => p \o q # <<>> /\ Tail(p) \o q = Tail(p \o q) /\ Head(p \o q) = Head(p)
<1>2. ASSUME q # <<>> PROVE p \o q = Append(p, Head(q)) \o Tail(q)
  <2>1. Head(q) \in S /\ Tail(q) \in Seq(S) /\ Len(q) \in Nat \ {0} /\ Len(p) \in Nat
    BY <1>2
  <2>2. Append(p, Head(q)) \in Seq(S) /\ Len(Append(p, Head(q))) = Len(p) + 1
    BY <2>1
  <2>3. Len(p \o q) = Len(Append(p, Head(q)) \o Tail(q))
    BY <1>2, <2>1, <2>2
  <2>4. ASSUME NEW i \in 1..Len(p \o q) PROVE (p \o q)[i] = (Append(p, Head(q)) \o Tail(q))[i]
    BY <1>2, <2>1, <2>2
  <2>5. p \o q \in Seq(S) /\ Append(p, Head(q)) \o Tail(q) \in Seq(S)
    BY <2>1, <2>2, ConcatProperties
  <2> QED BY <2>3, <2>4, <2>5, SeqEqual
<1>3. ASSUME p # <<>> PROVE p \o q # <<>> /\ Tail(p) \o q = Tail(p \o q) /\ Head(p \o q) = Head(p)
  <2>1. Tail(p) \in Seq(S) /\ Len(p) \in Nat \ {0} /\ Len(q) \in Nat /\ p \o q \in Seq(S)
    BY <1>3, ConcatProperties
  <2>2. Len(p \o q) = Len(p) + Len(q) /\ p \o q # <<>>
    BY <2>1, ConcatProperties
  <2>3. Tail(p \o q) \in Seq(S) /\ Tail(p) \o q \in Seq(S) /\ Len(Tail(p \o q)) = Len(Tail(p) \o q)
    BY <1>3, <2>1, <2>2, ConcatProperties
  <2>4. ASSUME NEW i \in 1..Len(Tail(p \o q)) PROVE Tail(p \o q)[i] = (Tail(p) \o q)[i]
    BY <1>3, <2>1, <2>2, <2>3
  <2>5. Tail(p) \o q = Tail(p \o q)
    BY <2>3, <2>4, SeqEqual
  <2>6. Head(p \o q) = Head(p)
    BY <1>3, <2>1, <2>2
  <2> QED BY <2>2, <2>5, <2>6
<1> QED BY <1>2, <1>3

\* The same for all frames and all texts, in the form the steps below use.
LEMMA FrameStretches ==
    /\ \A p, q \in Seq(Frames), f \in Frames : p \o Append(q, f) = Append(p \o q, f)
    /\ \A p, q \in Seq(Texts), f \in Texts : p \o Append(q, f) = Append(p \o q, f)
    /\ \A p, q, r \in Seq(Texts) : (p \o q) \o r = p \o (q \o r)
    /\ \A p, q, r \in Seq(Frames) : (p \o q) \o r = p \o (q \o r)
    /\ \A p, q \in Seq(Frames) :
         /\ Len(p \o q) = Len(p) + Len(q)
         /\ \A i \in 1..Len(p) : (p \o q)[i] = p[i]
         /\ \A i \in 1..Len(q) : (p \o q)[Len(p) + i] = q[i]
         /\ \A g : In(g, p \o q) <=> In(g, p) \/ In(g, q)
<1>1. \A p, q \in Seq(Frames), f \in Frames : p \o Append(q, f) = Append(p \o q, f)
    BY AppendsLast
<1>2. \A p, q \in Seq(Texts), f \in Texts : p \o Append(q, f) = Append(p \o q, f)
    BY AppendsLast
<1>3. \A p, q, r \in Seq(Texts) : (p \o q) \o r = p \o (q \o r)
    BY ConcatAssociative
<1>4. \A p, q \in Seq(Frames) :
        /\ Len(p \o q) = Len(p) + Len(q)
        /\ \A i \in 1..Len(p) : (p \o q)[i] = p[i]
        /\ \A i \in 1..Len(q) : (p \o q)[Len(p) + i] = q[i]
        /\ \A g : In(g, p \o q) <=> In(g, p) \/ In(g, q)
    BY Stretches
<1>5. \A p, q, r \in Seq(Frames) : (p \o q) \o r = p \o (q \o r)
    BY ConcatAssociative
<1> QED BY <1>1, <1>2, <1>3, <1>4, <1>5

-----------------------------------------------------------------------------
(* What a step does to what a session has not had read and to its path.      *)

Spoken(s) == sent[s] \o batch[s]
Still(s) == Unread(s)' = Unread(s) /\ Path(s)' = Path(s)
Put(s, f) == Unread(s)' = Append(Unread(s), f) /\ Path(s)' = Append(Path(s), f)
Took(s) ==
    /\ Unread(s) # <<>> /\ Unread(s)' = Tail(Unread(s))
    /\ \/ s \in live /\ IsText(Head(Unread(s))) /\ Path(s)' = Path(s)
       \/ ~(s \in live /\ IsText(Head(Unread(s)))) /\ Path(s)' = Spoken(s) \o Tail(Unread(s))

Flows == \A s \in Session : FlowInv(s)

\* What is appended to the second of two stretches is appended to both, and
\* three stretches are joined in either order.
LEMMA MoreFrames == \A p, q \in Seq(Frames), f \in Frames : p \o Append(q, f) = Append(p \o q, f)
BY FrameStretches
LEMMA MoreTexts == \A p, q \in Seq(Texts), f \in Texts : p \o Append(q, f) = Append(p \o q, f)
BY FrameStretches
LEMMA JoinTexts == \A p, q, r \in Seq(Texts) : (p \o q) \o r = p \o (q \o r)
BY FrameStretches

\* The unread frames and the path of a session are sequences of frames.
LEMMA PathTypes ==
    ASSUME OutTypes, NEW s \in Session
    PROVE  /\ Unread(s) \in Seq(Frames) /\ Spoken(s) \in Seq(Frames) /\ Spoken(s) \in Seq(Texts)
           /\ Path(s) = Spoken(s) \o Unread(s) /\ Path(s) \in Seq(Frames)
           /\ \A f : In(f, Unread(s)) <=> In(f, stray[s]) \/ In(f, chan[s])
<1>1. stray[s] \in Seq(Frames) /\ chan[s] \in Seq(Frames) /\ sent[s] \in Seq(Texts) /\ batch[s] \in Seq(Texts)
    BY DEF OutTypes
<1>2. Unread(s) \in Seq(Frames) /\ \A f : In(f, Unread(s)) <=> In(f, stray[s]) \/ In(f, chan[s])
    BY <1>1, Stretches DEF Unread
<1>3. Spoken(s) \in Seq(Texts)
    BY <1>1, Stretches DEF Spoken
<1>4. Spoken(s) \in Seq(Frames)
    BY <1>3, SaidFrames, SeqMonotonic
<1>5. Path(s) = Spoken(s) \o Unread(s) /\ Path(s) \in Seq(Frames)
    BY <1>2, <1>4, Stretches DEF Path, Spoken
<1> QED BY <1>2, <1>3, <1>4, <1>5

\* Nothing of a session changes.
LEMMA StaysStill ==
    ASSUME NEW s \in Session, chan'[s] = chan[s], stray'[s] = stray[s], sent'[s] = sent[s], batch'[s] = batch[s]
    PROVE  Still(s)
BY DEF Still, Unread, Path

\* An engine's frame, into the channel or past it.
LEMMA EmitMoves ==
    ASSUME OutTypes, Flows, LifeTypes, NEW s \in Session, NEW f \in Frames, Emit(s, f)
    PROVE  /\ OutTypes' /\ Flows' /\ reordered \subseteq reordered' /\ reordered' \subseteq Session
           /\ \A t \in Session : t # s => Still(t) /\ chan'[t] = chan[t] /\ stray'[t] = stray[t] /\ (t \in reordered' <=> t \in reordered)
           /\ s \notin reordered' => Put(s, f)
           /\ stray' = stray /\ \A g : In(g, chan'[s]) => In(g, chan[s]) \/ g = f
           /\ loose \subseteq loose' /\ loose' \subseteq loose \cup {<<s, f>>}
<1> USE BridgeSessionsAssumption
<1>0. /\ chan[s] \in Seq(Frames) /\ stray[s] \in Seq(Frames) /\ Len(chan[s]) \in Nat /\ Len(chan[s]) <= ChannelCap
      /\ UNCHANGED <<batch, sent, stray>>
    BY DEF OutTypes, Emit, DispatchSessionOutput, textVars
<1>1. /\ worker' \in [Session -> {"none", "serving", "leaving"}] /\ worker'[s] # "none"
      /\ worker[s] # "none" => worker'[s] = worker[s]
      /\ \A t \in Session : t # s => worker'[t] = worker[t]
    BY DEF OutTypes, Emit, DispatchSessionOutput
<1>2. /\ reordered \subseteq reordered' /\ reordered' \subseteq reordered \cup {s} /\ reordered' \subseteq Session
      /\ s \notin reordered' => Len(chan[s]) < ChannelCap /\ (worker[s] = "none" => stray[s] = <<>>)
    BY <1>0 DEF OutTypes, LifeTypes, Emit, DispatchSessionOutput
<1>3. CASE Len(chan[s]) < ChannelCap
  <2>1. chan' = [chan EXCEPT ![s] = Append(@, f)] /\ loose' = loose
    BY <1>3 DEF Emit, DispatchSessionOutput
  <2>2. /\ chan' \in [Session -> Seq(Frames)] /\ chan'[s] = Append(chan[s], f) /\ Len(chan'[s]) = Len(chan[s]) + 1
        /\ \A t \in Session : t # s => chan'[t] = chan[t]
    BY <2>1, <1>0 DEF OutTypes
  <2>3. OutTypes'
    BY <1>0, <1>1, <1>3, <2>1, <2>2 DEF OutTypes
  <2>4. ASSUME NEW t \in Session PROVE FlowInv(t)'
    <3>1. CASE t = s
        BY <1>0, <1>1, <1>2, <2>1, <3>1 DEF Flows, FlowInv
    <3>2. CASE t # s
        BY <1>0, <1>1, <1>2, <2>1, <2>2, <3>2 DEF Flows, FlowInv
    <3> QED BY <3>1, <3>2
  <2>5. \A t \in Session : t # s => Still(t)
    BY <1>0, <2>2, StaysStill
  <2>6. Put(s, f)
    <3>0. stray[s] \o Append(chan[s], f) = Append(stray[s] \o chan[s], f)
        <4>1. stray[s] \in Seq(Frames) /\ chan[s] \in Seq(Frames)
            BY <1>0
        <4> QED BY ONLY <4>1, f \in Frames, MoreFrames, Zenon
    <3>1. Unread(s)' = Append(Unread(s), f)
        BY <1>0, <2>2, <3>0 DEF Unread
    <3>2. Path(s)' = Spoken(s) \o Unread(s)'
        BY <1>0 DEF Path, Spoken
    <3>3. Spoken(s) \o Append(Unread(s), f) = Append(Spoken(s) \o Unread(s), f)
        <4>1. Spoken(s) \in Seq(Frames) /\ Unread(s) \in Seq(Frames)
            BY PathTypes
        <4> QED BY ONLY <4>1, f \in Frames, MoreFrames, Zenon
    <3> QED BY <3>1, <3>2, <3>3, PathTypes DEF Put
  <2>7. \A g : In(g, chan'[s]) => In(g, chan[s]) \/ g = f
    BY <1>0, <2>2, PutLast
  <2> QED BY <1>0, <1>2, <2>1, <2>2, <2>3, <2>4, <2>5, <2>6, <2>7 DEF Flows
<1>4. CASE ~(Len(chan[s]) < ChannelCap)
  <2>1. chan' = chan /\ loose' = loose \cup {<<s, f>>} /\ s \in reordered'
    BY <1>0, <1>4 DEF Emit, DispatchSessionOutput
  <2>2. OutTypes'
    BY <1>0, <1>1, <2>1 DEF OutTypes
  <2>3. ASSUME NEW t \in Session PROVE FlowInv(t)'
    <3>1. CASE t = s
        BY <1>1, <2>1, <3>1 DEF FlowInv
    <3>2. CASE t # s
        BY <1>0, <1>1, <1>2, <2>1, <3>2 DEF Flows, FlowInv
    <3> QED BY <3>1, <3>2
  <2>4. \A t \in Session : t # s => Still(t)
    BY <1>0, <2>1, StaysStill
  <2> QED BY <1>0, <1>2, <2>1, <2>2, <2>3, <2>4 DEF Flows
<1> QED BY <1>3, <1>4

\* A frame is forwarded: what is left of its sequence, and the text batched.
LEMMA ForwardMoves ==
    ASSUME OutTypes, Flows, NEW s \in Session,
           \/ WorkerForwards(s) \/ StrayForwards(s)
           \/ \E f \in {l[2] : l \in loose} : LooseForwards(s, f)
    PROVE  /\ OutTypes' /\ Flows' /\ reordered' = reordered
           /\ \A t \in Session : t # s => Still(t) /\ chan'[t] = chan[t] /\ stray'[t] = stray[t]
           /\ loose' \subseteq loose
           /\ \A g : In(g, chan'[s]) \/ In(g, stray'[s]) => In(g, chan[s]) \/ In(g, stray[s])
           /\ \E f \in Frames : /\ ForwardSessionOutput(s, f)
                                /\ In(f, chan[s]) \/ In(f, stray[s]) \/ <<s, f>> \in loose
                                /\ s \notin reordered => Took(s) /\ f = Head(Unread(s))
<1>0. /\ chan[s] \in Seq(Frames) /\ stray[s] \in Seq(Frames) /\ Len(chan[s]) \in Nat /\ Len(chan[s]) <= ChannelCap
      /\ batch[s] \in Seq(Texts) /\ sent[s] \in Seq(Texts)
    BY DEF OutTypes
<1>1. ASSUME NEW f \in Frames, ForwardSessionOutput(s, f)
      PROVE  /\ batch' \in [Session -> Seq(Texts)] /\ sent' = sent /\ reordered' = reordered
             /\ \A t \in Session : t # s => batch'[t] = batch[t]
             /\ batch'[s] = IF s \in live /\ IsText(f) THEN Append(batch[s], f) ELSE batch[s]
  <2>1. sent' = sent /\ reordered' = reordered
    BY <1>1 DEF ForwardSessionOutput
  <2>2. CASE s \in live /\ IsText(f)
    <3>1. batch' = [batch EXCEPT ![s] = Append(@, f)] /\ f \in Texts
        BY <1>1, <2>2, SaidFrames DEF ForwardSessionOutput, BatchContent, IsText
    <3> QED BY <2>1, <2>2, <3>1, <1>0 DEF OutTypes
  <2>3. CASE ~(s \in live /\ IsText(f))
    <3>1. batch' = batch
        BY <1>1, <2>3 DEF ForwardSessionOutput, IsText
    <3> QED BY <2>1, <2>3, <3>1 DEF OutTypes
  <2> QED BY <2>2, <2>3
\* ... so the path changes at the point where spoken and unread meet
<1>2. ASSUME NEW f \in Frames, ForwardSessionOutput(s, f), Unread(s) # <<>>, f = Head(Unread(s)), Unread(s)' = Tail(Unread(s))
      PROVE  Took(s)
  <2>1. Path(s)' = Spoken(s)' \o Tail(Unread(s))
    BY <1>2 DEF Path, Spoken
  <2>2. Spoken(s)' = IF s \in live /\ IsText(f) THEN Append(Spoken(s), f) ELSE Spoken(s)
    <3>1. CASE s \in live /\ IsText(f)
      <4>1. f \in Texts
        BY <3>1, SaidFrames DEF IsText
      <4>2. sent[s] \o Append(batch[s], f) = Append(sent[s] \o batch[s], f)
        <5>1. sent[s] \in Seq(Texts) /\ batch[s] \in Seq(Texts)
            BY <1>0
        <5> QED BY ONLY <5>1, <4>1, MoreTexts, Zenon
      <4>3. sent'[s] = sent[s] /\ batch'[s] = Append(batch[s], f)
        BY <1>1, <1>2, <3>1
      <4> QED BY ONLY <3>1, <4>2, <4>3 DEF Spoken
    <3>2. CASE ~(s \in live /\ IsText(f))
        BY <1>1, <1>2, <3>2 DEF Spoken
    <3> QED BY <3>1, <3>2
  <2>3. Append(Spoken(s), f) \o Tail(Unread(s)) = Path(s)
    BY <1>2, PathTypes, MovesOver
  <2> QED BY <1>2, <2>1, <2>2, <2>3 DEF Took
<1>3. CASE WorkerForwards(s)
  <2> DEFINE f == Head(chan[s])
  <2>1. /\ worker[s] = "serving" /\ chan[s] # <<>> /\ chan' = [chan EXCEPT ![s] = Tail(@)]
        /\ ForwardSessionOutput(s, f) /\ UNCHANGED <<worker, stray, loose>>
    BY <1>3 DEF WorkerForwards
  <2>2. /\ f \in Frames /\ In(f, chan[s]) /\ chan' \in [Session -> Seq(Frames)] /\ chan'[s] = Tail(chan[s])
        /\ \A t \in Session : t # s => chan'[t] = chan[t]
        /\ Len(chan'[s]) = Len(chan[s]) - 1 /\ \A g : In(g, chan'[s]) => In(g, chan[s])
    BY <1>0, <2>1, TakeFirst DEF OutTypes
  <2> HIDE DEF f
  <2>a. \A t \in Session : Len(chan'[t]) <= ChannelCap
    <3>1. Len(chan'[s]) <= ChannelCap
        BY <1>0, <2>2, BridgeSessionsAssumption
    <3> QED BY <2>2, <3>1 DEF OutTypes
  <2>3. OutTypes'
    BY <1>1, <2>1, <2>2, <2>a DEF OutTypes
  <2>4. Flows'
    <3> SUFFICES ASSUME NEW t \in Session PROVE FlowInv(t)'
        BY DEF Flows
    <3>1. CASE t = s
        BY <1>1, <2>1, <2>2, <3>1 DEF Flows, FlowInv
    <3>2. CASE t # s
        BY <1>1, <2>1, <2>2, <3>2 DEF Flows, FlowInv
    <3> QED BY <3>1, <3>2
  <2>5. \A t \in Session : t # s => Still(t)
    BY <1>1, <2>1, <2>2, StaysStill
  <2>6. ASSUME s \notin reordered PROVE Took(s) /\ f = Head(Unread(s))
    <3>1. stray[s] = <<>>
        BY <2>1, <2>6 DEF Flows, FlowInv
    <3>2. Unread(s) = chan[s] /\ Unread(s)' = Tail(chan[s])
        BY <1>0, <2>1, <2>2, <3>1, Stretches DEF Unread
    <3> QED BY <1>2, <2>1, <2>2, <3>2 DEF f
  <2> QED BY <1>1, <2>1, <2>2, <2>3, <2>4, <2>5, <2>6
<1>4. CASE StrayForwards(s)
  <2> DEFINE f == Head(stray[s])
  <2>1. /\ stray[s] # <<>> /\ stray' = [stray EXCEPT ![s] = Tail(@)]
        /\ ForwardSessionOutput(s, f) /\ UNCHANGED <<worker, chan, loose>>
    BY <1>4 DEF StrayForwards
  <2>2. /\ f \in Frames /\ In(f, stray[s]) /\ stray' \in [Session -> Seq(Frames)] /\ stray'[s] = Tail(stray[s])
        /\ \A t \in Session : t # s => stray'[t] = stray[t]
        /\ \A g : In(g, stray'[s]) => In(g, stray[s])
    BY <1>0, <2>1, TakeFirst DEF OutTypes
  <2> HIDE DEF f
  <2>3. OutTypes'
    BY <1>0, <1>1, <2>1, <2>2 DEF OutTypes
  <2>4. Flows'
    <3> SUFFICES ASSUME NEW t \in Session PROVE FlowInv(t)'
        BY DEF Flows
    <3>1. CASE t = s
        BY <1>1, <2>1, <2>2, <3>1 DEF Flows, FlowInv
    <3>2. CASE t # s
        BY <1>1, <2>1, <2>2, <3>2 DEF Flows, FlowInv
    <3> QED BY <3>1, <3>2
  <2>5. \A t \in Session : t # s => Still(t)
    BY <1>1, <2>1, <2>2, StaysStill
  <2>6. Unread(s) # <<>> /\ Unread(s)' = Tail(Unread(s)) /\ f = Head(Unread(s))
    BY <1>0, <2>1, <2>2, MovesOver DEF Unread, f
  <2>7. Took(s)
    BY <1>2, <2>1, <2>2, <2>6
  <2> QED BY <1>1, <2>1, <2>2, <2>3, <2>4, <2>5, <2>6, <2>7
<1>5. CASE \E f \in {l[2] : l \in loose} : LooseForwards(s, f)
  <2>1. PICK f \in {l[2] : l \in loose} : LooseForwards(s, f)
    BY <1>5
  <2>2. /\ <<s, f>> \in loose /\ loose' = loose \ {<<s, f>>} /\ f \in Frames
        /\ ForwardSessionOutput(s, f) /\ UNCHANGED <<worker, chan, stray>>
    BY <2>1 DEF LooseForwards, OutTypes
  <2>3. OutTypes'
    BY <1>1, <2>2 DEF OutTypes
  <2>4. Flows' /\ s \in reordered
    BY <1>1, <2>2 DEF Flows, FlowInv
  <2>5. \A t \in Session : t # s => Still(t)
    BY <1>1, <2>2, StaysStill
  <2> QED BY <1>1, <2>2, <2>3, <2>4, <2>5
<1> QED BY <1>3, <1>4, <1>5

\* The worker leaves, or a flush: no frame changes its place in the path.
LEMMA WorkerMoves ==
    ASSUME OutTypes, Flows, NEW s \in Session,
           WorkerLeaves(s) \/ WorkerRetires(s) \/ \E n \in 1..Len(batch[s]) : DoFlush(s, n)
    PROVE  /\ OutTypes' /\ Flows' /\ \A t \in Session : Still(t)
           /\ loose' = loose /\ \A t \in Session : \A g : In(g, chan'[t]) \/ In(g, stray'[t]) => In(g, chan[t]) \/ In(g, stray[t])
<1>0. /\ chan[s] \in Seq(Frames) /\ stray[s] \in Seq(Frames) /\ batch[s] \in Seq(Texts) /\ sent[s] \in Seq(Texts)
    BY DEF OutTypes
<1>1. CASE WorkerLeaves(s)
  <2>1. /\ worker[s] = "serving" /\ worker' = [worker EXCEPT ![s] = "leaving"]
        /\ UNCHANGED <<chan, stray, loose, batch, sent, reordered>>
    BY <1>1 DEF WorkerLeaves, textVars
  <2>2. OutTypes'
    BY <2>1 DEF OutTypes
  <2>3. ASSUME NEW t \in Session PROVE FlowInv(t)'
    <3>1. CASE t = s
        BY <2>1, <3>1 DEF OutTypes, Flows, FlowInv
    <3>2. CASE t # s
        BY <2>1, <3>2 DEF OutTypes, Flows, FlowInv
    <3> QED BY <3>1, <3>2
  <2> QED BY <2>1, <2>2, <2>3, StaysStill DEF Flows
<1>2. CASE WorkerRetires(s)
  <2>1. /\ worker[s] = "leaving" /\ worker' = [worker EXCEPT ![s] = "none"]
        /\ stray' = [stray EXCEPT ![s] = @ \o chan[s]] /\ chan' = [chan EXCEPT ![s] = <<>>]
        /\ UNCHANGED <<loose, batch, sent, reordered>>
    BY <1>2 DEF WorkerRetires, textVars
  <2>2. stray[s] \o chan[s] \in Seq(Frames) /\ <<>> \in Seq(Frames) /\ Len(<<>>) = 0
    BY <1>0, Stretches
  <2>3. /\ stray'[s] = stray[s] \o chan[s] /\ chan'[s] = <<>> /\ worker'[s] = "none"
        /\ \A t \in Session : t # s => stray'[t] = stray[t] /\ chan'[t] = chan[t] /\ worker'[t] = worker[t]
    BY <2>1 DEF OutTypes
  <2>4. stray' \in [Session -> Seq(Frames)] /\ chan' \in [Session -> Seq(Frames)] /\ worker' \in [Session -> {"none", "serving", "leaving"}]
    BY <2>1, <2>2 DEF OutTypes
  <2>5. OutTypes'
    BY <2>1, <2>2, <2>3, <2>4, BridgeSessionsAssumption DEF OutTypes
  <2>6. ASSUME NEW t \in Session PROVE FlowInv(t)'
    <3>1. CASE t = s
        BY <2>1, <2>3, <3>1 DEF Flows, FlowInv
    <3>2. CASE t # s
        BY <2>1, <2>3, <3>2 DEF Flows, FlowInv
    <3> QED BY <3>1, <3>2
  <2>7. Still(s)
    <3>1. Unread(s)' = Unread(s)
        BY <2>2, <2>3, Stretches DEF Unread
    <3> QED BY <2>1, <3>1 DEF Still, Path
  <2>8. \A t \in Session : t # s => Still(t)
    BY <2>1, <2>3, StaysStill
  <2>9. \A g : In(g, chan'[s]) \/ In(g, stray'[s]) => In(g, chan[s]) \/ In(g, stray[s])
    <3>1. \A g : ~In(g, chan'[s])
        BY <2>2, <2>3 DEF In
    <3> QED BY <1>0, <2>3, <3>1, Stretches
  <2> QED BY <2>1, <2>3, <2>5, <2>6, <2>7, <2>8, <2>9 DEF Flows
<1>3. CASE \E n \in 1..Len(batch[s]) : DoFlush(s, n)
  <2>1. PICK n \in 1..Len(batch[s]) : DoFlush(s, n)
    BY <1>3
  <2>2. /\ sent' = [sent EXCEPT ![s] = @ \o SubSeq(batch[s], 1, n)]
        /\ batch' = [batch EXCEPT ![s] = SubSeq(@, n + 1, Len(@))]
        /\ UNCHANGED <<chan, stray, loose, worker, reordered>>
    BY <2>1 DEF DoFlush, outVars
  <2> DEFINE p == SubSeq(batch[s], 1, n)
             q == SubSeq(batch[s], n + 1, Len(batch[s]))
  <2>3. p \in Seq(Texts) /\ q \in Seq(Texts) /\ p \o q = batch[s] /\ sent[s] \o p \in Seq(Texts)
    <3>1. Len(batch[s]) \in Nat /\ \A i \in 1..Len(batch[s]) : batch[s][i] \in Texts
        BY <1>0
    <3>2. p \in Seq(Texts) /\ q \in Seq(Texts)
        BY <3>1, SubSeqProperties
    <3>3. p \o q = SubSeq(batch[s], 1, Len(batch[s]))
        BY <1>0, <3>1, ConcatAdjacentSubSeq
    <3>4. SubSeq(batch[s], 1, Len(batch[s])) = batch[s]
        BY <1>0, SubSeqFull
    <3> QED BY <1>0, <3>2, <3>3, <3>4, Stretches
  <2>4. /\ sent'[s] = sent[s] \o p /\ batch'[s] = q
        /\ \A t \in Session : t # s => sent'[t] = sent[t] /\ batch'[t] = batch[t]
    BY <2>2 DEF OutTypes
  <2>5. sent' \in [Session -> Seq(Texts)] /\ batch' \in [Session -> Seq(Texts)]
    BY <2>2, <2>3 DEF OutTypes
  <2>6. Spoken(s)' = Spoken(s)
    <3> HIDE DEF p, q
    <3>1. (sent[s] \o p) \o q = sent[s] \o (p \o q)
        <4>1. sent[s] \in Seq(Texts) /\ p \in Seq(Texts) /\ q \in Seq(Texts)
            BY <1>0, <2>3
        <4> QED BY ONLY <4>1, JoinTexts, Zenon
    <3> QED BY <2>3, <2>4, <3>1 DEF Spoken
  <2> HIDE DEF p, q
  <2>7. Still(s)
    BY <2>2, <2>6 DEF Still, Path, Unread, Spoken
  <2>8. \A t \in Session : t # s => Still(t)
    BY <2>2, <2>4, StaysStill
  <2>9. OutTypes' /\ Flows'
    BY <2>2, <2>5 DEF OutTypes, Flows, FlowInv
  <2> QED BY <2>2, <2>7, <2>8, <2>9
<1> QED BY <1>1, <1>2, <1>3

-----------------------------------------------------------------------------
(* The order of a session's frames.                                          *)

\* A path that stays, or gets the next frame of the engine.
LEMMA OrderStill ==
    ASSUME NEW t \in Session, OrderInv(t), Path(t)' = Path(t), said'[t] = said[t], t \in cut => t \in cut'
    PROVE  OrderInv(t)'
BY DEF OrderInv, InOrder

\* The engine's next frame goes to the end of the path, with the next number if it is text.
LEMMA OrderPut ==
    ASSUME OutTypes, LifeTypes, NEW t \in Session, NEW f \in Frames, OrderInv(t), Put(t, f), cut \subseteq cut',
           IF IsText(f) THEN f = Text(said[t] + 1) /\ said'[t] = said[t] + 1 ELSE said'[t] = said[t]
    PROVE  OrderInv(t)'
<1> DEFINE P == Path(t)
           Q == Path(t)'
<1>1. /\ P \in Seq(Frames) /\ Q = Append(P, f) /\ said[t] \in Nat
    BY PathTypes DEF Put, LifeTypes
<1>2. /\ Len(Q) = Len(P) + 1 /\ Len(P) \in Nat /\ Q[Len(P) + 1] = f
      /\ \A i \in 1..Len(P) : Q[i] = P[i]
      /\ \A g : In(g, Q) <=> In(g, P) \/ g = f
    BY <1>1, PutLast
<1>3. /\ InOrder(P) /\ \A i \in 1..Len(P) : IsText(P[i]) => P[i].what <= said[t]
      /\ t \notin cut => \A n \in 1..said[t] : In(Text(n), P)
    BY DEF OrderInv
<1>6. \A i \in 1..Len(P) : IsText(P[i]) => P[i].what \in Nat
  <2>1. \A i \in 1..Len(P) : P[i] \in Frames
    BY <1>1
  <2> QED BY <2>1, SaidFrames DEF IsText
<1> HIDE DEF P, Q
<1>4. CASE IsText(f)
  <2>1. f = Text(said[t] + 1) /\ f.what = said[t] + 1 /\ said'[t] = said[t] + 1
    BY <1>4, SaidFrames
  <2>2. InOrder(Q)
    <3> SUFFICES ASSUME NEW i \in 1..Len(Q), NEW j \in 1..Len(Q), i < j, IsText(Q[i]), IsText(Q[j])
                 PROVE  Q[i].what < Q[j].what
        BY DEF InOrder
    <3>1. i \in 1..Len(P) /\ Q[i] = P[i] /\ P[i].what \in Nat /\ P[i].what <= said[t]
        BY <1>2, <1>3, <1>6
    <3>2. CASE j \in 1..Len(P)
        BY <1>2, <1>3, <3>1, <3>2 DEF InOrder
    <3>3. CASE j = Len(P) + 1
        BY <1>1, <1>2, <2>1, <3>1, <3>3
    <3> QED BY <1>2, <3>2, <3>3
  <2>3. \A i \in 1..Len(Q) : IsText(Q[i]) => Q[i].what <= said'[t]
    BY <1>1, <1>2, <1>3, <1>6, <2>1
  <2>4. ASSUME t \notin cut', NEW n \in 1..said'[t] PROVE In(Text(n), Q)
    BY <1>1, <1>2, <1>3, <2>1, <2>4
  <2> QED BY <2>2, <2>3, <2>4 DEF OrderInv, Q
<1>5. CASE ~IsText(f)
  <2>2. InOrder(Q)
    BY <1>1, <1>2, <1>3, <1>5 DEF InOrder
  <2>3. \A i \in 1..Len(Q) : IsText(Q[i]) => Q[i].what <= said'[t]
    BY <1>1, <1>2, <1>3, <1>5
  <2>4. ASSUME t \notin cut', NEW n \in 1..said'[t] PROVE In(Text(n), Q)
    BY <1>1, <1>2, <1>3, <1>5, <2>4
  <2> QED BY <2>2, <2>3, <2>4 DEF OrderInv, Q
<1> QED BY <1>4, <1>5

\* A frame that is forwarded, dropped only with what the user cut off.
LEMMA OrderTook ==
    ASSUME OutTypes, NEW t \in Session, OrderInv(t), t \notin cut => LifeInv(t),
           Took(t), said'[t] = said[t], cut' = cut
    PROVE  OrderInv(t)'
<1>1. CASE Path(t)' = Path(t)
    BY <1>1, OrderStill
<1>2. CASE /\ ~(t \in live /\ IsText(Head(Unread(t))))
           /\ Path(t)' = Spoken(t) \o Tail(Unread(t))
  <2> DEFINE A == Spoken(t)
             U == Unread(t)
             B == Tail(U)
             P == Path(t)
             Q == Path(t)'
  <2>1. /\ A \in Seq(Frames) /\ U \in Seq(Frames) /\ U # <<>> /\ P = A \o U /\ Q = A \o B
    BY <1>2, PathTypes DEF Took
  <2>2. /\ B \in Seq(Frames) /\ Len(U) \in Nat \ {0} /\ Len(B) = Len(U) - 1
        /\ \A i \in 1..Len(B) : B[i] = U[i + 1]
        /\ \A g : In(g, U) <=> In(g, B) \/ g = Head(U)
    BY <2>1, TakeFirst
  <2>3. /\ Len(A) \in Nat /\ Len(P) = Len(A) + Len(U)
        /\ \A i \in 1..Len(A) : P[i] = A[i]
        /\ \A i \in 1..Len(U) : P[Len(A) + i] = U[i]
        /\ \A g : In(g, P) <=> In(g, A) \/ In(g, U)
    BY <2>1, Stretches
  <2>4. /\ Len(Q) = Len(A) + Len(B)
        /\ \A i \in 1..Len(A) : Q[i] = A[i]
        /\ \A i \in 1..Len(B) : Q[Len(A) + i] = B[i]
        /\ \A g : In(g, Q) <=> In(g, A) \/ In(g, B)
    <3> HIDE DEF A, U, B
    <3>2. A \in Seq(Frames) /\ B \in Seq(Frames)
        BY <2>1, <2>2
    <3>1. /\ \A i \in 1..Len(A) : (A \o B)[i] = A[i]
          /\ \A i \in 1..Len(B) : (A \o B)[Len(A) + i] = B[i]
          /\ Len(A \o B) = Len(A) + Len(B) /\ \A g : In(g, A \o B) <=> In(g, A) \/ In(g, B)
        BY ONLY <3>2, FrameStretches, Zenon
    <3> QED BY <2>1, <3>1
  <2>5. /\ InOrder(P) /\ \A i \in 1..Len(P) : IsText(P[i]) => P[i].what <= said[t]
        /\ t \notin cut => \A n \in 1..said[t] : In(Text(n), P)
    BY DEF OrderInv
  <2>6. t \notin cut => ~IsText(Head(U))
    BY <1>2, <2>1 DEF LifeInv
  <2> HIDE DEF A, U, B, P, Q
  <2>7. \A i \in 1..Len(Q) : i <= Len(A) \/ (i - Len(A) \in 1..Len(B) /\ i > Len(A))
    BY <2>2, <2>3, <2>4
  <2>8. \A i \in 1..Len(A) : Q[i] = P[i] /\ i \in 1..Len(P)
    BY <2>2, <2>3, <2>4
  <2>9. ASSUME NEW i \in 1..Len(Q), i > Len(A) PROVE i + 1 \in 1..Len(P) /\ Q[i] = P[i + 1]
    <3>0. Len(A) + (i - Len(A)) = i
        BY <2>3
    <3>1. i - Len(A) \in 1..Len(B) /\ Q[i] = B[i - Len(A)]
        BY <2>4, <2>7, <2>9, <3>0
    <3>2. B[i - Len(A)] = U[(i - Len(A)) + 1] /\ (i - Len(A)) + 1 \in 1..Len(U)
        BY <2>2, <3>1
    <3>3. P[Len(A) + ((i - Len(A)) + 1)] = U[(i - Len(A)) + 1] /\ Len(A) + ((i - Len(A)) + 1) = i + 1
        BY <2>3, <3>2
    <3> QED BY <2>2, <2>3, <2>4, <3>1, <3>2, <3>3
  <2>10. InOrder(Q)
    <3> SUFFICES ASSUME NEW i \in 1..Len(Q), NEW j \in 1..Len(Q), i < j, IsText(Q[i]), IsText(Q[j])
                 PROVE  Q[i].what < Q[j].what
        BY DEF InOrder
    <3>1. CASE j <= Len(A)
        BY <2>3, <2>5, <2>8, <3>1 DEF InOrder
    <3>2. CASE i <= Len(A) /\ j > Len(A)
      <4>1. i < j + 1
        BY <2>3, <3>2
      <4> QED BY <2>3, <2>5, <2>8, <2>9, <3>2, <4>1 DEF InOrder
    <3>3. CASE i > Len(A)
      <4>1. j > Len(A) /\ i + 1 < j + 1
        BY <2>3, <3>3
      <4> QED BY <2>5, <2>9, <3>3, <4>1 DEF InOrder
    <3> QED BY <2>3, <3>1, <3>2, <3>3
  <2>11. \A i \in 1..Len(Q) : IsText(Q[i]) => Q[i].what <= said'[t]
    BY <2>3, <2>5, <2>7, <2>8, <2>9
  <2>12. ASSUME t \notin cut', NEW n \in 1..said'[t] PROVE In(Text(n), Q)
    <3>1. In(Text(n), P) /\ ~IsText(Head(U)) /\ IsText(Text(n))
        BY <2>5, <2>6, <2>12, SaidFrames DEF IsText
    <3> QED BY <2>2, <2>3, <2>4, <3>1
  <2> QED BY <2>10, <2>11, <2>12 DEF OrderInv, Q
<1> QED BY <1>1, <1>2 DEF Took

-----------------------------------------------------------------------------
(* The life of a session's engine.                                           *)

\* The life of a session without a step of its own.
LEMMA LifeStill ==
    ASSUME NEW t \in Session, LifeInv(t), Unread(t)' = Unread(t), t \in live' <=> t \in live,
           t \in running' <=> t \in running, t \in ending' <=> t \in ending
    PROVE  LifeInv(t)'
BY DEF LifeInv, In

\* A running engine speaks, or exits with its last frame.
LEMMA LifePut ==
    ASSUME OutTypes, LifeTypes, NEW t \in Session, NEW f \in Frames, LifeInv(t), Put(t, f), t \in running,
           live' = live, ending' = ending, t \in running' <=> f # Exit
    PROVE  LifeInv(t)'
<1>1. /\ Unread(t) \in Seq(Frames) /\ Unread(t)' = Append(Unread(t), f)
      /\ t \in live /\ t \notin ending /\ ~In(Exit, Unread(t))
    BY PathTypes DEF Put, LifeTypes, LifeInv
<1>2. /\ Len(Unread(t)') = Len(Unread(t)) + 1 /\ Len(Unread(t)) \in Nat /\ Unread(t)'[Len(Unread(t)) + 1] = f
      /\ \A i \in 1..Len(Unread(t)) : Unread(t)'[i] = Unread(t)[i]
      /\ \A g : In(g, Unread(t)') <=> In(g, Unread(t)) \/ g = f
    BY <1>1, PutLast
<1>3. CASE f # Exit
  <2>1. ~In(Exit, Unread(t)') /\ t \in running'
    BY <1>1, <1>2, <1>3
  <2> QED BY <1>1, <2>1 DEF LifeInv
<1>4. CASE f = Exit
  <2>1. Unread(t)' # <<>>
    BY <1>1
  <2>2. \A i \in 1..Len(Unread(t)') : Unread(t)'[i] = Exit <=> i = Len(Unread(t)')
    BY <1>1, <1>2, <1>4 DEF In
  <2> QED BY <1>1, <1>4, <2>1, <2>2 DEF LifeInv
<1> QED BY <1>3, <1>4

\* A frame is forwarded: the exit is the last, and makes its session end.
LEMMA LifeTook ==
    ASSUME OutTypes, NEW t \in Session, LifeInv(t), Took(t), live' = live, running' = running,
           t \in ending' <=> t \in ending \/ (t \in live /\ Head(Unread(t)) = Exit)
    PROVE  LifeInv(t)'
<1> DEFINE U == Unread(t)
           V == Unread(t)'
<1>1. U \in Seq(Frames) /\ U # <<>> /\ V = Tail(U)
    BY PathTypes DEF Took
<1>2. /\ Len(U) \in Nat \ {0} /\ Len(V) = Len(U) - 1 /\ V \in Seq(Frames)
      /\ Head(U) = U[1] /\ \A i \in 1..Len(V) : V[i] = U[i + 1]
      /\ \A g : In(g, U) <=> In(g, V) \/ g = Head(U)
    BY <1>1, TakeFirst
<1>3. /\ t \in live
      /\ t \in running => t \notin ending /\ ~In(Exit, U)
      /\ t \notin running => t \notin ending /\ \A i \in 1..Len(U) : U[i] = Exit <=> i = Len(U)
    BY <1>1 DEF LifeInv
<1> HIDE DEF U
<1>4. CASE t \in running
  <2>1. t \notin ending' /\ ~In(Exit, V)
    BY <1>2, <1>3, <1>4 DEF U
  <2> QED BY <1>3, <1>4, <2>1 DEF LifeInv
<1>5. CASE t \notin running /\ Len(U) = 1
  <2>1. V = <<>> /\ Head(U) = Exit
    BY <1>2, <1>3, <1>5
  <2> QED BY <1>3, <1>5, <2>1 DEF LifeInv, U
<1>6. CASE t \notin running /\ Len(U) # 1
  <2>1. V # <<>> /\ Head(U) # Exit
    BY <1>2, <1>3, <1>6
  <2> HIDE DEF V
  <2>2. \A i \in 1..Len(V) : V[i] = Exit <=> i = Len(V)
    <3> SUFFICES ASSUME NEW i \in 1..Len(V) PROVE V[i] = Exit <=> i = Len(V)
        OBVIOUS
    <3>1. i + 1 \in 1..Len(U) /\ V[i] = U[i + 1] /\ (i + 1 = Len(U) <=> i = Len(V))
        BY <1>2
    <3> QED BY <1>3, <1>6, <3>1
  <2> QED BY <1>3, <1>6, <2>1, <2>2 DEF LifeInv, U, V
<1> QED BY <1>4, <1>5, <1>6

-----------------------------------------------------------------------------
(* The questions of a session.                                               *)

\* Fewer open questions, the same unread frames.
LEMMA IdleStill ==
    ASSUME NEW t \in Session, IdleInv(t), Unread(t)' = Unread(t), \A id \in Id : <<t, id>> \in open' => <<t, id>> \in open
    PROVE  IdleInv(t)'
BY DEF IdleInv

\* The engine idles only when no question is open; a question asked later is behind that frame.
LEMMA IdlePut ==
    ASSUME OutTypes, NEW t \in Session, NEW f \in Frames, IdleInv(t), Put(t, f),
           f = TurnIdle => \A id \in Id : <<t, id>> \notin open',
           \A id \in Id : <<t, id>> \in open' => <<t, id>> \in open \/ f = Ask(id)
    PROVE  IdleInv(t)'
<1> DEFINE U == Unread(t)
           V == Unread(t)'
<1>1. U \in Seq(Frames) /\ V = Append(U, f)
    BY PathTypes DEF Put
<1>2. Len(V) = Len(U) + 1 /\ Len(U) \in Nat /\ V[Len(U) + 1] = f /\ \A i \in 1..Len(U) : V[i] = U[i]
    BY <1>1, PutLast
<1>3. \A i \in 1..Len(U), id \in Id : U[i] = TurnIdle /\ <<t, id>> \in open => \E j \in i+1..Len(U) : U[j] = Ask(id)
    BY DEF IdleInv
<1> SUFFICES ASSUME NEW i \in 1..Len(V), NEW id \in Id, V[i] = TurnIdle, <<t, id>> \in open'
             PROVE  \E j \in i+1..Len(V) : V[j] = Ask(id)
    BY DEF IdleInv
<1> HIDE DEF U, V
<1>4. i \in 1..Len(U) /\ U[i] = TurnIdle
    BY <1>2
<1>5. CASE f = Ask(id)
    BY <1>2, <1>4, <1>5
<1>6. CASE f # Ask(id)
  <2>1. PICK j \in i+1..Len(U) : U[j] = Ask(id)
    BY <1>3, <1>4, <1>6
  <2>2. j \in i+1..Len(V) /\ V[j] = Ask(id)
    BY <1>2, <1>4, <2>1
  <2> QED BY <2>2
<1> QED BY <1>5, <1>6

\* A frame is forwarded: an idle frame further back keeps what is behind it.
LEMMA IdleTook ==
    ASSUME OutTypes, NEW t \in Session, IdleInv(t), Took(t), open' = open
    PROVE  IdleInv(t)'
<1> DEFINE U == Unread(t)
           V == Unread(t)'
<1>1. U \in Seq(Frames) /\ U # <<>> /\ V = Tail(U)
    BY PathTypes DEF Took
<1>2. Len(V) = Len(U) - 1 /\ Len(U) \in Nat \ {0} /\ \A i \in 1..Len(V) : V[i] = U[i + 1]
    BY <1>1, TakeFirst
<1>3. \A i \in 1..Len(U), id \in Id : U[i] = TurnIdle /\ <<t, id>> \in open => \E j \in i+1..Len(U) : U[j] = Ask(id)
    BY DEF IdleInv
<1> SUFFICES ASSUME NEW i \in 1..Len(V), NEW id \in Id, V[i] = TurnIdle, <<t, id>> \in open
             PROVE  \E j \in i+1..Len(V) : V[j] = Ask(id)
    BY DEF IdleInv
<1> HIDE DEF U, V
<1>4. i + 1 \in 1..Len(U) /\ U[i + 1] = TurnIdle
    BY <1>2
<1>5. PICK j \in (i+1)+1..Len(U) : U[j] = Ask(id)
    BY <1>3, <1>4
<1>6. j - 1 \in i+1..Len(V) /\ V[j - 1] = U[(j - 1) + 1] /\ (j - 1) + 1 = j
    BY <1>2, <1>4, <1>5
<1> QED BY <1>5, <1>6

\* A question is shown as before: what is unread, pending and on the page of it stays.
LEMMA ShownStill ==
    ASSUME NEW t \in Session, NEW id \in Id, Shown(t, id), asked \subseteq asked',
           <<t, id>> \in open' /\ Sole(t, id)' =>
             /\ <<t, id>> \in open
             /\ In(Ask(id), Unread(t)) => In(Ask(id), Unread(t)')
             /\ answer.asker = t /\ answer.id = id => answer'.asker = t /\ answer'.id = id
             /\ <<t, id>> \in permPending => <<t, id>> \in permPending'
             /\ <<t, id>> \in web /\ link' /\ t \notin resend' => <<t, id>> \in web'
             /\ link' /\ t \notin resend' => (link /\ t \notin resend) \/ <<t, id>> \in web'
    PROVE  Shown(t, id)'
<1>1. Sole(t, id)' => Sole(t, id)
    BY DEF Sole
<1> SUFFICES ASSUME <<t, id>> \in open', Sole(t, id)'
             PROVE  \/ In(Ask(id), Unread(t)') \/ (answer'.asker = t /\ answer'.id = id)
                    \/ <<t, id>> \in permPending' /\ (link' /\ t \notin resend' => <<t, id>> \in web')
    BY DEF Shown, In
<1>2. /\ <<t, id>> \in open
      /\ In(Ask(id), Unread(t)) => In(Ask(id), Unread(t)')
      /\ answer.asker = t /\ answer.id = id => answer'.asker = t /\ answer'.id = id
      /\ <<t, id>> \in permPending => <<t, id>> \in permPending'
      /\ <<t, id>> \in web /\ link' /\ t \notin resend' => <<t, id>> \in web'
      /\ link' /\ t \notin resend' => (link /\ t \notin resend) \/ <<t, id>> \in web'
    OBVIOUS
<1>3. \/ In(Ask(id), Unread(t)) \/ (answer.asker = t /\ answer.id = id)
      \/ <<t, id>> \in permPending /\ (link /\ t \notin resend => <<t, id>> \in web)
    BY <1>1, <1>2 DEF Shown
<1> QED BY <1>2, <1>3

-----------------------------------------------------------------------------
(* The steps of engines.                                                     *)

\* What an engine does beside its frame.
EngineEffects(s, f) ==
    /\ s \in running /\ spent < MaxEmits /\ spent' = spent + 1
    /\ UNCHANGED <<live, ending, permSessionMap, permPending, web, resend, link, cut, answer>>
    /\ running' = IF f = Exit THEN running \ {s} ELSE running
    /\ IF IsText(f) THEN f = Text(said[s] + 1) /\ said' = [said EXCEPT ![s] = @ + 1] ELSE said' = said
    /\ asked \subseteq asked' /\ \A q \in asked' : q \in asked \/ \E id \in Id : q = <<s, id>> /\ f = Ask(id)
    /\ \A id \in Id : f = Ask(id) => <<s, id>> \in asked'
    /\ \A q \in open' : q \in open \/ \E id \in Id : q = <<s, id>> /\ f = Ask(id)
    /\ f = Exit => \A q \in open' : q[1] # s
    /\ f = TurnIdle => \A q \in open' : q[1] # s

\* Each step of an engine is one frame and its effects.
LEMMA EngineStepEffects ==
    ASSUME LifeTypes, AskTypes, NEW s \in Session, EngineStep(s)
    PROVE  \E f \in Frames : Emit(s, f) /\ EngineEffects(s, f)
<1>0. /\ \A f : Emit(s, f) => /\ s \in running /\ spent < MaxEmits /\ spent' = spent + 1
                              /\ UNCHANGED <<live, ending, permSessionMap, permPending, web, resend, link, cut, answer>>
      /\ \A q \in open \cup asked : q \in Session \X Id
    BY DEF Emit, permVars, pageVars, AskTypes
<1>1. CASE EngineSays(s)
  <2> DEFINE f == Text(said[s] + 1)
  <2>1. /\ Emit(s, f) /\ said' = [said EXCEPT ![s] = @ + 1] /\ UNCHANGED <<running, open, asked>>
    BY <1>1 DEF EngineSays
  <2>2. said[s] + 1 \in 1..MaxEmits
    BY <1>0, <2>1, BridgeSessionsAssumption DEF LifeTypes
  <2>3. f \in Texts /\ f \in Frames /\ IsText(f) /\ f # Exit /\ f # TurnIdle /\ \A id \in Id : f # Ask(id)
    <3>1. f \in Texts /\ f \in Frames /\ f.kind = "text"
        BY <2>2, SaidFrames DEF Texts
    <3> QED BY <3>1, SaidFrames DEF IsText
  <2> HIDE DEF f
  <2> QED BY <1>0, <2>1, <2>3 DEF EngineEffects, f
<1>2. CASE EngineIdles(s)
  <2>1. /\ Of(s, open) = {} /\ Emit(s, TurnIdle) /\ UNCHANGED <<running, open, said, asked>>
    BY <1>2 DEF EngineIdles
  <2>2. ~IsText(TurnIdle) /\ TurnIdle # Exit /\ TurnIdle \in Frames /\ \A id \in Id : TurnIdle # Ask(id)
    BY SaidFrames DEF IsText
  <2>3. \A q \in open : q[1] # s
    BY <2>1 DEF Of
  <2> QED BY <1>0, <2>1, <2>2, <2>3 DEF EngineEffects
<1>3. CASE EngineExits(s)
  <2>1. /\ Emit(s, Exit) /\ running' = running \ {s} /\ open' = open \ Of(s, open) /\ UNCHANGED <<said, asked>>
    BY <1>3 DEF EngineExits
  <2>2. ~IsText(Exit) /\ TurnIdle # Exit /\ Exit \in Frames /\ \A id \in Id : Exit # Ask(id)
    BY SaidFrames DEF IsText
  <2>3. \A q \in open' : q \in open /\ q[1] # s
    BY <2>1 DEF Of
  <2> QED BY <1>0, <2>1, <2>2, <2>3 DEF EngineEffects
<1>4. CASE \E id \in Id : EngineAsks(s, id)
  <2>1. PICK id \in Id : EngineAsks(s, id)
    BY <1>4
  <2>2. /\ Emit(s, Ask(id)) /\ open' = open \cup {<<s, id>>} /\ asked' = asked \cup {<<s, id>>} /\ UNCHANGED <<running, said>>
    BY <2>1 DEF EngineAsks
  <2>3. ~IsText(Ask(id)) /\ Ask(id) # Exit /\ Ask(id) # TurnIdle /\ Ask(id) \in Frames /\ \A k \in Id : Ask(id) = Ask(k) => k = id
    BY SaidFrames DEF IsText
  <2> QED BY <1>0, <2>2, <2>3 DEF EngineEffects
<1> QED BY <1>1, <1>2, <1>3, <1>4 DEF EngineStep

\* No step of an engine breaks the invariant.
LEMMA EngineKeeps ==
    ASSUME SessionInv, NEW s \in Session, EngineStep(s)
    PROVE  SessionInv'
<1>0. OutTypes /\ LifeTypes /\ AskTypes /\ Flows /\ AskedInv /\ \A t \in Session \ reordered : OrderedInv(t)
    BY DEF SessionInv, SessionTypes, Flows
<1>1. PICK f \in Frames : Emit(s, f) /\ EngineEffects(s, f)
    BY <1>0, EngineStepEffects
<1>2. /\ OutTypes' /\ Flows' /\ reordered \subseteq reordered' /\ reordered' \subseteq Session
      /\ \A t \in Session : t # s => Still(t) /\ chan'[t] = chan[t] /\ stray'[t] = stray[t] /\ (t \in reordered' <=> t \in reordered)
      /\ s \notin reordered' => Put(s, f)
      /\ stray' = stray /\ \A g : In(g, chan'[s]) => In(g, chan[s]) \/ g = f
      /\ loose \subseteq loose' /\ loose' \subseteq loose \cup {<<s, f>>}
    BY <1>0, <1>1, EmitMoves
<1>3. LifeTypes'
  <2>1. /\ live' = live /\ running' \subseteq running /\ ending' = ending /\ resend' = resend /\ cut' = cut
        /\ spent' = spent + 1 /\ spent < MaxEmits
    BY <1>1 DEF EngineEffects
  <2>2. said' \in [Session -> 0..MaxEmits] /\ \A t \in Session : said'[t] <= spent'
    <3>1. CASE IsText(f)
      <4>1. said' = [said EXCEPT ![s] = said[s] + 1] /\ said[s] + 1 \in 0..MaxEmits
        BY <1>0, <1>1, <2>1, <3>1, BridgeSessionsAssumption DEF EngineEffects, LifeTypes
      <4> QED BY <1>0, <2>1, <4>1 DEF LifeTypes
    <3>2. CASE ~IsText(f)
        BY <1>0, <1>1, <2>1, <3>2 DEF EngineEffects, LifeTypes
    <3> QED BY <3>1, <3>2
  <2>3. spent' \in 0..MaxEmits
    BY <1>0, <2>1, BridgeSessionsAssumption DEF LifeTypes
  <2> QED BY <1>0, <1>2, <2>1, <2>2, <2>3 DEF LifeTypes
<1>4. AskTypes'
  <2>1. UNCHANGED <<permSessionMap, permPending, web, answer>>
    BY <1>1 DEF EngineEffects
  <2>2. open' \subseteq Session \X Id /\ asked' \subseteq Session \X Id
    BY <1>0, <1>1 DEF EngineEffects, AskTypes
  <2>3. \A q \in open' : q[1] \in running'
    BY <1>0, <1>1 DEF EngineEffects, AskTypes
  <2> QED BY <1>0, <2>1, <2>2, <2>3 DEF AskTypes
<1>5. AskedInv'
  <2>1. UNCHANGED <<permSessionMap, permPending, web, answer>> /\ asked \subseteq asked'
    BY <1>1 DEF EngineEffects
  <2>2. open' \subseteq asked'
    BY <1>0, <1>1 DEF EngineEffects, AskedInv
  <2>3. ASSUME NEW t \in Session, NEW id \in Id,
               In(Ask(id), stray'[t]) \/ In(Ask(id), chan'[t]) \/ <<t, Ask(id)>> \in loose'
        PROVE  <<t, id>> \in asked'
    <3>1. CASE t = s /\ f = Ask(id)
        BY <1>1, <3>1 DEF EngineEffects
    <3>2. CASE ~(t = s /\ f = Ask(id))
      <4>1. In(Ask(id), stray[t]) \/ In(Ask(id), chan[t]) \/ <<t, Ask(id)>> \in loose
        BY <1>2, <2>3, <3>2
      <4> QED BY <1>0, <2>1, <4>1 DEF AskedInv
    <3> QED BY <3>1, <3>2
  <2>4. \A t \in Session, id \in Id : In(Ask(id), stray[t])' \/ In(Ask(id), chan[t])' \/ <<t, Ask(id)>> \in loose' => <<t, id>> \in asked'
    BY <2>3 DEF In
  <2> QED BY <1>0, <2>1, <2>2, <2>4 DEF AskedInv
<1>6. ASSUME NEW t \in Session \ reordered' PROVE OrderedInv(t)'
  <2>1. t \notin reordered /\ OrderedInv(t) /\ cut' = cut /\ asked \subseteq asked'
    BY <1>0, <1>1, <1>2, <1>6 DEF EngineEffects
  <2>2. UNCHANGED <<permPending, web, link, resend, answer, live, ending>>
    BY <1>1 DEF EngineEffects
  <2>3. CASE t = s
    <3>1. Put(t, f) /\ t \in running
        BY <1>1, <1>2, <1>6, <2>3 DEF EngineEffects
    <3>2. OrderInv(t)'
      <4>1. IF IsText(f) THEN f = Text(said[t] + 1) /\ said'[t] = said[t] + 1 ELSE said'[t] = said[t]
        BY <1>0, <1>1, <2>3 DEF EngineEffects, LifeTypes
      <4> QED BY <1>0, <2>1, <3>1, <4>1, OrderPut DEF OrderedInv
    <3>3. t \notin cut' => LifeInv(t)'
      <4>1. t \in running' <=> f # Exit
        BY <1>1, <2>3 DEF EngineEffects
      <4> QED BY <1>0, <2>1, <2>2, <3>1, <4>1, LifePut DEF OrderedInv
    <3>4. IdleInv(t)'
      <4>1. f = TurnIdle => \A id \in Id : <<t, id>> \notin open'
        BY <1>1, <2>3 DEF EngineEffects
      <4>2. \A id \in Id : <<t, id>> \in open' => <<t, id>> \in open \/ f = Ask(id)
        BY <1>1, <2>3 DEF EngineEffects
      <4> QED BY <1>0, <2>1, <3>1, <4>1, <4>2, IdlePut DEF OrderedInv
    <3>5. ASSUME NEW id \in Id PROVE Shown(t, id)'
      <4>1. \A g : In(g, Unread(t)') <=> In(g, Unread(t)) \/ g = f
        BY <1>0, <3>1, PathTypes, PutLast DEF Put
      <4>2. CASE f = Ask(id)
        <5>1. In(Ask(id), Unread(t)')
            BY <4>1, <4>2
        <5> QED BY <5>1 DEF Shown, In
      <4>3. CASE f # Ask(id)
        <5>1. <<t, id>> \in open' => <<t, id>> \in open
            BY <1>1, <4>3 DEF EngineEffects
        <5>2. Shown(t, id)
            BY <2>1 DEF OrderedInv
        <5> QED BY <2>1, <2>2, <4>1, <5>1, <5>2, ShownStill
      <4> QED BY <4>2, <4>3
    <3> QED BY <3>2, <3>3, <3>4, <3>5 DEF OrderedInv
  <2>4. CASE t # s
    <3>1. Unread(t)' = Unread(t) /\ Path(t)' = Path(t)
        BY <1>2, <2>4 DEF Still
    <3>2. said'[t] = said[t] /\ (t \in running' <=> t \in running) /\ \A id \in Id : <<t, id>> \in open' => <<t, id>> \in open
        BY <1>0, <1>1, <2>4 DEF EngineEffects, LifeTypes
    <3>3. OrderInv(t)'
        BY <2>1, <3>1, <3>2, OrderStill DEF OrderedInv
    <3>4. t \notin cut' => LifeInv(t)'
        BY <2>1, <2>2, <3>1, <3>2, LifeStill DEF OrderedInv
    <3>5. IdleInv(t)'
        BY <2>1, <3>1, <3>2, IdleStill DEF OrderedInv
    <3>6. ASSUME NEW id \in Id PROVE Shown(t, id)'
      <4>1. Shown(t, id)
        BY <2>1 DEF OrderedInv
      <4> QED BY <2>1, <2>2, <3>1, <3>2, <4>1, ShownStill
    <3> QED BY <3>3, <3>4, <3>5, <3>6 DEF OrderedInv
  <2> QED BY <2>3, <2>4
<1> QED BY <1>2, <1>3, <1>4, <1>5, <1>6 DEF SessionInv, SessionTypes, Flows

-----------------------------------------------------------------------------
(* The steps of the output workers.                                          *)

\* forgetSessionPermissions drops what waits of one session, and none of another.
LEMMA Forgets ==
    ASSUME AskTypes, NEW s \in Session, ForgetSessionPermissions(s)
    PROVE  /\ permPending' \subseteq permPending /\ \A q \in permPending : q[1] # s => q \in permPending'
           /\ permSessionMap' \in [Id -> Session \cup {NoSession}]
           /\ \A id \in Id : permSessionMap'[id] \in {permSessionMap[id], NoSession}
BY DEF ForgetSessionPermissions, Of, AskTypes

\* forwardSessionOutput, from the channel, a retired worker's channel or a goroutine of its own.
LEMMA ForwardKeeps ==
    ASSUME SessionInv, NEW s \in Session,
           \/ WorkerForwards(s) \/ StrayForwards(s)
           \/ \E f \in {l[2] : l \in loose} : LooseForwards(s, f)
    PROVE  SessionInv'
<1>0. OutTypes /\ LifeTypes /\ AskTypes /\ Flows /\ AskedInv /\ \A t \in Session \ reordered : OrderedInv(t)
    BY DEF SessionInv, SessionTypes, Flows
<1>1. /\ OutTypes' /\ Flows' /\ reordered' = reordered /\ loose' \subseteq loose
      /\ \A t \in Session : t # s => Still(t) /\ chan'[t] = chan[t] /\ stray'[t] = stray[t]
      /\ \A g : In(g, chan'[s]) \/ In(g, stray'[s]) => In(g, chan[s]) \/ In(g, stray[s])
    BY <1>0, ForwardMoves
<1>2. PICK f \in Frames : /\ ForwardSessionOutput(s, f)
                          /\ In(f, chan[s]) \/ In(f, stray[s]) \/ <<s, f>> \in loose
                          /\ s \notin reordered => Took(s) /\ f = Head(Unread(s))
    BY <1>0, ForwardMoves
<1>3. UNCHANGED <<live, running, resend, link, spent, said, asked, cut, open, answer>>
    BY <1>2 DEF ForwardSessionOutput, countVars
<1>4. \A id \in Id : f = Ask(id) => <<s, id>> \in asked
    BY <1>0, <1>2 DEF AskedInv
\* what each kind of frame does to the questions
<1>5. /\ permSessionMap' \in [Id -> Session \cup {NoSession}]
      /\ \A id \in Id : permSessionMap'[id] \in {permSessionMap[id], NoSession} \/ (permSessionMap'[id] = s /\ f = Ask(id))
      /\ permPending' \cup web' \subseteq permPending \cup web \cup {q \in asked : q[1] = s}
      /\ permPending' \cup web' \subseteq Session \X Id
      /\ \A q \in permPending : q[1] # s \/ f # TurnIdle => q \in permPending'
      /\ web \subseteq web'
      /\ \A id \in Id : f = Ask(id) /\ s \in live => <<s, id>> \in permPending' /\ (link => <<s, id>> \in web')
      /\ ending' = IF s \in live /\ f = Exit THEN ending \cup {s} ELSE ending
  <2>0. /\ permSessionMap \in [Id -> Session \cup {NoSession}] /\ permPending \subseteq Session \X Id /\ web \subseteq Session \X Id
        /\ TurnIdle.kind = "idle" /\ Exit.kind = "exit" /\ \A id : Ask(id).kind = "ask" /\ Ask(id).what = id
    BY <1>0, SaidFrames DEF AskTypes
  <2>1. CASE s \notin live \/ f.kind = "text"
    <3>1. UNCHANGED <<permSessionMap, permPending, ending, web>>
        BY <1>2, <2>1, SaidFrames DEF ForwardSessionOutput, permVars
    <3> QED BY <2>0, <2>1, <3>1
  <2>2. CASE s \in live /\ f.kind = "ask"
    <3>1. PICK id \in Id : f = Ask(id) /\ f.what = id
        BY <2>2, SaidFrames
    <3>2. RegisterPermission(s, id) /\ ending' = ending
        BY <1>2, <2>0, <2>2, <3>1 DEF ForwardSessionOutput
    <3>3. /\ permSessionMap' = [permSessionMap EXCEPT ![id] = s] /\ permPending' = permPending \cup {<<s, id>>}
          /\ web' = IF link THEN web \cup {<<s, id>>} ELSE web
        BY <3>2 DEF RegisterPermission
    <3>4. <<s, id>> \in asked /\ <<s, id>> \in Session \X Id /\ f # Exit /\ f # TurnIdle /\ \A k \in Id : f = Ask(k) => k = id
        BY <1>4, <2>0, <3>1
    <3>5. permSessionMap' \in [Id -> Session \cup {NoSession}] /\ permSessionMap'[id] = s
        BY <2>0, <3>3
    <3>6. \A k \in Id : k # id => permSessionMap'[k] = permSessionMap[k]
        BY <2>0, <3>3
    <3>7. \A k \in Id : permSessionMap'[k] \in {permSessionMap[k], NoSession} \/ (permSessionMap'[k] = s /\ f = Ask(k))
      <4> SUFFICES ASSUME NEW k \in Id
                   PROVE  permSessionMap'[k] \in {permSessionMap[k], NoSession} \/ (permSessionMap'[k] = s /\ f = Ask(k))
        OBVIOUS
      <4>1. CASE k = id
        BY <3>1, <3>5, <4>1
      <4>2. CASE k # id
        BY <3>6, <4>2
      <4> QED BY <4>1, <4>2
    <3>8. /\ web \subseteq web' /\ web' \subseteq web \cup {<<s, id>>}
          /\ permPending \subseteq permPending' /\ permPending' \subseteq permPending \cup {<<s, id>>}
          /\ <<s, id>> \in permPending' /\ (link => <<s, id>> \in web')
        BY <3>3
    <3>9. permPending' \cup web' \subseteq permPending \cup web \cup {q \in asked : q[1] = s}
        BY <3>4, <3>8
    <3>10. permPending' \cup web' \subseteq Session \X Id
        BY <2>0, <3>4, <3>8
    <3>11. \A k \in Id : f = Ask(k) /\ s \in live => <<s, k>> \in permPending' /\ (link => <<s, k>> \in web')
        BY <3>4, <3>8
    <3> QED BY <2>2, <3>2, <3>4, <3>5, <3>7, <3>8, <3>9, <3>10, <3>11
  <2>3. CASE s \in live /\ f.kind = "idle"
    <3>1. ForgetSessionPermissions(s) /\ UNCHANGED <<ending, web>> /\ f = TurnIdle
        BY <1>2, <2>3, SaidFrames DEF ForwardSessionOutput
    <3> QED BY <1>0, <2>0, <2>3, <3>1, Forgets
  <2>4. CASE s \in live /\ f.kind = "exit"
    <3>1. UNCHANGED <<permSessionMap, permPending, web>> /\ ending' = ending \cup {s} /\ f = Exit
        BY <1>2, <2>4, SaidFrames DEF ForwardSessionOutput, permVars
    <3> QED BY <2>0, <2>4, <3>1
  <2> QED BY <2>1, <2>2, <2>3, <2>4, SaidFrames
<1>6. LifeTypes'
    BY <1>0, <1>1, <1>3, <1>5 DEF LifeTypes
<1>7. AskTypes'
    BY <1>0, <1>3, <1>5 DEF AskTypes
<1>8. AskedInv'
  <2>1. permPending' \subseteq asked' /\ web' \subseteq asked' /\ open' \subseteq asked'
    BY <1>0, <1>3, <1>5 DEF AskedInv
  <2>2. \A id \in Id : permSessionMap'[id] # NoSession => <<permSessionMap'[id], id>> \in asked'
    BY <1>0, <1>3, <1>4, <1>5 DEF AskedInv
  <2>3. ASSUME NEW t \in Session, NEW id \in Id,
               In(Ask(id), stray'[t]) \/ In(Ask(id), chan'[t]) \/ <<t, Ask(id)>> \in loose'
        PROVE  <<t, id>> \in asked'
    <3>1. In(Ask(id), stray[t]) \/ In(Ask(id), chan[t]) \/ <<t, Ask(id)>> \in loose
        BY <1>1, <2>3
    <3> QED BY <1>0, <1>3, <3>1 DEF AskedInv
  <2>4. \A t \in Session, id \in Id : In(Ask(id), stray[t])' \/ In(Ask(id), chan[t])' \/ <<t, Ask(id)>> \in loose' => <<t, id>> \in asked'
    BY <2>3 DEF In
  <2> QED BY <1>0, <1>3, <2>1, <2>2, <2>4 DEF AskedInv
<1>9. ASSUME NEW t \in Session \ reordered' PROVE OrderedInv(t)'
  <2>1. t \notin reordered /\ OrderedInv(t)
    BY <1>0, <1>1, <1>9
  <2>2. CASE t = s
    <3>1. Took(t) /\ f = Head(Unread(t))
        BY <1>2, <2>1, <2>2
    <3>2. OrderInv(t)'
        BY <1>0, <1>3, <2>1, <3>1, OrderTook DEF OrderedInv
    <3>3. t \notin cut' => LifeInv(t)'
      <4>1. t \in ending' <=> t \in ending \/ (t \in live /\ Head(Unread(t)) = Exit)
        BY <1>5, <2>2, <3>1
      <4> QED BY <1>0, <1>3, <2>1, <3>1, <4>1, LifeTook DEF OrderedInv
    <3>4. IdleInv(t)'
        BY <1>0, <1>3, <2>1, <3>1, IdleTook DEF OrderedInv
    <3>5. ASSUME NEW id \in Id, <<t, id>> \in open, Sole(t, id) PROVE Shown(t, id)'
      <4>1. Unread(t) \in Seq(Frames) /\ Unread(t) # <<>> /\ Unread(t)' = Tail(Unread(t))
        BY <1>0, <3>1, PathTypes DEF Took
      <4>2. \A g : In(g, Unread(t)) <=> In(g, Unread(t)') \/ g = f
        BY <3>1, <4>1, TakeFirst
      <4>3. CASE f = Ask(id)
        <5>1. t \in live
            BY <1>0, <3>5 DEF AskTypes, LifeTypes
        <5>2. <<t, id>> \in permPending' /\ (link' => <<t, id>> \in web')
            BY <1>3, <1>5, <2>2, <4>3, <5>1
        <5> QED BY <5>2 DEF Shown
      <4>4. CASE f = TurnIdle
        <5>1. /\ Len(Unread(t)) \in Nat \ {0} /\ Unread(t)[1] = TurnIdle /\ Len(Unread(t)') = Len(Unread(t)) - 1
              /\ \A i \in 1..Len(Unread(t)') : Unread(t)'[i] = Unread(t)[i + 1]
            BY <3>1, <4>1, <4>4, TakeFirst
        <5>2. PICK j \in 1+1..Len(Unread(t)) : Unread(t)[j] = Ask(id)
            BY <2>1, <3>5, <5>1 DEF OrderedInv, IdleInv
        <5>3. j - 1 \in 1..Len(Unread(t)') /\ Unread(t)'[j - 1] = Unread(t)[(j - 1) + 1] /\ (j - 1) + 1 = j
            BY <5>1, <5>2
        <5>4. In(Ask(id), Unread(t)')
            BY <5>2, <5>3 DEF In
        <5> QED BY <5>4 DEF Shown, In
      <4>5. CASE f # Ask(id) /\ f # TurnIdle
        <5>1. Shown(t, id) /\ In(Ask(id), Unread(t)) => In(Ask(id), Unread(t)')
            BY <2>1, <4>2, <4>5 DEF OrderedInv
        <5>2. /\ <<t, id>> \in permPending => <<t, id>> \in permPending'
              /\ <<t, id>> \in web => <<t, id>> \in web'
            BY <1>5, <4>5
        <5>3. Shown(t, id)
            BY <2>1 DEF OrderedInv
        <5> QED BY <1>3, <5>1, <5>2, <5>3, ShownStill
      <4> QED BY <4>3, <4>4, <4>5
    <3>6. ASSUME NEW id \in Id PROVE Shown(t, id)'
      <4>1. <<t, id>> \in open' /\ Sole(t, id)' => <<t, id>> \in open /\ Sole(t, id)
        BY <1>3 DEF Sole
      <4> QED BY <3>5, <4>1 DEF Shown
    <3> QED BY <3>2, <3>3, <3>4, <3>6 DEF OrderedInv
  <2>3. CASE t # s
    <3>1. Unread(t)' = Unread(t) /\ Path(t)' = Path(t)
        BY <1>1, <2>3 DEF Still
    <3>2. t \in ending' <=> t \in ending
        BY <1>5, <2>3
    <3>3. OrderInv(t)'
        BY <1>3, <2>1, <3>1, OrderStill DEF OrderedInv
    <3>4. t \notin cut' => LifeInv(t)'
        BY <1>3, <2>1, <3>1, <3>2, LifeStill DEF OrderedInv
    <3>5. IdleInv(t)'
        BY <1>3, <2>1, <3>1, IdleStill DEF OrderedInv
    <3>6. ASSUME NEW id \in Id PROVE Shown(t, id)'
      <4>1. Shown(t, id)
        BY <2>1 DEF OrderedInv
      <4>2. /\ <<t, id>> \in permPending => <<t, id>> \in permPending'
            /\ <<t, id>> \in web => <<t, id>> \in web'
        BY <1>5, <2>3
      <4> QED BY <1>3, <3>1, <4>1, <4>2, ShownStill
    <3> QED BY <3>3, <3>4, <3>5, <3>6 DEF OrderedInv
  <2> QED BY <2>2, <2>3
<1> QED BY <1>1, <1>6, <1>7, <1>8, <1>9 DEF SessionInv, SessionTypes, Flows

-----------------------------------------------------------------------------
(* The steps that leave frames alone, or in their order.                     *)

\* What such a step has to leave in place.
LEMMA QuietKeeps ==
    ASSUME SessionInv, OutTypes', Flows', UNCHANGED <<reordered, said, asked>>,
           \A t \in Session : Still(t), loose' = loose,
           \A t \in Session : \A g : In(g, chan'[t]) \/ In(g, stray'[t]) => In(g, chan[t]) \/ In(g, stray[t]),
           LifeTypes', AskTypes', cut \subseteq cut', open' \subseteq open,
           permPending' \subseteq asked, web' \subseteq asked,
           \A id \in Id : permSessionMap'[id] \in {permSessionMap[id], NoSession},
           answer'.to # NoSession => <<answer'.to, answer'.id>> \in asked,
           \A t \in Session \ cut' : LifeInv(t) => LifeInv(t)',
           \A t \in Session, id \in Id : <<t, id>> \in open' /\ Sole(t, id) =>
             /\ answer.asker = t /\ answer.id = id => answer'.asker = t /\ answer'.id = id
             /\ <<t, id>> \in permPending => <<t, id>> \in permPending' \/ (answer'.asker = t /\ answer'.id = id)
             /\ <<t, id>> \in permPending' =>
                  /\ <<t, id>> \in web /\ link' /\ t \notin resend' => <<t, id>> \in web' \/ (answer'.asker = t /\ answer'.id = id)
                  /\ link' /\ t \notin resend' => (link /\ t \notin resend) \/ <<t, id>> \in web'
    PROVE  SessionInv'
<1>0. OutTypes /\ LifeTypes /\ AskTypes /\ Flows /\ AskedInv /\ \A t \in Session \ reordered : OrderedInv(t)
    BY DEF SessionInv, SessionTypes, Flows
<1>1. AskedInv'
  <2>1. \A t \in Session, id \in Id : In(Ask(id), stray[t])' \/ In(Ask(id), chan[t])' \/ <<t, Ask(id)>> \in loose' =>
          In(Ask(id), stray[t]) \/ In(Ask(id), chan[t]) \/ <<t, Ask(id)>> \in loose
    BY DEF In
  <2>2. \A t \in Session, id \in Id : In(Ask(id), stray[t])' \/ In(Ask(id), chan[t])' \/ <<t, Ask(id)>> \in loose' => <<t, id>> \in asked'
    BY <1>0, <2>1 DEF AskedInv
  <2>3. \A id \in Id : permSessionMap'[id] # NoSession => <<permSessionMap'[id], id>> \in asked'
    BY <1>0 DEF AskedInv
  <2>4. permPending' \subseteq asked' /\ web' \subseteq asked' /\ open' \subseteq asked'
    BY <1>0 DEF AskedInv
  <2> QED BY <2>2, <2>3, <2>4 DEF AskedInv
<1>2. ASSUME NEW t \in Session \ reordered' PROVE OrderedInv(t)'
  <2>1. OrderedInv(t) /\ Unread(t)' = Unread(t) /\ Path(t)' = Path(t)
    BY <1>0, <1>2 DEF Still
  <2>2. OrderInv(t)'
    BY <2>1, OrderStill DEF OrderedInv
  <2>3. t \notin cut' => LifeInv(t)'
    BY <2>1 DEF OrderedInv
  <2>4. IdleInv(t)'
    BY <2>1, IdleStill DEF OrderedInv
  <2>5. ASSUME NEW id \in Id, <<t, id>> \in open', Sole(t, id)' PROVE Shown(t, id)'
    <3>1. Sole(t, id) /\ Shown(t, id)
        BY <2>1, <2>5 DEF OrderedInv, Sole
    <3>2. \/ In(Ask(id), Unread(t)) \/ (answer.asker = t /\ answer.id = id)
          \/ <<t, id>> \in permPending /\ (link /\ t \notin resend => <<t, id>> \in web)
        BY <2>5, <3>1 DEF Shown
    <3>3. CASE In(Ask(id), Unread(t))
        BY <2>1, <3>3 DEF Shown, In
    <3>4. CASE answer.asker = t /\ answer.id = id
        BY <2>5, <3>1, <3>4 DEF Shown
    <3>5. CASE <<t, id>> \in permPending /\ (link /\ t \notin resend => <<t, id>> \in web)
        BY <2>5, <3>1, <3>5 DEF Shown
    <3> QED BY <3>2, <3>3, <3>4, <3>5
  <2>6. \A id \in Id : Shown(t, id)'
    BY <2>5 DEF Shown
  <2> QED BY <2>2, <2>3, <2>4, <2>6 DEF OrderedInv
<1> QED BY <1>1, <1>2 DEF SessionInv, SessionTypes, Flows

\* A worker that leaves or retires, and a flush.
LEMMA WorkerKeeps ==
    ASSUME SessionInv, NEW s \in Session,
           WorkerLeaves(s) \/ WorkerRetires(s) \/ \E n \in 1..Len(batch[s]) : DoFlush(s, n)
    PROVE  SessionInv'
<1>0. OutTypes /\ LifeTypes /\ AskTypes /\ Flows /\ AskedInv
    BY DEF SessionInv, SessionTypes, Flows
<1>1. UNCHANGED <<permVars, lifeVars, pageVars, countVars, open, answer, reordered>>
    BY DEF WorkerLeaves, WorkerRetires, DoFlush
<1>2. /\ OutTypes' /\ Flows' /\ \A t \in Session : Still(t)
      /\ loose' = loose /\ \A t \in Session : \A g : In(g, chan'[t]) \/ In(g, stray'[t]) => In(g, chan[t]) \/ In(g, stray[t])
    BY <1>0, WorkerMoves
<1>3. LifeTypes' /\ AskTypes'
    BY <1>0, <1>1 DEF LifeTypes, AskTypes, permVars, lifeVars, pageVars, countVars
<1>4. UNCHANGED <<permSessionMap, permPending, live, running, ending, web, resend, link, said, asked, cut, open, answer, reordered>>
    BY <1>1 DEF permVars, lifeVars, pageVars, countVars
<1>5. \A t \in Session : LifeInv(t) => LifeInv(t)'
    BY <1>2, <1>4, LifeStill DEF Still
<1>6. /\ permPending' \subseteq asked /\ web' \subseteq asked
      /\ \A id \in Id : permSessionMap'[id] \in {permSessionMap[id], NoSession}
      /\ answer'.to # NoSession => <<answer'.to, answer'.id>> \in asked
    BY <1>0, <1>4 DEF AskedInv
<1> QED BY <1>2, <1>3, <1>4, <1>5, <1>6, QuietKeeps

-----------------------------------------------------------------------------
(* The handlers of the page's messages and what runs beside them.            *)

\* No frame moves.
LEMMA FramesStay ==
    ASSUME SessionInv, UNCHANGED <<outVars, textVars, reordered>>
    PROVE  /\ OutTypes' /\ Flows' /\ \A t \in Session : Still(t)
           /\ loose' = loose /\ \A t \in Session : \A g : In(g, chan'[t]) \/ In(g, stray'[t]) => In(g, chan[t]) \/ In(g, stray[t])
<1>1. UNCHANGED <<chan, worker, stray, loose, batch, sent, reordered>>
    BY DEF outVars, textVars
<1>2. OutTypes' /\ Flows'
    BY <1>1 DEF SessionInv, SessionTypes, OutTypes, Flows, FlowInv
<1>3. \A t \in Session : Still(t)
    BY <1>1, StaysStill
<1> QED BY <1>1, <1>2, <1>3

\* The life of the sessions a step does not touch.
LEMMA LivesStay ==
    ASSUME NEW t \in Session, Still(t), t \in live' <=> t \in live,
           t \in running' <=> t \in running, t \in ending' <=> t \in ending
    PROVE  LifeInv(t) => LifeInv(t)'
BY LifeStill DEF Still

\* The session of an engine that exited is stopped: nothing of it was unread, or it is a new engine that is cut.
LEMMA StopExitedKeeps ==
    ASSUME SessionInv, NEW s \in Session, StopExited(s)
    PROVE  SessionInv'
<1>0. OutTypes /\ LifeTypes /\ AskTypes /\ Flows /\ AskedInv
    BY DEF SessionInv, SessionTypes, Flows
<1>1. /\ s \in ending /\ ending' = ending \ {s} /\ cut' = IF s \in running THEN cut \cup {s} ELSE cut
      /\ live' = live \ {s} /\ running' = running \ {s} /\ open' = open \ Of(s, open)
      /\ UNCHANGED <<permSessionMap, permPending, web, resend, link, spent, said, asked, answer, reordered>>
      /\ UNCHANGED <<outVars, textVars, reordered>>
    BY DEF StopExited, permVars, pageVars
<1>2. /\ OutTypes' /\ Flows' /\ \A t \in Session : Still(t)
      /\ loose' = loose /\ \A t \in Session : \A g : In(g, chan'[t]) \/ In(g, stray'[t]) => In(g, chan[t]) \/ In(g, stray[t])
    BY <1>1, FramesStay
<1>3. LifeTypes'
    BY <1>0, <1>1 DEF LifeTypes
<1>4. AskTypes'
    BY <1>0, <1>1 DEF AskTypes, Of
<1>5. ASSUME NEW t \in Session \ cut', LifeInv(t) PROVE LifeInv(t)'
  <2>1. CASE t = s
    <3>1. t \notin running /\ t \in live /\ Unread(t) = <<>>
        BY <1>1, <1>5, <2>1 DEF LifeInv
    <3>2. t \notin live' /\ t \notin ending' /\ t \notin running' /\ Unread(t)' = <<>>
        BY <1>1, <1>2, <2>1, <3>1 DEF Still
    <3> QED BY <3>2 DEF LifeInv
  <2>2. CASE t # s
    BY <1>1, <1>2, <1>5, <2>2, LivesStay
  <2> QED BY <2>1, <2>2
<1>6. /\ permPending' \subseteq asked /\ web' \subseteq asked
      /\ \A id \in Id : permSessionMap'[id] \in {permSessionMap[id], NoSession}
      /\ answer'.to # NoSession => <<answer'.to, answer'.id>> \in asked
      /\ cut \subseteq cut' /\ open' \subseteq open
    BY <1>0, <1>1 DEF AskedInv
<1> QED BY <1>1, <1>2, <1>3, <1>4, <1>5, <1>6, QuietKeeps

\* The user stops a session: what is unread is cut.
LEMMA StopKeeps ==
    ASSUME SessionInv, NEW s \in Session, HandleSessionStop(s)
    PROVE  SessionInv'
<1>0. OutTypes /\ LifeTypes /\ AskTypes /\ Flows /\ AskedInv
    BY DEF SessionInv, SessionTypes, Flows
<1>1. /\ cut' = cut \cup {s} /\ live' = live \ {s} /\ running' = running \ {s} /\ open' = open \ Of(s, open)
      /\ ForgetSessionPermissions(s)
      /\ UNCHANGED <<ending, web, resend, link, spent, said, asked, answer, reordered>>
      /\ UNCHANGED <<outVars, textVars, reordered>>
    BY DEF HandleSessionStop, pageVars
<1>2. /\ OutTypes' /\ Flows' /\ \A t \in Session : Still(t)
      /\ loose' = loose /\ \A t \in Session : \A g : In(g, chan'[t]) \/ In(g, stray'[t]) => In(g, chan[t]) \/ In(g, stray[t])
    BY <1>1, FramesStay
<1>3. /\ permPending' \subseteq permPending /\ \A q \in permPending : q[1] # s => q \in permPending'
      /\ permSessionMap' \in [Id -> Session \cup {NoSession}]
      /\ \A id \in Id : permSessionMap'[id] \in {permSessionMap[id], NoSession}
    BY <1>0, <1>1, Forgets
<1>4. LifeTypes'
    BY <1>0, <1>1 DEF LifeTypes
<1>5. AskTypes'
    BY <1>0, <1>1, <1>3 DEF AskTypes, Of
<1>6. ASSUME NEW t \in Session \ cut', LifeInv(t) PROVE LifeInv(t)'
    BY <1>1, <1>2, <1>6, LivesStay
<1>7. /\ permPending' \subseteq asked /\ web' \subseteq asked
      /\ answer'.to # NoSession => <<answer'.to, answer'.id>> \in asked
      /\ cut \subseteq cut' /\ open' \subseteq open
    BY <1>0, <1>1, <1>3 DEF AskedInv
<1>8. \A t \in Session, id \in Id : <<t, id>> \in open' /\ <<t, id>> \in permPending => <<t, id>> \in permPending'
    BY <1>1, <1>3 DEF Of
<1> QED BY <1>1, <1>2, <1>3, <1>4, <1>5, <1>6, <1>7, <1>8, QuietKeeps

\* A cancel forgets the questions that its engine drops.
LEMMA CancelKeeps ==
    ASSUME SessionInv, NEW s \in Session, HandleSessionCancel(s)
    PROVE  SessionInv'
<1>0. OutTypes /\ LifeTypes /\ AskTypes /\ Flows /\ AskedInv
    BY DEF SessionInv, SessionTypes, Flows
<1>1. /\ open' = open \ Of(s, open) /\ ForgetSessionPermissions(s)
      /\ UNCHANGED <<live, running, ending, web, resend, link, spent, said, asked, cut, answer, reordered>>
      /\ UNCHANGED <<outVars, textVars, reordered>>
    BY DEF HandleSessionCancel, lifeVars, pageVars, countVars
<1>2. /\ OutTypes' /\ Flows' /\ \A t \in Session : Still(t)
      /\ loose' = loose /\ \A t \in Session : \A g : In(g, chan'[t]) \/ In(g, stray'[t]) => In(g, chan[t]) \/ In(g, stray[t])
    BY <1>1, FramesStay
<1>3. /\ permPending' \subseteq permPending /\ \A q \in permPending : q[1] # s => q \in permPending'
      /\ permSessionMap' \in [Id -> Session \cup {NoSession}]
      /\ \A id \in Id : permSessionMap'[id] \in {permSessionMap[id], NoSession}
    BY <1>0, <1>1, Forgets
<1>4. LifeTypes'
    BY <1>0, <1>1 DEF LifeTypes
<1>5. AskTypes'
    BY <1>0, <1>1, <1>3 DEF AskTypes, Of
<1>6. ASSUME NEW t \in Session \ cut', LifeInv(t) PROVE LifeInv(t)'
    BY <1>1, <1>2, <1>6, LivesStay
<1>7. /\ permPending' \subseteq asked /\ web' \subseteq asked
      /\ answer'.to # NoSession => <<answer'.to, answer'.id>> \in asked
      /\ cut \subseteq cut' /\ open' \subseteq open
    BY <1>0, <1>1, <1>3 DEF AskedInv
<1>8. \A t \in Session, id \in Id : <<t, id>> \in open' /\ <<t, id>> \in permPending => <<t, id>> \in permPending'
    BY <1>1, <1>3 DEF Of
<1> QED BY <1>1, <1>2, <1>3, <1>4, <1>5, <1>6, <1>7, <1>8, QuietKeeps

\* A session that is started again finds its pipe empty, and a re-send owed.
LEMMA StartKeeps ==
    ASSUME SessionInv, NEW s \in Session, HandleSessionStart(s)
    PROVE  SessionInv'
<1>0. OutTypes /\ LifeTypes /\ AskTypes /\ Flows /\ AskedInv
    BY DEF SessionInv, SessionTypes, Flows
<1>1. /\ s \notin live /\ spent < MaxEmits /\ spent' = spent + 1
      /\ live' = live \cup {s} /\ running' = running \cup {s} /\ resend' = resend \cup {s}
      /\ UNCHANGED <<permSessionMap, permPending, ending, web, link, said, asked, cut, open, answer, reordered>>
      /\ UNCHANGED <<outVars, textVars, reordered>>
    BY DEF HandleSessionStart, permVars
<1>2. /\ OutTypes' /\ Flows' /\ \A t \in Session : Still(t)
      /\ loose' = loose /\ \A t \in Session : \A g : In(g, chan'[t]) \/ In(g, stray'[t]) => In(g, chan[t]) \/ In(g, stray[t])
    BY <1>1, FramesStay
<1>4. LifeTypes'
  <2>1. MaxEmits \in Nat /\ spent \in 0..MaxEmits /\ spent' \in 0..MaxEmits
    BY <1>0, <1>1, BridgeSessionsAssumption DEF LifeTypes
  <2>2. \A t \in Session : said'[t] <= spent'
    BY <1>0, <1>1, <2>1 DEF LifeTypes
  <2> QED BY <1>0, <1>1, <2>1, <2>2 DEF LifeTypes
<1>5. AskTypes'
    BY <1>0, <1>1 DEF AskTypes
<1>6. ASSUME NEW t \in Session \ cut', LifeInv(t) PROVE LifeInv(t)'
  <2>1. CASE t = s
    <3>1. t \notin ending /\ Unread(t) = <<>>
        BY <1>1, <1>6, <2>1 DEF LifeInv
    <3>2. t \in live' /\ t \in running' /\ t \notin ending' /\ Unread(t)' = <<>>
        BY <1>1, <1>2, <2>1, <3>1 DEF Still
    <3>3. ~In(Exit, Unread(t)')
        BY <3>2 DEF In
    <3> QED BY <3>2, <3>3 DEF LifeInv, In
  <2>2. CASE t # s
    BY <1>1, <1>2, <1>6, <2>2, LivesStay
  <2> QED BY <2>1, <2>2
<1>7. /\ permPending' \subseteq asked /\ web' \subseteq asked
      /\ \A id \in Id : permSessionMap'[id] \in {permSessionMap[id], NoSession}
      /\ answer'.to # NoSession => <<answer'.to, answer'.id>> \in asked
      /\ cut \subseteq cut' /\ open' \subseteq open
    BY <1>0, <1>1 DEF AskedInv
<1> QED BY <1>1, <1>2, <1>4, <1>5, <1>6, <1>7, QuietKeeps

\* A new page shows nothing of the session, and a re-send is owed.
LEMMA ResumeKeeps ==
    ASSUME SessionInv, NEW s \in Session, HandleSessionResume(s)
    PROVE  SessionInv'
<1>0. OutTypes /\ LifeTypes /\ AskTypes /\ Flows /\ AskedInv
    BY DEF SessionInv, SessionTypes, Flows
<1>1. /\ web' = web \ Of(s, web) /\ resend' = resend \cup {s}
      /\ UNCHANGED <<permSessionMap, permPending, live, running, ending, link, spent, said, asked, cut, open, answer, reordered>>
      /\ UNCHANGED <<outVars, textVars, reordered>>
    BY DEF HandleSessionResume, permVars, lifeVars, countVars
<1>2. /\ OutTypes' /\ Flows' /\ \A t \in Session : Still(t)
      /\ loose' = loose /\ \A t \in Session : \A g : In(g, chan'[t]) \/ In(g, stray'[t]) => In(g, chan[t]) \/ In(g, stray[t])
    BY <1>1, FramesStay
<1>4. LifeTypes'
    BY <1>0, <1>1 DEF LifeTypes
<1>5. AskTypes'
    BY <1>0, <1>1 DEF AskTypes
<1>6. ASSUME NEW t \in Session \ cut', LifeInv(t) PROVE LifeInv(t)'
    BY <1>1, <1>2, <1>6, LivesStay
<1>7. /\ permPending' \subseteq asked /\ web' \subseteq asked
      /\ \A id \in Id : permSessionMap'[id] \in {permSessionMap[id], NoSession}
      /\ answer'.to # NoSession => <<answer'.to, answer'.id>> \in asked
      /\ cut \subseteq cut' /\ open' \subseteq open
    BY <1>0, <1>1 DEF AskedInv
<1>8. \A t \in Session, id \in Id : <<t, id>> \in web /\ t \notin resend' => <<t, id>> \in web' /\ t \notin resend
    BY <1>1 DEF Of
<1> QED BY <1>1, <1>2, <1>4, <1>5, <1>6, <1>7, <1>8, QuietKeeps

\* A re-send shows every pending question of its session and drops those of sessions that are gone.
LEMMA ResendKeeps ==
    ASSUME SessionInv, NEW s \in Session, ResendPendingPermissions(s)
    PROVE  SessionInv'
<1>0. OutTypes /\ LifeTypes /\ AskTypes /\ Flows /\ AskedInv
    BY DEF SessionInv, SessionTypes, Flows
<1>1. /\ resend' = resend \ {s} /\ permPending' = {q \in permPending : q[1] \in live}
      /\ permSessionMap' = [id \in Id |-> IF \E t \in Session \ live : permSessionMap[id] = t /\ <<t, id>> \in permPending
                                            THEN NoSession ELSE permSessionMap[id]]
      /\ web' = IF link THEN web \cup {q \in permPending : q[1] = s /\ s \in live} ELSE web
      /\ UNCHANGED <<live, running, ending, link, spent, said, asked, cut, open, answer, reordered>>
      /\ UNCHANGED <<outVars, textVars, reordered>>
    BY DEF ResendPendingPermissions, lifeVars, countVars
<1>2. /\ OutTypes' /\ Flows' /\ \A t \in Session : Still(t)
      /\ loose' = loose /\ \A t \in Session : \A g : In(g, chan'[t]) \/ In(g, stray'[t]) => In(g, chan[t]) \/ In(g, stray[t])
    BY <1>1, FramesStay
<1>3. /\ permSessionMap' \in [Id -> Session \cup {NoSession}]
      /\ \A id \in Id : permSessionMap'[id] \in {permSessionMap[id], NoSession}
    BY <1>0, <1>1 DEF AskTypes
<1>4. LifeTypes'
    BY <1>0, <1>1 DEF LifeTypes
<1>a. web \subseteq web' /\ web' \subseteq web \cup permPending /\ permPending' \subseteq permPending
    BY <1>1
<1>5. AskTypes'
    BY <1>0, <1>1, <1>3, <1>a DEF AskTypes
<1>6. ASSUME NEW t \in Session \ cut', LifeInv(t) PROVE LifeInv(t)'
    BY <1>1, <1>2, <1>6, LivesStay
<1>7. /\ permPending' \subseteq asked /\ web' \subseteq asked
      /\ answer'.to # NoSession => <<answer'.to, answer'.id>> \in asked
      /\ cut \subseteq cut' /\ open' \subseteq open
    BY <1>0, <1>1, <1>a DEF AskedInv
<1>8. ASSUME NEW t \in Session, NEW id \in Id, <<t, id>> \in open', Sole(t, id)
      PROVE  /\ <<t, id>> \in permPending => <<t, id>> \in permPending'
             /\ <<t, id>> \in permPending' /\ link' /\ t \notin resend' => (link /\ t \notin resend) \/ <<t, id>> \in web'
  <2>1. t \in live
    BY <1>0, <1>1, <1>8 DEF AskTypes, LifeTypes
  <2> QED BY <1>1, <2>1
<1> QED BY <1>1, <1>2, <1>3, <1>4, <1>5, <1>6, <1>7, <1>8, <1>a, QuietKeeps

\* While the link is down nothing is promised; when it returns every session is owed a re-send.
LEMMA LinkKeeps ==
    ASSUME SessionInv, LinkChanges
    PROVE  SessionInv'
<1>0. OutTypes /\ LifeTypes /\ AskTypes /\ Flows /\ AskedInv
    BY DEF SessionInv, SessionTypes, Flows
<1>1. /\ UNCHANGED <<permSessionMap, permPending, live, running, ending, web, said, asked, cut, open, answer, reordered>>
      /\ UNCHANGED <<outVars, textVars, reordered>>
    BY DEF LinkChanges, permVars, lifeVars
<1>2. /\ OutTypes' /\ Flows' /\ \A t \in Session : Still(t)
      /\ loose' = loose /\ \A t \in Session : \A g : In(g, chan'[t]) \/ In(g, stray'[t]) => In(g, chan[t]) \/ In(g, stray[t])
    BY <1>1, FramesStay
<1>3. \/ link' = FALSE /\ spent < MaxEmits /\ spent' = spent + 1 /\ resend' = resend
      \/ link' = TRUE /\ resend' = Session /\ spent' = spent
    BY DEF LinkChanges, LinkReturns
<1>4. LifeTypes'
  <2>1. MaxEmits \in Nat /\ spent \in 0..MaxEmits /\ spent' \in 0..MaxEmits /\ spent <= spent'
    BY <1>0, <1>3, BridgeSessionsAssumption DEF LifeTypes
  <2>2. \A t \in Session : said'[t] <= spent'
    BY <1>0, <1>1, <2>1 DEF LifeTypes
  <2> QED BY <1>0, <1>1, <1>3, <2>1, <2>2 DEF LifeTypes
<1>5. AskTypes'
    BY <1>0, <1>1 DEF AskTypes
<1>6. ASSUME NEW t \in Session \ cut', LifeInv(t) PROVE LifeInv(t)'
    BY <1>1, <1>2, <1>6, LivesStay
<1>7. /\ permPending' \subseteq asked /\ web' \subseteq asked
      /\ \A id \in Id : permSessionMap'[id] \in {permSessionMap[id], NoSession}
      /\ answer'.to # NoSession => <<answer'.to, answer'.id>> \in asked
      /\ cut \subseteq cut' /\ open' \subseteq open
    BY <1>0, <1>1 DEF AskedInv
<1>8. \A t \in Session : ~(link' /\ t \notin resend')
    BY <1>3
<1> QED BY <1>1, <1>2, <1>4, <1>5, <1>6, <1>7, <1>8, QuietKeeps

\* The question answered leaves the page, and its answer is under way.
LEMMA UserAnswersKeeps ==
    ASSUME SessionInv, NEW s \in Session, NEW k \in Id, UserAnswers(s, k)
    PROVE  SessionInv'
<1>0. OutTypes /\ LifeTypes /\ AskTypes /\ Flows /\ AskedInv
    BY DEF SessionInv, SessionTypes, Flows
<1>1. /\ answer = NoAnswer /\ <<s, k>> \in web /\ web' = web \ {<<s, k>>}
      /\ permPending' = {q \in permPending : q[2] # k \/ (permSessionMap[k] # NoSession /\ q[1] # permSessionMap[k])}
      /\ answer' = [asker |-> s, id |-> k, to |-> permSessionMap[k]]
      /\ UNCHANGED <<permSessionMap, live, running, ending, resend, link, spent, said, asked, cut, open, reordered>>
      /\ UNCHANGED <<outVars, textVars, reordered>>
    BY DEF UserAnswers, ForgetPendingPermission, lifeVars, countVars
<1>2. /\ OutTypes' /\ Flows' /\ \A t \in Session : Still(t)
      /\ loose' = loose /\ \A t \in Session : \A g : In(g, chan'[t]) \/ In(g, stray'[t]) => In(g, chan[t]) \/ In(g, stray[t])
    BY <1>1, FramesStay
<1>3. permSessionMap[k] \in Session \cup {NoSession} /\ answer'.asker = s /\ answer'.id = k /\ answer'.to = permSessionMap[k]
    BY <1>0, <1>1 DEF AskTypes
<1>4. LifeTypes'
    BY <1>0, <1>1 DEF LifeTypes
<1>5. AskTypes'
  <2>1. answer' \in [asker : Session \cup {NoSession}, id : Id \cup {0}, to : Session \cup {NoSession}]
    BY <1>1, <1>3
  <2> QED BY <1>0, <1>1, <1>3, <2>1 DEF AskTypes
<1>6. ASSUME NEW t \in Session \ cut', LifeInv(t) PROVE LifeInv(t)'
    BY <1>1, <1>2, <1>6, LivesStay
<1>7. /\ permPending' \subseteq asked /\ web' \subseteq asked
      /\ \A id \in Id : permSessionMap'[id] \in {permSessionMap[id], NoSession}
      /\ answer'.to # NoSession => <<answer'.to, answer'.id>> \in asked
      /\ cut \subseteq cut' /\ open' \subseteq open
    BY <1>0, <1>1, <1>3 DEF AskedInv
\* a question of one session alone is dropped only by an answer to it
<1>8. ASSUME NEW t \in Session, NEW id \in Id, <<t, id>> \in open', Sole(t, id)
      PROVE  /\ ~(answer.asker = t)
             /\ <<t, id>> \in permPending => <<t, id>> \in permPending' \/ (answer'.asker = t /\ answer'.id = id)
             /\ <<t, id>> \in web => <<t, id>> \in web' \/ (answer'.asker = t /\ answer'.id = id)
  <2>1. answer.asker = NoSession /\ t # NoSession
    BY <1>1, BridgeSessionsAssumption DEF NoAnswer
  <2>2. id = k => s = t
    BY <1>0, <1>1, <1>8 DEF AskedInv, Sole
  <2> QED BY <1>1, <1>3, <2>1, <2>2
<1> QED BY <1>1, <1>2, <1>4, <1>5, <1>6, <1>7, <1>8, QuietKeeps

\* The answer reaches the only session that asked under its id.
LEMMA DeliveredKeeps ==
    ASSUME SessionInv, AnswerIsDelivered
    PROVE  SessionInv'
<1>0. OutTypes /\ LifeTypes /\ AskTypes /\ Flows /\ AskedInv
    BY DEF SessionInv, SessionTypes, Flows
<1>1. /\ answer # NoAnswer /\ answer' = NoAnswer
      /\ permSessionMap' = [permSessionMap EXCEPT ![answer.id] = IF answer.to = NoSession THEN @ ELSE NoSession]
      /\ UNCHANGED <<permPending, live, running, ending, web, resend, link, spent, said, asked, cut, reordered>>
      /\ UNCHANGED <<outVars, textVars, reordered>>
    BY DEF AnswerIsDelivered, lifeVars, pageVars, countVars
<1>b. open' = open \ {<<t, answer.id>> : t \in (IF answer.to = NoSession THEN live ELSE {answer.to} \cap live)}
    BY DEF AnswerIsDelivered
<1>2. /\ OutTypes' /\ Flows' /\ \A t \in Session : Still(t)
      /\ loose' = loose /\ \A t \in Session : \A g : In(g, chan'[t]) \/ In(g, stray'[t]) => In(g, chan[t]) \/ In(g, stray[t])
    BY <1>1, FramesStay
<1>3. /\ permSessionMap' \in [Id -> Session \cup {NoSession}]
      /\ \A id \in Id : permSessionMap'[id] \in {permSessionMap[id], NoSession}
    BY <1>0, <1>1 DEF AskTypes
<1>4. LifeTypes'
    BY <1>0, <1>1 DEF LifeTypes
<1>a. open' \subseteq open /\ answer'.to = NoSession
    BY <1>1, <1>b DEF NoAnswer
<1>5. AskTypes'
  <2>1. answer' \in [asker : Session \cup {NoSession}, id : Id \cup {0}, to : Session \cup {NoSession}]
    BY <1>1 DEF NoAnswer
  <2> QED BY <1>0, <1>1, <1>3, <1>a, <2>1 DEF AskTypes
<1>6. ASSUME NEW t \in Session \ cut', LifeInv(t) PROVE LifeInv(t)'
    BY <1>1, <1>2, <1>6, LivesStay
<1>7. permPending' \subseteq asked /\ web' \subseteq asked /\ cut \subseteq cut'
    BY <1>0, <1>1 DEF AskedInv
\* the answer reaches the only session that asked under this id
<1>8. ASSUME NEW t \in Session, NEW id \in Id, <<t, id>> \in open', Sole(t, id), answer.id = id
      PROVE  FALSE
  <2>1. t \in live
    BY <1>0, <1>8, <1>a DEF AskTypes, LifeTypes
  <2>2. answer.to # NoSession => answer.to = t
    <3>1. ASSUME answer.to # NoSession PROVE answer.to = t
      <4>1. answer.to \in Session /\ <<answer.to, id>> \in asked
        BY <1>0, <1>8, <3>1 DEF AskTypes, AskedInv
      <4> QED BY <1>8, <4>1 DEF Sole
    <3> QED BY <3>1
  <2> QED BY <1>8, <1>b, <2>1, <2>2
<1> QED BY <1>1, <1>2, <1>3, <1>4, <1>5, <1>6, <1>7, <1>8, <1>a, QuietKeeps

-----------------------------------------------------------------------------

\* Every session starts with an empty pipe and no question.
LEMMA SessionInitHolds == SessionInit => SessionInv
<1> SUFFICES ASSUME SessionInit PROVE SessionInv
    OBVIOUS
<1>0. /\ live = Session /\ running = Session /\ ending = {} /\ loose = {} /\ permPending = {} /\ open = {}
      /\ web = {} /\ resend = {} /\ link = TRUE /\ answer = NoAnswer /\ spent = 0 /\ asked = {} /\ cut = {} /\ reordered = {}
      /\ permSessionMap = [id \in Id |-> NoSession] /\ said = [s \in Session |-> 0] /\ worker = [s \in Session |-> "none"]
      /\ chan = [s \in Session |-> <<>>] /\ stray = [s \in Session |-> <<>>]
      /\ batch = [s \in Session |-> <<>>] /\ sent = [s \in Session |-> <<>>]
    BY DEF SessionInit
<1>1. \A s \in Session : chan[s] = <<>> /\ stray[s] = <<>> /\ batch[s] = <<>> /\ sent[s] = <<>> /\ said[s] = 0
    BY <1>0
<1>2. OutTypes
  <2>1. <<>> \in Seq(Frames) /\ <<>> \in Seq(Texts) /\ Len(<<>>) <= ChannelCap
    BY BridgeSessionsAssumption
  <2>2. /\ chan \in [Session -> Seq(Frames)] /\ stray \in [Session -> Seq(Frames)]
        /\ batch \in [Session -> Seq(Texts)] /\ sent \in [Session -> Seq(Texts)]
        /\ worker \in [Session -> {"none", "serving", "leaving"}] /\ loose \subseteq Session \X Frames
    BY <1>0, <2>1
  <2> QED BY <1>1, <2>1, <2>2 DEF OutTypes
<1>3. LifeTypes
  <2>1. 0 \in 0..MaxEmits
    BY BridgeSessionsAssumption
  <2> QED BY <1>0, <1>1, <2>1 DEF LifeTypes
<1>4. AskTypes
    BY <1>0 DEF AskTypes, NoAnswer
<1>5. ASSUME NEW s \in Session PROVE Unread(s) = <<>> /\ Path(s) = <<>> /\ Len(<<>>) = 0
    BY <1>1 DEF Unread, Path
<1>6. AskedInv
    BY <1>0, <1>1 DEF AskedInv, In, NoAnswer
<1>7. ASSUME NEW s \in Session PROVE FlowInv(s) /\ OrderedInv(s)
  <2>1. FlowInv(s)
    BY <1>0, <1>1 DEF FlowInv
  <2>2. OrderInv(s)
    BY <1>1, <1>5 DEF OrderInv, InOrder
  <2>3. LifeInv(s)
    BY <1>0, <1>5 DEF LifeInv, In
  <2>4. IdleInv(s) /\ \A id \in Id : Shown(s, id)
    BY <1>0 DEF IdleInv, Shown
  <2> QED BY <2>1, <2>2, <2>3, <2>4 DEF OrderedInv
<1> QED BY <1>2, <1>3, <1>4, <1>6, <1>7 DEF SessionInv, SessionTypes

\* A step that changes nothing.
LEMMA SessionStutters == ASSUME SessionInv, UNCHANGED sessionVars PROVE SessionInv'
<1>0. OutTypes /\ LifeTypes /\ AskTypes /\ Flows /\ AskedInv
    BY DEF SessionInv, SessionTypes, Flows
<1>1. /\ UNCHANGED <<permSessionMap, permPending, live, running, ending, web, resend, link, spent, said, asked, cut, open, answer, reordered>>
      /\ UNCHANGED <<outVars, textVars, reordered>>
    BY DEF sessionVars, permVars, lifeVars, pageVars, countVars
<1>2. /\ OutTypes' /\ Flows' /\ \A t \in Session : Still(t)
      /\ loose' = loose /\ \A t \in Session : \A g : In(g, chan'[t]) \/ In(g, stray'[t]) => In(g, chan[t]) \/ In(g, stray[t])
    BY <1>1, FramesStay
<1>3. LifeTypes' /\ AskTypes'
    BY <1>0, <1>1 DEF LifeTypes, AskTypes
<1>4. \A t \in Session : LifeInv(t) => LifeInv(t)'
    BY <1>1, <1>2, LivesStay
<1>5. /\ permPending' \subseteq asked /\ web' \subseteq asked
      /\ \A id \in Id : permSessionMap'[id] \in {permSessionMap[id], NoSession}
      /\ answer'.to # NoSession => <<answer'.to, answer'.id>> \in asked
    BY <1>0, <1>1 DEF AskedInv
<1> QED BY <1>1, <1>2, <1>3, <1>4, <1>5, QuietKeeps

\* Every step keeps the invariant.
LEMMA SessionStepHolds == SessionInv /\ [SessionNext]_sessionVars => SessionInv'
<1> SUFFICES ASSUME SessionInv, [SessionNext]_sessionVars PROVE SessionInv'
    OBVIOUS
<1>1. ASSUME NEW s \in Session, EngineStep(s) PROVE SessionInv'
    BY <1>1, EngineKeeps
<1>2. ASSUME NEW s \in Session, OutputStep(s) PROVE SessionInv'
    BY <1>2, ForwardKeeps, WorkerKeeps DEF OutputStep
<1>3. ASSUME NEW s \in Session, HandlerStep(s) PROVE SessionInv'
    BY <1>3, StopExitedKeeps, StopKeeps, CancelKeeps, StartKeeps, ResumeKeeps, ResendKeeps, UserAnswersKeeps DEF HandlerStep
<1> QED BY <1>1, <1>2, <1>3, LinkKeeps, DeliveredKeeps, SessionStutters DEF SessionNext

\* The invariant holds in every state of every behaviour.
LEMMA SessionInvHolds == SessionSpec => []SessionInv
<1>1. SessionInit => SessionInv
    BY SessionInitHolds
<1>2. SessionInv /\ [SessionNext]_sessionVars => SessionInv'
    BY SessionStepHolds
<1> QED BY <1>1, <1>2, PTL DEF SessionSpec

\* The link is up or down.
LEMMA LinkIsFlag == SessionSpec => []LinkFlag
<1>1. SessionInit => LinkFlag
    BY DEF SessionInit, LinkFlag
<1>2. LinkFlag /\ [SessionNext]_sessionVars => LinkFlag'
  <2> USE DEF LinkFlag
  <2> SUFFICES ASSUME link \in BOOLEAN, [SessionNext]_sessionVars PROVE link' \in BOOLEAN
    OBVIOUS
  <2>1. CASE LinkChanges
    BY <2>1 DEF LinkChanges, LinkReturns
  <2>2. CASE AnswerIsDelivered
    BY <2>2 DEF AnswerIsDelivered, pageVars
  <2>3. ASSUME NEW s \in Session, EngineStep(s) PROVE link' \in BOOLEAN
    BY <2>3 DEF EngineStep, EngineSays, EngineIdles, EngineExits, EngineAsks, Emit, pageVars
  <2>4. ASSUME NEW s \in Session, OutputStep(s) PROVE link' \in BOOLEAN
    BY <2>4 DEF OutputStep, WorkerForwards, WorkerLeaves, WorkerRetires, StrayForwards, LooseForwards, DoFlush,
       ForwardSessionOutput, pageVars
  <2>5. ASSUME NEW s \in Session, HandlerStep(s) PROVE link' \in BOOLEAN
    BY <2>5 DEF HandlerStep, StopExited, HandleSessionStop, HandleSessionCancel, HandleSessionStart,
       HandleSessionResume, ResendPendingPermissions, UserAnswers, pageVars
  <2>6. CASE UNCHANGED sessionVars
    BY <2>6 DEF sessionVars, pageVars
  <2> QED BY <2>1, <2>2, <2>3, <2>4, <2>5, <2>6 DEF SessionNext
<1> QED BY <1>1, <1>2, PTL DEF SessionSpec

\* The range of a sequence.
LEMMA RangeIn ==
    /\ \A q \in Seq(Frames) : Range(q) \subseteq Frames /\ \A g : g \in Range(q) <=> In(g, q)
    /\ \A q \in Seq(Texts) : Range(q) \subseteq Texts
BY DEF Range, In

\* Every variable of the sessions' output, questions and lives stays in its type.
THEOREM SessionTypeCorrect == SessionSpec => []SessionTypeOK
<1>1. SessionInv /\ LinkFlag => SessionTypeOK
  <2> USE DEF LinkFlag
  <2> SUFFICES ASSUME SessionInv, link \in BOOLEAN PROVE SessionTypeOK
    OBVIOUS
  <2>0. OutTypes /\ LifeTypes /\ AskTypes
    BY DEF SessionInv, SessionTypes
  <2>1. ASSUME NEW s \in Session
        PROVE  /\ Range(chan[s]) \cup Range(stray[s]) \subseteq Frames
               /\ Len(chan[s]) <= ChannelCap
               /\ Range(batch[s]) \cup Range(sent[s]) \subseteq {Text(n) : n \in 1..MaxEmits}
    BY <2>0, RangeIn DEF OutTypes, Texts
  <2>2. answer.to \in Session \cup {NoSession}
    BY <2>0 DEF AskTypes
  <2> QED BY <2>0, <2>1, <2>2 DEF SessionTypeOK, OutTypes, LifeTypes, AskTypes
<1> QED BY <1>1, SessionInvHolds, LinkIsFlag, PTL

\* What an engine says is handed over in the order it was said, and none of it
\* is lost while the channel kept its order and the user did not stop the
\* session.
THEOREM OutputInOrderHolds == SessionSpec => []OutputInOrder
<1>1. SessionInv => OutputInOrder
  <2> SUFFICES ASSUME SessionInv, NEW s \in Session \ reordered
               PROVE  LET path == sent[s] \o batch[s] \o stray[s] \o chan[s]
                      IN  /\ \A i, j \in DOMAIN path :
                               i < j /\ path[i].kind = "text" /\ path[j].kind = "text" => path[i].what < path[j].what
                          /\ s \notin cut => \A n \in 1..said[s] : Text(n) \in Range(path)
    BY DEF OutputInOrder
  <2>0. OutTypes /\ OrderInv(s)
    BY DEF SessionInv, SessionTypes, OrderedInv
  <2>1. /\ Path(s) \in Seq(Frames) /\ Spoken(s) \in Seq(Frames)
        /\ stray[s] \in Seq(Frames) /\ chan[s] \in Seq(Frames)
    BY <2>0, PathTypes DEF OutTypes
  <2>2. (Spoken(s) \o stray[s]) \o chan[s] = Spoken(s) \o (stray[s] \o chan[s])
    BY ONLY <2>1, FrameStretches, ZenonT(30)
  <2>3. sent[s] \o batch[s] \o stray[s] \o chan[s] = Path(s)
    BY <2>2 DEF Path, Spoken, Unread
  <2>4. DOMAIN Path(s) = 1..Len(Path(s)) /\ \A g : g \in Range(Path(s)) <=> In(g, Path(s))
    BY <2>1, RangeIn
  <2> QED BY <2>0, <2>3, <2>4 DEF OrderInv, InOrder, IsText
<1> QED BY <1>1, SessionInvHolds, PTL

\* A question an engine waits on stays before the user's eyes, or its answer is
\* on the way, across reconnects, resumes, re-sends and answers to others.
THEOREM QuestionStaysVisibleHolds == SessionSpec => []QuestionStaysVisible
<1>1. SessionInv => QuestionStaysVisible
  <2> SUFFICES ASSUME SessionInv, NEW s \in live \ reordered, NEW id \in Id, <<s, id>> \in open, link, s \notin resend,
                      ~UnderWay(s, id), \A t \in Session : <<t, id>> \in asked => t = s
               PROVE  <<s, id>> \in web
    BY DEF QuestionStaysVisible
  <2>0. OutTypes /\ LifeTypes /\ s \in Session
    BY DEF SessionInv, SessionTypes, LifeTypes
  <2>1. Shown(s, id) /\ Sole(s, id)
    BY <2>0 DEF SessionInv, OrderedInv, Sole
  <2>2. stray[s] \in Seq(Frames) /\ chan[s] \in Seq(Frames)
    BY <2>0 DEF OutTypes
  <2>3. ~In(Ask(id), Unread(s)) /\ ~(answer.asker = s /\ answer.id = id)
    BY <2>0, <2>2, PathTypes, RangeIn DEF UnderWay
  <2> QED BY <2>1, <2>3 DEF Shown
<1> QED BY <1>1, SessionInvHolds, PTL

-----------------------------------------------------------------------------
(* The turn of a task session.                                              *)

\* The questions asked so far are the only ones with a waiter or an answer.
TurnAskedInv ==
    \A q \in Questions : q > questions => answers[q] = "empty" /\ waiters[q] = "none"

\* Each attempt's session is removed once at most.
RemovalInv == removals <= launched /\ (attempt # 0 => removals < launched)

\* The pending question is still waited for, unless the handler has just sent
\* the answer and is about to remove the entry.
PendingInv ==
    pendingQuestion # 0 =>
        \/ posted /\ handling = pendingQuestion
        \/ waiters[pendingQuestion] = "waiting" /\ answers[pendingQuestion] = "empty"

\* A session in the registry is watched, or about to be, or about to be
\* stopped, unless an earlier attempt's removal cancelled its watchdog.
WatchedInv == attempt # 0 => arming \/ dog \/ attempt \in unwatched \/ stops # {}

TurnInv ==
    TurnTypeOK /\ TurnAskedInv /\ RemovalInv /\ PendingInv /\ WatchedInv /\ NoParkedTask

-----------------------------------------------------------------------------

\* The bridge has launched nothing.
LEMMA TurnInitHolds == TurnInit => TurnInv
<1> SUFFICES ASSUME TurnInit PROVE TurnInv
    OBVIOUS
<1> USE TaskTurnAssumption DEF TurnInit
<1>1. TurnTypeOK
    <2>0. AttemptTypes
        BY DEF TurnTypeOK, AttemptTypes
    <2>1. FlagTypes
        BY DEF TurnTypeOK, FlagTypes
    <2>2. StopTypes
        BY DEF TurnTypeOK, StopTypes
    <2>3. QuestionTypes /\ ChannelTypes
        BY DEF TurnTypeOK, QuestionTypes, ChannelTypes
    <2>4. GhostTypes
        BY DEF TurnTypeOK, GhostTypes, AttemptTypes
    <2> QED BY <2>0, <2>1, <2>2, <2>3, <2>4 DEF TurnTypeOK
<1>2. TurnAskedInv /\ RemovalInv /\ PendingInv /\ WatchedInv /\ NoParkedTask
    BY DEF TurnAskedInv, RemovalInv, PendingInv, WatchedInv, NoParkedTask
<1> QED BY <1>1, <1>2 DEF TurnInv

\* What the types say of the numbers.
LEMMA TurnNumbers ==
    ASSUME TurnTypeOK
    PROVE  /\ attempt \in Nat /\ launched \in Nat /\ attempt <= launched /\ launched <= MaxAttempts
           /\ questions \in Nat /\ questions <= MaxQuestions
           /\ pendingQuestion \in Nat /\ pendingQuestion <= questions
           /\ handling \in Nat /\ handling <= questions /\ removals \in Nat
           /\ attempt # 0 => attempt \in 1..MaxAttempts
           /\ pendingQuestion # 0 => pendingQuestion \in Questions
           /\ handling # 0 => handling \in Questions
BY TaskTurnAssumption DEF TurnTypeOK, AttemptTypes, StopTypes, QuestionTypes, Questions

\* Launching, arming and firing: the watchdog is handed over from one to the next.
LEMMA LaunchKeepsTurn ==
    ASSUME TurnInv, Launch \/ ArmTaskWatchdog \/ PromptFails \/ FireTaskWatchdog
    PROVE  TurnInv'
<1> USE TaskTurnAssumption, TurnNumbers
    DEF Launch, ArmTaskWatchdog, PromptFails, FireTaskWatchdog, TurnInv,
        turnVars, dogVars, questionVars, handlerVars
<1>1. TurnTypeOK'
    <2>0. AttemptTypes'
        BY DEF TurnTypeOK, AttemptTypes
    <2>1. FlagTypes'
        BY DEF TurnTypeOK, FlagTypes
    <2>2. StopTypes'
        BY DEF TurnTypeOK, StopTypes
    <2>3. QuestionTypes' /\ ChannelTypes'
        BY DEF TurnTypeOK, QuestionTypes, ChannelTypes
    <2>4. GhostTypes'
        BY DEF TurnTypeOK, GhostTypes, AttemptTypes
    <2> QED BY <2>0, <2>1, <2>2, <2>3, <2>4 DEF TurnTypeOK
<1>2. TurnAskedInv' /\ PendingInv'
    BY DEF TurnAskedInv, PendingInv
<1>3. RemovalInv'
    BY DEF RemovalInv
<1>4. WatchedInv' /\ NoParkedTask'
    BY DEF WatchedInv, NoParkedTask, TurnTypeOK, AttemptTypes
<1> QED BY <1>1, <1>2, <1>3, <1>4

\* A stop ends the turn; the callback of the removal is still to come.
LEMMA StopKeepsTurn == ASSUME TurnInv, NEW code \in {0, 1}, StopWithExitCode(code) PROVE TurnInv'
<1> USE TaskTurnAssumption, TurnNumbers DEF StopWithExitCode, TurnInv, questionVars, handlerVars
<1>1. TurnTypeOK'
    <2>0. AttemptTypes'
        BY DEF TurnTypeOK, AttemptTypes
    <2>1. FlagTypes'
        BY DEF TurnTypeOK, FlagTypes
    <2>2. StopTypes'
        BY DEF TurnTypeOK, StopTypes, RemovalInv
    <2>3. QuestionTypes' /\ ChannelTypes'
        BY DEF TurnTypeOK, QuestionTypes, ChannelTypes
    <2>4. GhostTypes'
        BY DEF TurnTypeOK, GhostTypes, AttemptTypes
    <2> QED BY <2>0, <2>1, <2>2, <2>3, <2>4 DEF TurnTypeOK
<1>2. TurnAskedInv' /\ PendingInv'
    BY DEF TurnAskedInv, PendingInv
<1>3. RemovalInv'
    BY DEF RemovalInv
<1>4. WatchedInv' /\ NoParkedTask'
    BY DEF WatchedInv, NoParkedTask
<1> QED BY <1>1, <1>2, <1>3, <1>4

\* The callback takes the watchdog of whatever attempt is there by then.
LEMMA RemovalKeepsTurn == ASSUME TurnInv, RemoveStatusTracker PROVE TurnInv'
<1> USE TaskTurnAssumption, TurnNumbers
    DEF RemoveStatusTracker, TurnInv, turnVars, questionVars, handlerVars
<1>1. TurnTypeOK'
    <2>0. AttemptTypes'
        BY DEF TurnTypeOK, AttemptTypes
    <2>1. FlagTypes'
        BY DEF TurnTypeOK, FlagTypes
    <2>2. StopTypes'
        BY DEF TurnTypeOK, StopTypes, RemovalInv
    <2>3. QuestionTypes' /\ ChannelTypes'
        BY DEF TurnTypeOK, QuestionTypes, ChannelTypes
    <2>4. GhostTypes'
        BY DEF TurnTypeOK, GhostTypes, AttemptTypes
    <2> QED BY <2>0, <2>1, <2>2, <2>3, <2>4 DEF TurnTypeOK
<1>2. TurnAskedInv' /\ PendingInv'
    BY DEF TurnAskedInv, PendingInv
<1>3. RemovalInv'
    BY DEF RemovalInv
<1>4. WatchedInv' /\ NoParkedTask'
    BY DEF WatchedInv, NoParkedTask, TurnTypeOK, AttemptTypes
<1> QED BY <1>1, <1>2, <1>3, <1>4

\* A question replaces the one before it, whose waiter it wakes.
LEMMA QuestionKeepsTurn == ASSUME TurnInv, HandleQuestionMarker PROVE TurnInv'
<1> USE TaskTurnAssumption, TurnNumbers
    DEF HandleQuestionMarker, TurnInv, turnVars, dogVars, handlerVars
<1>0. questions + 1 \in Questions /\ questions + 1 > questions /\ pendingQuestion # questions + 1
    BY DEF Questions
<1> USE <1>0
<1>1. TurnTypeOK'
    <2>0. AttemptTypes'
        BY DEF TurnTypeOK, AttemptTypes
    <2>1. FlagTypes'
        BY DEF TurnTypeOK, FlagTypes
    <2>2. StopTypes'
        BY DEF TurnTypeOK, StopTypes
    <2>3. QuestionTypes' /\ ChannelTypes'
        BY DEF TurnTypeOK, QuestionTypes, ChannelTypes
    <2>4. GhostTypes'
        BY DEF TurnTypeOK, GhostTypes, AttemptTypes
    <2> QED BY <2>0, <2>1, <2>2, <2>3, <2>4 DEF TurnTypeOK
<1>2. TurnAskedInv'
    BY DEF TurnAskedInv, TurnTypeOK, ChannelTypes, Questions
<1>3. PendingInv'
    BY DEF PendingInv, TurnAskedInv, TurnTypeOK, ChannelTypes
<1>4. RemovalInv' /\ WatchedInv' /\ NoParkedTask'
    BY DEF RemovalInv, WatchedInv, NoParkedTask
<1> QED BY <1>1, <1>2, <1>3, <1>4

\* The end of the turn: with a question pending somebody still waits for the
\* answer, or has it and the attempt is left to the watchdog.
LEMMA EndKeepsTurn == ASSUME TurnInv, EngineEndsTurn \/ Guide PROVE TurnInv'
<1> USE TaskTurnAssumption, TurnNumbers
    DEF EngineEndsTurn, EndOfTurnEndsTask, Guide, TurnInv, dogVars, questionVars, handlerVars
<1>1. TurnTypeOK'
    <2>0. AttemptTypes'
        BY DEF TurnTypeOK, AttemptTypes
    <2>1. FlagTypes'
        BY DEF TurnTypeOK, FlagTypes
    <2>2. StopTypes'
        <3>1. removals \in 0..MaxAttempts /\ stops \subseteq {0, 1}
            BY DEF TurnTypeOK, StopTypes
        <3>2. removals' = removals /\ (stops' = stops \/ stops' = stops \cup {0})
            OBVIOUS
        <3> QED BY ONLY <3>1, <3>2 DEF StopTypes
    <2>3. QuestionTypes' /\ ChannelTypes'
        BY DEF TurnTypeOK, QuestionTypes, ChannelTypes
    <2>4. GhostTypes'
        BY DEF TurnTypeOK, GhostTypes, AttemptTypes
    <2> QED BY <2>0, <2>1, <2>2, <2>3, <2>4 DEF TurnTypeOK
<1>2. TurnAskedInv' /\ PendingInv' /\ RemovalInv' /\ WatchedInv'
    BY DEF TurnAskedInv, PendingInv, RemovalInv, WatchedInv
<1>3. NoParkedTask'
    BY DEF NoParkedTask, PendingInv, WatchedInv, TurnTypeOK, AttemptTypes
<1> QED BY <1>1, <1>2, <1>3

\* A waiter resumes the session, stops it, or leaves it to the watchdog.
LEMMA WaiterKeepsTurn == ASSUME TurnInv, NEW q \in Questions, WaiterStep(q) PROVE TurnInv'
<1> USE TaskTurnAssumption, TurnNumbers
    DEF WaiterStep, WaiterGetsAnswer, WaiterInjects, WaiterTimesOut, WaiterStops, TurnInv,
        turnVars, dogVars, questionVars, handlerVars
<1>1. TurnTypeOK'
    <2>0. AttemptTypes'
        BY DEF TurnTypeOK, AttemptTypes
    <2>1. FlagTypes'
        BY DEF TurnTypeOK, FlagTypes
    <2>2. StopTypes'
        BY DEF TurnTypeOK, StopTypes
    <2>3. QuestionTypes' /\ ChannelTypes'
        BY DEF TurnTypeOK, QuestionTypes, ChannelTypes
    <2>4. GhostTypes'
        BY DEF TurnTypeOK, GhostTypes, AttemptTypes
    <2> QED BY <2>0, <2>1, <2>2, <2>3, <2>4 DEF TurnTypeOK
<1>2. TurnAskedInv' /\ RemovalInv'
    BY DEF TurnAskedInv, RemovalInv, TurnTypeOK, ChannelTypes
<1>3. PendingInv'
    BY DEF PendingInv, TurnTypeOK, ChannelTypes
<1>4. WatchedInv'
    BY DEF WatchedInv
<1>5. NoParkedTask'
    BY DEF NoParkedTask, WatchedInv, TurnTypeOK, AttemptTypes, ChannelTypes
<1> QED BY <1>1, <1>2, <1>3, <1>4, <1>5

\* The handler of an answer, one step after another.
LEMMA AnswerKeepsTurn == ASSUME TurnInv, FindQuestion \/ PostAnswer \/ ClearQuestion PROVE TurnInv'
<1> USE TaskTurnAssumption, TurnNumbers
    DEF FindQuestion, PostAnswer, ClearQuestion, TurnInv, turnVars, dogVars, questionVars, handlerVars
<1>1. TurnTypeOK'
    <2>0. AttemptTypes'
        BY DEF TurnTypeOK, AttemptTypes
    <2>1. FlagTypes'
        BY DEF TurnTypeOK, FlagTypes
    <2>2. StopTypes'
        BY DEF TurnTypeOK, StopTypes
    <2>3. QuestionTypes' /\ ChannelTypes'
        BY DEF TurnTypeOK, QuestionTypes, ChannelTypes
    <2>4. GhostTypes'
        BY DEF TurnTypeOK, GhostTypes, AttemptTypes
    <2> QED BY <2>0, <2>1, <2>2, <2>3, <2>4 DEF TurnTypeOK
<1>2. TurnAskedInv'
    BY DEF TurnAskedInv, TurnTypeOK, ChannelTypes
<1>3. PendingInv'
    BY DEF PendingInv, TurnTypeOK, ChannelTypes
<1>4. RemovalInv' /\ WatchedInv' /\ NoParkedTask'
    BY DEF RemovalInv, WatchedInv, NoParkedTask
<1> QED BY <1>1, <1>2, <1>3, <1>4

LEMMA TurnStepKeepsInv == TurnInv /\ [TurnNext]_taskTurnVars => TurnInv'
<1>1. ASSUME TurnInv, UNCHANGED taskTurnVars PROVE TurnInv'
    BY <1>1 DEF TurnInv, taskTurnVars, turnVars, dogVars, questionVars, handlerVars,
                TurnTypeOK, AttemptTypes, FlagTypes, StopTypes, QuestionTypes, ChannelTypes, GhostTypes,
                TurnAskedInv, RemovalInv, PendingInv, WatchedInv, NoParkedTask
<1>2. ASSUME TurnInv, TurnNext PROVE TurnInv'
    BY <1>2, LaunchKeepsTurn, StopKeepsTurn, RemovalKeepsTurn, QuestionKeepsTurn,
           EndKeepsTurn, WaiterKeepsTurn, AnswerKeepsTurn
       DEF TurnNext
<1> QED BY <1>1, <1>2

LEMMA TurnInvariance == TurnSpec => []TurnInv
BY TurnInitHolds, TurnStepKeepsInv, PTL DEF TurnSpec

\* The registry, the watchdog and the questions of a task have their types: no
\* removal is counted twice, and the session in the registry has a turn.
THEOREM TurnTypeCorrect == TurnSpec => []TurnTypeOK
<1>1. TurnInv => TurnTypeOK
    BY DEF TurnInv
<1> QED BY <1>1, TurnInvariance, PTL

\* A task whose engine has ended its turn is on its way out, for every number
\* of attempts and questions (EndOfTurn of forwardSessionOutput, the waiters of
\* handleQuestionMarker, handleWorkflowTaskAnswer and the watchdog).
THEOREM NoParkedTaskHolds == TurnSpec => []NoParkedTask
<1>1. TurnInv => NoParkedTask
    BY DEF TurnInv
<1> QED BY <1>1, TurnInvariance, PTL

-----------------------------------------------------------------------------
(* The report of it.                                                        *)

\* A report is given up when its last try has failed, no later.
TriesInv ==
    \A r \in Report : /\ progress[r] = "posting" => tries[r] < MaxRetries
                      /\ progress[r] = "none" => tries[r] = 0

\* A file is named after the task of the report in it.
NameInv == \A t \in ReportTasks : file[t] \in Report => ReportedTask[file[t]] = t

\* What a drain has still to read, and what it is posting, stays on disk
\* while it runs: the lock keeps everybody else away from the files.
DrainInv ==
    /\ listed # {} => draining
    /\ \A t \in listed : file[t] # NoReport
    /\ reading # NoReport =>
         /\ draining /\ ReportedTask[reading] \notin listed
         /\ file[ReportedTask[reading]] = reading

CallbackInv == CallbackTypeOK /\ TriesInv /\ NameInv /\ DrainInv /\ ReportIsKept

-----------------------------------------------------------------------------

\* The file of a report is the file of one of the tasks.
LEMMA TaskOfReport == ASSUME NEW r \in Report PROVE ReportedTask[r] \in ReportTasks
BY DEF ReportTasks

\* Nothing has been reported when the bridge starts (RetryCachedEvents finds
\* an empty directory).
LEMMA CallbackInitReports == CallbackInit => CallbackInv
<1> USE CallbacksAssumption DEF CallbackInit
<1>1. CallbackInit => CallbackTypeOK
    <2>1. 0 \in 0..MaxRetries
        OBVIOUS
    <2>2. CallbackInit => /\ progress \in [Report -> {"none", "posting", "exhausted", "over"}]
                          /\ tries \in [Report -> 0..MaxRetries]
                          /\ file \in [ReportTasks -> Report \cup {NoReport, Torn}]
        BY <2>1
    <2> QED BY <2>2 DEF CallbackTypeOK
<1>2. CallbackInit => TriesInv /\ NameInv /\ DrainInv
    BY DEF TriesInv, NameInv, DrainInv
<1>3. CallbackInit => ReportIsKept
    BY DEF ReportIsKept
<1> QED BY <1>1, <1>2, <1>3 DEF CallbackInv

\* Sending and posting a report touch neither the files nor a drain.
LEMMA PostingKeepsReports ==
    ASSUME CallbackInv, NEW r \in Report, NEW ok \in BOOLEAN, SendReport(r) \/ PostReport(r, ok)
    PROVE  CallbackInv'
<1> USE CallbacksAssumption, TaskOfReport
    DEF SendReport, PostReport, Reaches, CallbackInv, drainVars
<1>1. CallbackTypeOK' /\ TriesInv'
    BY DEF CallbackTypeOK, TriesInv
<1>2. NameInv' /\ DrainInv'
    BY DEF NameInv, DrainInv
<1>3. ReportIsKept'
    BY DEF CallbackTypeOK, ReportIsKept
<1> QED BY <1>1, <1>2, <1>3

\* cacheEvent writes a file when no drain runs; the report whose file it
\* replaces is recorded.
LEMMA CachingKeepsReports ==
    ASSUME CallbackInv, NEW r \in Report, CacheEvent(r)
    PROVE  CallbackInv'
<1> USE CallbacksAssumption, TaskOfReport
    DEF CacheEvent, WriteReport, Replaced, CallbackInv, drainVars
<1>1. CallbackTypeOK' /\ TriesInv'
    BY DEF CallbackTypeOK, TriesInv
<1>2. NameInv'
    BY DEF CallbackTypeOK, NameInv
<1>3. DrainInv'
    BY DEF CallbackTypeOK, DrainInv
<1>4. ReportIsKept'
    BY DEF CallbackTypeOK, ReportIsKept
<1> QED BY <1>1, <1>2, <1>3, <1>4

\* RetryCachedEvents takes the lock, reads a file, and releases the lock.
LEMMA ReadingKeepsReports ==
    ASSUME CallbackInv, StartDrain \/ EndDrain \/ \E t \in ReportTasks : ReadCached(t)
    PROVE  CallbackInv'
<1> USE CallbacksAssumption, TaskOfReport DEF CallbackInv
<1>1. CASE StartDrain
    BY <1>1 DEF StartDrain, CallbackTypeOK, TriesInv, NameInv, DrainInv, ReportIsKept
<1>2. CASE EndDrain
    BY <1>2 DEF EndDrain, CallbackTypeOK, TriesInv, NameInv, DrainInv, ReportIsKept
<1>3. ASSUME NEW t \in ReportTasks, ReadCached(t) PROVE CallbackInv'
    <2> USE <1>3 DEF ReadCached
    <2>1. file[t] # NoReport /\ (file[t] # Torn => file[t] \in Report /\ ReportedTask[file[t]] = t)
        BY DEF CallbackTypeOK, NameInv, DrainInv
    <2>2. CallbackTypeOK' /\ TriesInv'
        BY <2>1 DEF CallbackTypeOK, TriesInv
    <2>3. NameInv'
        BY DEF CallbackTypeOK, NameInv
    <2>4. DrainInv'
        BY <2>1 DEF CallbackTypeOK, DrainInv
    <2>5. ReportIsKept'
        BY DEF CallbackTypeOK, ReportIsKept
    <2> QED BY <2>2, <2>3, <2>4, <2>5
<1> QED BY <1>1, <1>2, <1>3

\* A cached report is removed once it was accepted: the file still holds the
\* report that was read from it.
LEMMA PostCachedKeepsReports ==
    ASSUME CallbackInv, NEW ok \in BOOLEAN, PostCached(ok)
    PROVE  CallbackInv'
<1> USE CallbacksAssumption, TaskOfReport DEF PostCached, Reaches, CallbackInv
<1>1. reading \in Report /\ file[ReportedTask[reading]] = reading
    BY DEF CallbackTypeOK, DrainInv
<1>2. CallbackTypeOK' /\ TriesInv'
    BY <1>1 DEF CallbackTypeOK, TriesInv
<1>3. NameInv'
    BY DEF CallbackTypeOK, NameInv
<1>4. DrainInv'
    BY <1>1 DEF CallbackTypeOK, DrainInv
<1>5. ReportIsKept'
    BY <1>1 DEF CallbackTypeOK, ReportIsKept
<1> QED BY <1>2, <1>3, <1>4, <1>5

\* A crash loses what is in memory and may tear the file that is being written.
LEMMA CrashKeepsReports == ASSUME CallbackInv, BridgeCrashes PROVE CallbackInv'
<1> USE CallbacksAssumption, TaskOfReport DEF BridgeCrashes, Replaced, CallbackInv
<1>1. CallbackTypeOK' /\ TriesInv'
    BY DEF CallbackTypeOK, TriesInv
<1>2. NameInv'
    BY DEF CallbackTypeOK, NameInv
<1>3. DrainInv'
    BY DEF CallbackTypeOK, DrainInv
<1>4. ReportIsKept'
    BY DEF CallbackTypeOK, ReportIsKept
<1> QED BY <1>1, <1>2, <1>3, <1>4

LEMMA CallbackStepKeepsReports == CallbackInv /\ [CallbackNext]_callbackVars => CallbackInv'
<1>1. ASSUME CallbackInv, UNCHANGED callbackVars PROVE CallbackInv'
    BY <1>1 DEF CallbackInv, callbackVars, drainVars, CallbackTypeOK, TriesInv, NameInv, DrainInv, ReportIsKept
<1>2. ASSUME CallbackInv, CallbackNext PROVE CallbackInv'
    BY <1>2, PostingKeepsReports, CachingKeepsReports, ReadingKeepsReports, PostCachedKeepsReports, CrashKeepsReports
       DEF CallbackNext
<1> QED BY <1>1, <1>2

LEMMA CallbackInvariance == CallbackSpec => []CallbackInv
BY CallbackInitReports, CallbackStepKeepsReports, PTL DEF CallbackSpec

\* The state of the reports, of the cache and of a drain has its type: no
\* report is posted more often than MaxRetries allows (sendEventWithRetry).
THEOREM CallbackTypeCorrect == CallbackSpec => []CallbackTypeOK
<1>1. CallbackInv => CallbackTypeOK
    BY DEF CallbackInv
<1> QED BY <1>1, CallbackInvariance, PTL

\* No report of a finished task is given up but by a crash or by a later report
\* of its task, whatever posts, caches and drains do beside each other.
THEOREM ReportIsKeptHolds == CallbackSpec => []ReportIsKept
<1>1. CallbackInv => ReportIsKept
    BY DEF CallbackInv
<1> QED BY <1>1, CallbackInvariance, PTL

-----------------------------------------------------------------------------
(* The four of them in one run.                                             *)

\* A step of the composition is a step of one component and changes nothing of
\* the others.
LEMMA BridgeRefinesParts == BridgeSpec => AcpSpec /\ SessionSpec /\ TurnSpec /\ CallbackSpec
<1>1. BridgeInit => AcpInit /\ SessionInit /\ TurnInit /\ CallbackInit
    BY DEF BridgeInit
<1>2. [BridgeNext]_BridgeVars
        => [AcpNext]_acpVars /\ [SessionNext]_sessionVars /\ [TurnNext]_taskTurnVars /\ [CallbackNext]_callbackVars
    BY DEF BridgeNext, BridgeVars
<1> QED BY <1>1, <1>2, PTL DEF BridgeSpec, AcpSpec, SessionSpec, TurnSpec, CallbackSpec

\* Whichever of the bridge's components runs, all of them keep their types.
THEOREM BridgeTypeCorrect == BridgeSpec => []BridgeTypeOK
<1>1. AcpTypeOK /\ SessionTypeOK /\ TurnTypeOK /\ CallbackTypeOK => BridgeTypeOK
    BY DEF BridgeTypeOK
<1> QED BY <1>1, BridgeRefinesParts, AcpTypeCorrect, SessionTypeCorrect, TurnTypeCorrect, CallbackTypeCorrect, PTL

=============================================================================
