# A TLA+ model of open-agents-bridge

open-agents-bridge connects AI command line tools on a user's machine to a
cloud service. One process, the *bridge*, keeps a WebSocket to the server, runs
the tools as subprocesses (over ACP or a PTY), forwards their output, asks the
user for permissions, runs the tasks that an orchestrator assigns, and
integrates their git branches. A second program in the same repository, the
*node agent*, runs on a hosting node and turns work items into deployments,
previews and sandboxes.

This directory models the parts of these programs whose difficulty is
concurrency, ordering and failure. Paths below are relative to the repository;
`bridge.go` is `internal/bridge/bridge.go`.

1. Files and how to run them
2. Inventory: the system's parts, their state, what is hard about each
3. Modules: how state and actions correspond to the code
4. Runs: what each checks, bounds, fairness, findings
5. Proofs
6. What is only model-checked, and what the properties excuse
7. Not modelled, and why
8. Plan

## 1. Files

| Modules | What they model |
|---|---|
| `TaskPool` | admission and life of task sessions |
| `TaskTurn` | end of a task's turn: questions, watchdogs |
| `Uplink` | the WebSocket, its reconnects, the offline buffer |
| `Inbound`, `SessionPrompts` | messages from the server: queue, worker, prompt lanes; what that promises about prompts (abstract) |
| `AcpEngine` | the ACP adapter: turns, permissions, delegated commands |
| `BridgeSessions` | output of sessions to the page, questions to the user and back |
| `Callbacks` | reports of finished tasks |
| `SessionCommands` | the life of one interactive session |
| `MissionBranches` | worktrees, branches, merges and deliveries |
| `SourceUploads` | trees, sessions and images that leave the machine |
| `LocalPreviews` | compose stacks on the user's machine |
| `PreviewBuilds` | builds of a mission's preview, their cache and revives |
| `SelfUpdate` | the update command |
| `MachineSettings` | rules, configuration file, scanner |
| `NodeAgent` | the node's work loop, deployments and sandboxes |
| `NodeStore` | the node's object store and repositories |
| `NodePreviews` | the node's runtime and session previews |
| `UserNode` | a user's machine as a node: registration, daemon, Caddy, certificates |
| `TaskPoolProofs` | theorems about `TaskPool` |
| `InboundProofs` | theorems about `Inbound` |
| `EngineProofs` | theorems about `AcpEngine`, `BridgeSessions`, `TaskTurn`, `Callbacks` and their composition `MCBridge` |
| `SessionProofs` | theorems about `SessionCommands` and `MissionBranches` |
| `AgentProofs` | theorems about `NodeAgent` |
| `NodeProofs` | theorems about `NodeStore` and `NodePreviews` |
| `MachineProofs` | theorems about `SourceUploads`, `LocalPreviews`, `PreviewBuilds`, `SelfUpdate`, `MachineSettings`, `UserNode`, `Uplink` |
| `ResourceProofs` | the composition of `MCResources` |
| `MC*`, `*.cfg` | instances for TLC |

`PROJECT.json` lists components, runs, mutants, the map from definitions to
source lines, findings, hazards and theorems. Check a run with `tlc -workers 2
-config TaskPool.cfg MCTaskPool.tla`, a proof with `tlapm InboundProofs.tla`.

## 2. Inventory

### The bridge

**Task pool and task sessions** (`bridge.go` 3693-4002 and 4546-4626,
`session/manager.go`, `session/manager_new.go`). State: the session map and its
lock, the waiting queue and its lock, `taskMeta`, the pool size. Operations:
`handleWorkflowTaskAssign` on the message worker, `drainTaskQueue` in a
goroutine after every session close, `launchTaskSession`,
`Manager.createSession`, `StopWithExitCode`, `StopDead`, `handleSessionExit` in
a goroutine. Hard: the pool check and the registration are one critical
section, but every caller has decided on an earlier snapshot; `Reconnect` and
`Connect` run without the lock and clean up by id; everything after a session's
end runs in its own goroutine and finds its data by task id, while the
orchestrator may already have dispatched the next attempt. Correct: the pool
bound; no assignment disappears; one report for each attempt, with the right
generation; a live session is not dropped; a queued task starts.

**Questions, watchdogs and turn end** (`bridge.go` 3579-3640, 4675-4830).
State: one channel for each task with an open question, one timer for each task
session. Hard: a second question, an answer, the five-minute time-out, the end
of the turn and the next attempt of the same task overlap. Correct: no task is
parked for ever.

**WebSocket uplink** (`bridge.go` 729-1016, 2771-2831, 2858-3126, 3263-3340,
`instance_conflict.go`, `reconnect/strategy.go`). State: `conn` and its lock,
the offline buffer and its lock, the reconnect budget, the slow-retry and
standby flags, the conflict and heartbeat counters. Hard: `conn` is read
without its lock, cleared by any failed write and by heartbeat goroutines; the
buffer has a lock of its own. Correct: no message twice; none lost silently; one
open socket; after an outage the bridge dials again.

**Inbound path** (`bridge.go` 980-1043, `prompt_lane.go`). State: the channel
`messageQueue` (100), the lanes and their lock. Hard: full-check, drain and
retry are three steps; a lane's goroutine retires while a prompt is added;
handlers panic or never return. Correct: prompts of a session in order and one
at a time; nothing else waits for them; the queue gives up its oldest messages
only.

**Session output and permissions** (`bridge.go` 1051-1427, 2336-2528,
3130-3226). State: a channel and a goroutine for each session, content batches
and their timer, three maps from request ids to session, options and the message
to show again. Hard: overflow goes to goroutines of their own; a worker retires
while its session id is created again; ids are counters of each session while
two of the maps are keyed by the id alone. Correct: output in order and whole;
a question that an engine waits on is on the page.

**Interactive session commands** (`bridge.go` 1682-2334, 2704-2769,
`isolated_session.go`, `spec_status.go`). Start, resume, send with re-creation,
stop, change of directory and mode, fallback. Hard: stop and mode changes run on
the worker and overtake prompts in a lane; commands of one id interleave with
`Connect` outside the lock. Correct: no engine without a registered session; the
mode that is shown is the mode in force.

**ACP adapter** (`protocol/acp.go`, `manager.go`). State: pending responses, the
latch `isProcessing`, the turn watchdog, pending permissions, terminals, the
process. Hard: answers, turn end, watchdog, disconnect and crash resolve the
same entries. Correct: the latch says what is so; the agent gets an answer for
its commands; a prompt goes through.

**Orchestrator callbacks** (`workflows/callback.go`). Five attempts, then one
cache file for each task, drained after a reconnect. Correct: a report is kept
until it arrived.

**Worktrees, merge and delivery** (`workflows/worktree.go`, `delivery.go`,
`session_worktree.go`, `mission_delivery.go`). Git operations with partial
failure, beside agents, exits and the user. Correct: no change is lost; a merged
task stays merged; the user's branches change by deliveries only.

**Previews and deploy sources** (`preview/`, `deploysource/`, `bridge.go`
4120-4452). Poll, claim, pack or build, declare, upload, complete. Hard: the
tree is edited while it is read; two runs of one request; the cache is shared by
builds and revives. Correct: an object's content is its name; a completion is
earned; what a revive declares it can serve; a settled row is true.

**Self update** (`updater/`): two renames with a backup between them, a crash
between any two steps. **Configuration and rules** (`config/`, `rules/`,
`scanner_rules.go`): one file for all machines, written as a whole by several
goroutines and processes. **Instance lock**, **handshake and keys**,
**scanners**, **markdown boundaries and loop detection**, **state, metrics,
alerts, logs**, **replay**, **storage**, **command line, service, tray**:
sequential, or read by nothing in the control flow.

### The node agent

**Work loop and sandboxes** (`node/agent/agent.go`, `sandbox.go`, `wake.go`,
`store/`, `githttp/`, `ingress/`). State: claims in flight, endpoints and their
back-off, routes, repositories, probe streaks. Hard: work items are offered
again until reported, claims live in memory only, a materialize runs beside the
loop. Correct: what was released leaves nothing behind; a live row is really
served; a row that waits is handled; objects are what they are named.

**Runtime and session previews** (`runtimepreview.go`, `sessionpreview.go`).
State by mission, claims by instance, files for recovery; up, switch, stop, idle
sweep, probe. Correct: a running preview is watched, a stopped one is gone, a
host leads to its own container.

**A user's machine as a node** (`node/register/`, `node/run.go`,
`askserver.go`, `caddy.go`). Registration writes two files; the daemon brings up
a Caddy of its own or an operator's; certificates are asked for. Correct:
certificates only for labels that are ready here; the bridge on the machine
knows the same node; the managed Caddy is the pinned one on the present
configuration.

### How the parts interact

```
server --WebSocket--> readLoop --messageQueue--> messageWorker --+--> handlers
  (Uplink)              |  ^            (Inbound)                 +--> prompt lanes --> Session.Send
                        |  | conn (connMu)                                                |
                        |  +-- sendMessage <--- output workers <--- protocol callback <-- adapter
                        |                        (BridgeSessions)                 (AcpEngine)
                        +-- reconnect() -> Manager.StopDead
handlers -- session:* --> Manager (sessions)                       (SessionCommands)
handlers -- task_assign --> launchTaskSession --> Manager          (TaskPool, TaskTurn)
Manager.StopWithExitCode --go--> drainTaskQueue ; --go--> handleSessionExit
                              --> callbacks (Callbacks) ; commit, push (MissionBranches)
                              --> preview build (PreviewBuilds)
poll loops --go--> uploads (SourceUploads), local stacks (LocalPreviews), revives
updater, settings: SelfUpdate, MachineSettings

platform --HTTP work items--> agent loop (NodeAgent) --go--> materialize (NodeStore)
                                 +--> previews (NodePreviews)   Caddy <-- daemon (UserNode)
```

Everything marked `go` is a goroutine with no order to its siblings. The maps
of the bridge are each behind a lock of their own, so anything that touches two
of them is not atomic.

## 3. Modules

Components that share variables are modelled together or composed by a
conjunction of their actions. Components that meet only in a call whose outcome
the other side leaves open are modules of their own, in which that outcome is
nondeterministic: `MCBridge` and `MCResources` put several of them into one run,
one per behaviour, because a product of modules without a shared variable only
repeats each once for every state of the others.

**TaskPool.** The orchestrator dispatches attempts of tasks; the worker
(`Worker`) handles them, and goroutines (`Drain`) started by the capacity
callback drain the queue. Both are *launchers* with the same control points:
`assign` (before the caller's count), `full` (about to enqueue), `register`
(entering `createSession`), `reconnect`, `connecting`, `started` (session made,
meta not stored), `send`, `abort`. `sess[t]` is the session map at id `t`, named
by the attempt that made the object; `eng` follows the engine and adapter of each
object. `stops`, `deaths`, `exits` and `drains` are the pending goroutines, each
of which may run at any later time, which is what Go promises. Two orchestrators
are modelled: a patient one that dispatches the next attempt only after a
terminal report, and an impatient one.

**TaskTurn.** One task over several attempts that share its id. `Launch`
registers and prompts, `ArmTaskWatchdog` follows separately, as in the code. A
question has its channel (`answers`) and its waiter; `FindQuestion`,
`PostAnswer`, `ClearQuestion` are the three steps of
`handleWorkflowTaskAnswer`. Stops carry an exit code and no attempt.

**Uplink.** `readLoop` is a sequence of control points (`top`, `dial`,
`welcome`, `flush`, `notify`, `read`, `reading`) with three ends: `standby`,
`returned` and `panic`. Heartbeat goroutines run `updateLastSeen`, whose fifth
failure calls `reconnect()`, in two steps, because `readLoop` looks at `conn`
without the lock. A write to a connection whose peer is gone may succeed or
fail. `budget` is the ten minutes: fresh or spent.

**Inbound and SessionPrompts.** A message is its number in reading order.
`readLoop`'s enqueue is its three `select` statements as three steps; a lane is
an object with pending prompts and the goroutines that run it, whose number is
kept instead of assumed to be one. `SessionPrompts` knows prompts that wait and
prompts that run; `Inbound` implements it.

**AcpEngine.** The two pipes are sequences of frames; the agent is external and
may stay silent for ever at any point, answer out of turn or die. `SendMessage`
is `StartSend` (`waitForTurnEnd`), then `TurnEnded`, `CancelStale` or
`GraceEnds`, then `SendPrompt`. Time is `quiet`, which grows only in silence and
passes through the three limits of the code. A terminal is gated, runs, is
finished or rejected, and is forgotten; its waiter is a goroutine of its own.

**BridgeSessions.** `Emit` is `dispatchSessionOutput` with its overflow. A
worker that finds its session gone is `leaving` before it takes its channel out;
what it drains then is `stray`. `HandleSession*` run on the message worker and
are one step each, except for the answer to a question, whose delivery comes
after its routing. The page is external: it shows what reaches it and answers.

**Callbacks.** Posting, retrying and caching of each report, the drain under
`cacheMu`, and a crash at any step. `CacheEvent` does not take that lock's view
of the directory into account, as in the code: it may add a file while the drain
goes through its list.

**SessionCommands.** One session id; the worker and the lane are the two threads
that create its objects, each stopped between the steps of `createSession`.
Engines report changes of mode through the output channel, so a report can
outlive its object. `FallBack` replaces a dead ACP engine by a PTY.

**MissionBranches.** A commit is its history: the set of changes it contains. An
ancestor is a subset, a merge a union, and a conflict a choice. Worktrees may be
dirty; one git command is one step. Agents, the goroutines of session exits and
the user act between any two.

**SourceUploads.** One request of one of five tiers, offered again while it is
uploaded; the in-flight slot keeps a second upload out. Files have versions, so a
name (the sha of what was packed) and the bytes under it can differ. Every
request may fail, be lost or be superseded, and a worker that fails is gone.

**LocalPreviews.** The platform's row, the answer of a poll on its way, the
in-flight slot, and the executions of `docker compose`.

**PreviewBuilds.** Builds of a task (guarded by the mission's slot) and of merges
(not guarded), which write one output directory while an earlier one of it is
hashed, stored or uploaded. The cache and the manifest are separate files.

**SelfUpdate.** Two runs of the command over releases; installed file, backup and
staged file hold a version, a part of one, or nothing.

**MachineSettings.** Topics with versions on the platform, and for each the
copies in memory, engine, scanner and file. A handler has read, then writes
what it read with its own part replaced. Another machine's entry stands for the
rest of the shared file.

**NodeAgent.** The API's rows, the loop's passes over endpoints with their
back-off, the handler of the present item as control points, and the
materialize goroutine of each deployment. What docker, Caddy and git hold is
state of its own, so that a crash keeps it. `Ask`, `Restart` and `AskStop` are
the users.

**NodeStore.** Files are inodes: names, hard links and open descriptors may
share one. A download is `Open`, `Answered` (with a range, ignored, refused),
`Chunk`s, then `Publish` or `Discard`. `ImportLocal` links a scratch file that
the user may go on editing.

**NodePreviews.** Instances and their slots: the application, its container,
port, route, state file and in-memory state are per slot as in the code, the
claims per instance. The sweep takes a snapshot and looks at one state per step;
a stop is container, route, state, report. The node allocates ports to runtime
previews, the API allocates those of session previews from a range of its own
(`HostPort`; `config.go:116` keeps the two apart, the node's by default 32100 to
32199).

**UserNode.** Registration in its four writes, the daemon's start in its steps,
the Caddy process with the binary and configuration it was started with, TLS
handshakes and the answers they wait for or that are cached. Time is counted in
ticks of the two limits.

## 4. Runs

| Run | Bounds | States | What it shows |
|---|---|---|---|
| `task_pool` | 2 tasks, 1 slot, 3 dispatches of up to 3 attempts (2 for the impatient orchestrator), 1 drain | 4.1 million | `PoolBound`, `NoAssignmentLost`, `LiveSessionKept` for both orchestrators, `ReportsMatchAttempts` for the patient one |
| `task_pool_echo`, `task_pool_starve` | the same with 2 attempts; 1 attempt and 2 dispatches | violation | findings 1 and 2 |
| `uplink` | 1 socket name, 4 messages, buffer of 2, 1 heartbeat | 1.2 million | `AtMostOnce`, `NoSilentLoss`, `OneConnection`, `Recovers` |
| `uplink_flush`, `uplink_window` | 3 messages; 5 heartbeat failures | violation | findings 3 and 4 |
| `inbound` | 2 sessions, 2 lanes, 4 messages, queue of 2 | 0.3 million | `PromptOrder`, `MessagesAreHandled`, refinement of `SessionPrompts` |
| `node` | 2 endpoints, 1 deployment or 1 sandbox, 1 trouble, 3 requests | 0.9 million | `ReleasedLeavesNothing`, `LiveRowIsServed`, `FirstProbeSpares`, `RowsAreServed` |
| `store_objects` | 1 compose file, no fault | violation | finding 5 |
| `bridge` | four components, see below | 1.0 million | `TurnLatch`, `NoDeafWaiter`, `PromptGoesThrough`, `OutputInOrder`, `QuestionStaysVisible`, `NoParkedTask`, `ReportIsKept` |
| `mission_checkout` | 2 tasks, 2 changes, 4 commands | violation | finding 6 |
| `resources` | ten components, see below | 3.7 million | one property each, two of the store and of the previews |

The components of `bridge`: `AcpEngine` with 2 prompts, a question and a
terminal, 2 frames of each pipe's kind (544 thousand states); `BridgeSessions`
with 2 sessions that share a question id, a channel of one and 3 frames (331);
`TaskTurn` with 2 attempts and 2 questions (96); `Callbacks` with 3 reports of 2
tasks and 2 tries (15).

The components of `resources`, with their properties: `NodeStore`, two
materializes that share an object (516): `RepoIsWhole`,
`CleanAttemptSucceeds`; `NodePreviews`, two revisions of a mission, or two
missions on two ports, or a session preview with a port of its own (948): `PreviewsAreAccounted`,
`LeadsHome`; `MissionBranches`, two tasks and an isolated session (281):
`WorkIsKept`; `SessionCommands`, two objects and three commands (773):
`SessionsAreTrue`; `SourceUploads`, two files, two edits, two hands (280):
`UploadsAreTrue`; `LocalPreviews` (6): `SettledIsTrue`; `PreviewBuilds`, two
pages, two products, a revive (354): `ReviveCanServe`; `SelfUpdate`, two
releases, three runs (5): `BinaryRemains`; `MachineSettings`, two edits (106):
`SettingsAgree`; `UserNode`, two nodes, one label, two handshakes (381):
`NodeIsVouchedFor`.

Why the bounds are enough:

- `task_pool`: one slot and two tasks are the smallest pool in which two
  launchers race for the last slot, and two attempts the smallest number with a
  re-dispatch; with three dispatches one task may be re-dispatched while the
  other holds the slot. The third attempt is needed by `ReportsMatchAttempts`: a
  late stop of the first attempt's session can meet the second's, whose exit then
  reports while the third runs.
- `uplink`: a buffer of two evicts on the third message, the fourth shows that
  what is left is still flushed once. Socket names are used again once closed,
  so one name stands for a sequence of connections.
- `inbound`: a queue of two with four messages makes room for a full queue whose
  oldest element is not the one just read, and two prompts in one lane while a
  third waits in the queue.
- `node`: two endpoints show that one does not starve the other; a single
  deployment is enough for what goes by its id, and one trouble per behaviour
  meets every step of it. The sandbox shares nothing with the deployment but the
  loop, so each is explored in behaviours of its own.
- `bridge`: two prompts are the smallest number where one waits; one question
  and one command meet every end of a turn. Two sessions under one id are what
  the routing by id can confuse; a channel of one overflows at the second frame.
  Two attempts and two questions make every leftover of the first meet the
  second. Three reports of two tasks replace a file and leave another alone.
- `resources`: two owners of what is shared (an object, a port, a slot, a branch,
  a file) and one or two faults at any step. Two edits change a file twice
  between being packed and being read; three commands are a start, an
  interruption and what comes after it; two releases and three runs are an
  update, one after it, and one beside them.

Bounds that cut behaviour are constants named `Max*` (or `MsgCount`, `Drain`,
`FailLimit`), each commented as a bound where it is declared. No run checks for
deadlock: each model ends legitimately, when the requests of the bound are used
up or the program has stopped.

### Fairness

- `TaskPool`: every goroutine that can run does; an engine that has a prompt
  ends its turn (the idle watchdog would stop it). The orchestrator, crashes and
  the WebSocket reconnect are not fair. Only `QueuedTaskStarts` uses this.
- `Uplink`: `readLoop` runs, `reconnect()` runs once entered, and a dial that is
  tried again and again succeeds one time (strong fairness of the dial: a server
  that stays away for ever refutes nothing about the bridge).
- `Inbound`: `readLoop`'s enqueue, the worker and a lane's next prompt run. The
  worker's own handlers are taken to return, since that is what the code relies
  on for them; nothing is assumed of prompt handlers, which wait for an engine.
- `AcpEngine` (`PromptGoesThrough`): the bridge's own goroutines and timers. The
  agent and the user are not fair at all: what keeps a prompt from waiting for
  ever is the bridge's patience.
- `NodeAgent` (`RowsAreServed`): the loop and each materialize goroutine. Users
  and faults are not fair; a row whose endpoint answers 401 is excused, because
  the agent gives that endpoint up.

The other components have safety properties only.

### Findings

Statements of the source that do not hold of the code, each shown by a run:

1. `bridge.go:308-311`, a report "echoes the generation that STARTED this run".
   `handleSessionExit` finds the generation by task id when its goroutine runs;
   a re-dispatch in between makes it report the later one (`task_pool_echo`).
2. `bridge.go:3981-3985`, the drain starts queued tasks "as pool capacity
   frees". A task enqueued after the last drain ran, or a slot freed by a failed
   `Connect`, leaves the task in the queue with an empty pool
   (`task_pool_starve`).
3. `bridge.go:3300`, "Put remaining messages back into buffer". Only the message
   whose write failed is put back (`uplink_flush`).
4. `bridge.go:3062-3067`, a fresh budget for every outage. The lost connection
   is visible before the budget is reset, so `readLoop` can take the five-minute
   path at once (`uplink_window`).
5. `node/store/store.go:7`, "content-addressed, sha-verified object store". The
   tree is hard-linked to the objects and the rewritten compose file is then
   written in place, through the link, into the object (`store_objects`).
6. `workflows/delivery.go:16`, "a mission never writes the user's main
   checkout". A task dispatched again after its merge gets no worktree, works in
   the project's directory, and its exit commits there (`mission_checkout`).

Modelling met more that no run singles out, because nothing in the repository
promises the opposite or because the property excuses it by name (section 6).

## 5. Proofs

Each theorem is `Spec => []P`, `Spec => [][A]_vars` or, for the refinement,
`Spec => Abstract!Spec`, for a component's own specification and every value of
its constants: any number of tasks, attempts, sessions, messages, frames, files,
versions, runs and faults. What is assumed of the
constants is the named assumption of the component's module and nothing else:
that names differ (`NoTask`, `NoConn`, `Worker`, ... are none of the things they
stand beside), that numbers are numbers, that a pool, a queue and a pipe hold at
least one, the offline buffer two (`Uplink`). Some say more.
`PoolAssumption`: tasks are finitely many, because a slot is counted.
`MissionBranchesAssumption`: a mission's tasks are finitely many, because an order
to merge lists them. `NodeStoreAssumption`: two objects have scratch files of their
own. `NodePreviewsAssumption`: a session preview has a slot of its own, and the two
ranges of ports are disjoint (`config.go:116`). `NodeAgentAssumption`: a row is owned by one endpoint and is a deployment or a
sandbox, not both.
`SourceUploadsAssumption`: files are finitely many and the parts of a chunked
declare are numbered without a gap, as the loop over the parts makes them
(`deploysource.go:429`).
`CallbacksAssumption`: a torn file is no report. `UserNodeAssumption`: there is
a label to ask for.

**TaskPool.** `TypeCorrect` needs more than `TypeOK`: that a launcher past its
first check holds a real assignment and past `createSession` a real object
(`JobOK`); `TypeInv` is the inductive conjunction. `PoolBoundHolds`: the number
of registered sessions grows only in `Admit`, whose check excludes the id
itself and is made under the lock; every other step shrinks or keeps the set,
so neither the worker's nor the drains' snapshots matter.
`NoAssignmentLostHolds` rests on `Tidy`: an idle launcher holds nothing, and
past `StoreMeta` the assignment is answered; each action of a launcher then
hands the assignment on, to the queue, to its own next step or to `answered`.

**Inbound.** `IInv` has one part for each stage of a message: `ReadInv` (what
was read, what `readLoop` holds), `QueueInv` (the queue holds the queued
messages in order), `WorkerInv` (one message at a time), `OrderInv` (no message
overtakes an earlier one of its session), `LaneInv` (every lane is either its
session's lane with exactly one goroutine, or unused) and `PromptInv` (lanes
hold the prompts that are in a lane or running, in order). The order of a
session's prompts needs all of them: `PromptOrder` speaks of the end of the
path only. `PromptOrderHolds`, `OneAtATimeHolds`, `NoStrandedPromptHolds` and
`DropsOldestHolds` follow; `InboundImplements` shows that every step is a
`SessionPrompts` step or a stutter, with `StageStep` listing what a step can do
to the stage of one message.

**Reports of tasks** (`TaskPoolProofs`, on top of `TypeInv`). `LiveInv` says where
an assignment is and how far its engine is: `PlaceInv` (an assignment is in the
messages, in the queue or with one launcher, once), `EngineInv` (an engine exists
only when its session was registered, belongs to the launcher until it
connected, and ends only after that), `ExitInv` (a session that was stopped is
stopped once and does not come back). `LiveSessionKeptHolds` follows.
`ReportInv` adds `MetaInv` (no report of an attempt before its meta is stored,
none while it is) and `PatientInv` (with a patient orchestrator every attempt but
the last is reported, so that a session, or an exit, is that of the last);
`ReportsMatchAttemptsHolds` is a part of it. The proof found what a run with two
attempts could not: a session may be stopped for the end of an earlier one of
its task (`bridge.go:1298` stops by task id), and its early exit then reports a
later attempt. The property now excuses such sessions by name, and the run has
three attempts.

**Uplink.** `LinkInv` ties the open sockets to `conn`: exactly the socket in
`conn` is not closed, and `readLoop` dials only without one. `MessageInv` gives
every message a place: buffered or about to be flushed, once, and then not
written; written at most once; gone only for a reason that `NoSilentLoss`
names. With both, heartbeat goroutines need no invariant of their own: they
close what they clear.

**AcpEngine.** `LatchInv` is the property with the witness that makes it
inductive: an unanswered prompt that nobody gave up is the one the latch was set
for. `TerminalInv` says that a command the adapter knows is gated, runs or has its
result. It needs `FrameInv` and `Once`: a frame of the agent is made once and
read once, so a terminal that is created twice is no behaviour.

**BridgeSessions** (in `EngineProofs`). `Path(s)` is everything of a session
from the uplink back to the engine: sent, batched, drained by a retired worker,
in the channel; every step leaves it alone, appends to it or takes one frame out
of its unread part. `OrderInv`, that the text on it is increasing and complete,
needs `FlowInv` (a new worker serves only when the old one is done, unless the
session is excused) and `LifeInv` (the exit of an engine is the last unread
frame, so that the session goes only when nothing is unread).
`QuestionStaysVisibleHolds` needs more than the page: `Shown` (an open question
is unread, being answered, or pending and then on the page when no re-send is
owed), `IdleInv` (a question asked after the engine idled is behind the idle
frame, so `forgetSessionPermissions` does not forget it) and `AskedInv` (whatever
is recorded, shown or routed was asked, so that the answer to an id one session
used goes to that session). `SessionInv` is their conjunction; sessions that left
the channel's order have types and flow only.

**TaskTurn.** `NoParkedTask` depends on who is left to end a turn:
`PendingInv` (the pending question has a waiter with an empty channel, or its
answer was just posted), `WatchedInv` (a registered session is watched, about to
be, or about to be stopped), `TurnAskedInv` and `RemovalInv` (what is not yet asked
or launched has left no trace).

**Callbacks.** `NameInv`: a file is named after the task of the report in it.
`DrainInv`: what a drain has listed and what it is posting stays on disk under
the lock. `TriesInv` keeps the retries in their bound.

**The bridge's composition** (`MCBridge`). `BridgeRefinesParts`: every step of the
composition is a step or a stutter of each part, so that `BridgeTypeCorrect`
follows from the parts' type theorems.

**SourceUploads.** `ClaimInv`: one upload at a time, of a snapshot not newer than
the request's. For each upload `ReadInv`: what is exported, hashed and held by a
worker is of one pack; and `SentInv`: a file whose part was declared (`Due`) is
stored, in hand or still to do, unless a worker failed and took the upload with
it. Both together give `CompleteIsEarned`; the attempt to prove it showed that
parts have to be numbered without gaps, which the assumption now says.

**LocalPreviews.** `SlotInv`: one action at a time, and a report still matches the
stack. `PendingRow`: an answer that was not overtaken belongs to a row that waits.

**PreviewBuilds.** `ProgressInv` (what a build has read of its directory),
`BlobInv` (a blob has the bytes of its name, or is known to be spoilt) and
`CacheInv`: blobs come before the manifest that names them and none is removed,
so what a manifest or a revive names is there, however builds overlap.

**SelfUpdate.** `StagedInv`: what is renamed is a whole, verified binary, as is
whatever is installed or kept. `OneUpdateInv`: one update at a time never leaves
both places empty.

**MachineSettings.** The property speaks of rest, the invariant of every moment:
`RulesInv` and `PushInv` (whatever pushes wait, the last one has the platform's
rules), `AloneInv` (without an overlap no two handlers are at one subject), and
under it `EngineInv`, `DiskInv`, `ScannerInv`: each copy agrees, or there is a
handler that is about to make it agree and holds the right values.

**UserNode.** `RegisterPart` follows a registration through its four writes
(`EnrolInv`), `CaddyPart` the start of the daemon (`StartInv`: the Caddy is
started with the wanted file and the pinned binary), `AskPart` the handshakes.
`LapseInv` is its core: for how long a label can have lapsed when a certificate is
issued, by the age of the question and the time the answer is remembered.

**NodeStore.** The theorems are about a node that serves no derived compose file
(`Derived(t) = {}`), because with one `RepoIsWhole` is false (finding 5). An inode
may have several names, so the proof first says which share: `NameInv` and
`OneWriterInv` (an inode is one object's or one `.part`'s, unless two downloads of it
overlapped or it is a scratch file), `OpenInv` (a descriptor is of its object's
`.part` unless that was removed under it), `DownloadInv` (what was hashed is what
is in the file). `PublishedWhole` and `TreeInv` follow: `RepoIsWholeHolds`.
For `CleanAttemptSucceedsHolds` one has to know how many tries the past can cost.
`SourInv` counts: every wrong `.part` is the work of a fault, each costs an attempt
one try, and the failed try removes it (`TornInv` and `RefusedInv` are the two
exceptions the property names). The proof found what the runs' bound hid: with as
many faults as tries, the wrong leftovers of others can use up all tries of an
attempt that met no fault itself. The property now says so.

**SessionCommands.** Objects of one id exist beside each other, so `ObjectTypes`
and `ThreadTypes` say what each object and each of the two threads has, and
`KindInv` what a PTY never has. `ReachInv`: an engine, or an object a thread is
about to connect, is the registered one or is known to have been raced. `ModeInv`
gives the mode shown a place where it is still on its way to the mode enforced
(`OnItsWay`): in the last report, with a thread that is about to record it, or it
arrived.

**MissionBranches.** `TreesInv`: a linked worktree has its branch, what is
integrated has one, and a handler at work has tasks left. `Held(x)`: where a change
can be, in a worktree, the user's checkout, or a branch here or at the remote;
`HeldInv` says that every change not removed by force is held, and each command
hands it on before it takes the first place away. `WorkIsKept` is that and
`MergedStaysMerged`. Only the head and the tail of a merge order matter, so the
proof needs no induction over it.

**NodeAgent.** `ItemInv`: one item of a row is at work at a time, in the batch, in
the synchronous handler or in a goroutine; the claim and the poll that waits for an
empty batch see to it. So a row can be followed between the poll that offered an
item and its report: `RowInv` lists for each action the states the row can have
meanwhile (`Meanwhile`), with users who stop, restart and delete at any moment.
`ReleaseInv`, `SandboxInv` and `LiveInv` then say what a handler or a goroutine has
done so far, step by step; `ReleasedLeavesNothingHolds` and
`LiveRowIsServedHolds` are what is left at the end. `StreakInv` bounds the streak a
new life starts with and `DeadInv` says what a streak was spent on:
`FirstProbeSparesHolds`. The attempt to prove it showed a case that one fault could
not reach: a process that crashed probes its rows, its first watermark is lost, it
probes them again, and the next watermark lets the API materialize them anew with a
streak of two. `FirstProbeSpares` now excuses it.

**NodePreviews.** What a slot tracks is one instance, but several of them can be on
their way into it: `RowInv` ties each up in flight to a row that waits for it, so
that two ups of a slot, or an up and a stop, can only meet in a slot that is then
known as `crossed`. `HandInv` says what a stop has undone so far and that it stays
undone while the stop is under way, `SweepInv` what the copied list of a sweep can
still hold. With them `RunInv` and `StopInv` are inductive, and
`PreviewsAreAccountedHolds` follows. For `LeadsHomeHolds` a port has to belong to a
slot from the moment it is allocated: `Claims` counts the tracked state, the
container and an up that is building, and `PortInv` says that two slots claim one
port only if two ups were given it in flight; `SessionPortInv` is the same for the
API's ports. `Home` then ties the route to the state. The proof found two things
that two ports could not show. The two kinds of previews must not share a port
range: the model now has both, disjoint as the configuration describes them, by
`NodePreviewsAssumption`. And a sweep can route a host to the port of a state that
an up replaced after the list was copied, which by then may be another mission's;
likewise the old instance's host while the API has not heard of the switch.
`LeadsHome` excuses the two cases by name (`misled`, `Replacing`).

**The composition of the resources** (`ResourceProofs`). `ResourcesRefineParts`:
whichever component owns a behaviour, each of the ten makes its own steps or
stutters, so that `ResourceTypeCorrect` follows from their type theorems, and the
properties proved of each hold in the composition too.

## 6. Only model-checked, and what is excused

Liveness is outside the prover's reach: `Recovers`, `MessagesAreHandled`,
`PromptGoesThrough`, `RowsAreServed`, `QueuedTaskStarts`. Every invariant and
action property of the passing runs is a theorem; `RepoIsWhole` and
`CleanAttemptSucceeds` for tasks without derived files only (finding 5).

Where the code does not hold a property in a case that is narrow and known, the
property excuses that case through a ghost variable, so that it says that there
is no other:

| Property | Excused | Because |
|---|---|---|
| `ReportsMatchAttempts` | an impatient orchestrator; a session stopped for the end of an earlier one of its task | finding 1; a stop goes by the task id (`bridge.go:1298`) |
| `Recovers` | the read of a connection another goroutine cleared | `bridge.go:932` dereferences it |
| `NoParkedTask` | an attempt whose watchdog the removal of the one before cancelled | `removeStatusTracker` goes by task id |
| `OutputInOrder` | sessions that overflowed, or were re-created under a draining worker | `bridge.go:1068`, `1088` |
| `QuestionStaysVisible` | an id two sessions used | `permSessionMap`, `bridge.go:2487` |
| `TurnLatch` | two prompts past `waitForTurnEnd` at once; the late result of a prompt given up | the check is not atomic with the latch; a `stopReason` ends any turn (`acp.go:1808`) |
| `ReportIsKept` | a report replaced by another of its task; a crash while it is in memory | one file per task |
| `SessionsAreTrue` | a session unregistered while its id was being connected; modes that overlap or were not answered | `Connect` runs without the lock |
| `WorkIsKept` | what `task_cleanup` removed by force | it is meant to |
| `UploadsAreTrue` | the bytes of a session's directory; a superseded snapshot | that tier does not compare with the packed sha |
| `SettledIsTrue` | an action of an answer that was on its way when its row was settled | the slot is taken after the answer |
| `ReviveCanServe` | the bytes of a blob cut short, or built again before it was copied | blobs are written in place and never again |
| `BinaryRemains` | two updates at a time | nothing locks the files |
| `SettingsAgree` | overlapping saves or handlers, a save cut short, a fetch that failed or came late | no lock; rules are fetched at start only |
| `PreviewsAreAccounted`, `LeadsHome` | a lost report; a stop that met an up of its slot; a replaced instance the API has not heard of | reports are not repeated; claims are per instance |
| `LeadsHome` | two ups in flight with one port; a sweep that routes by a state an up replaced | `allocatePort` reserves nothing; `SweepIdle` works on a list it copied |
| `FirstProbeSpares` | a user's own node; a process whose watermark was lost | its user stops and restarts by hand; it probes rows before the API heard of the boot |
| `RepoIsWhole`, `CleanAttemptSucceeds` | two downloads of an object at once; an edited scratch file; a complete `.part` after a crash; as many faults as tries | `.part` is shared, links too; each wrong one costs a try |
| `NodeIsVouchedFor` | between the two writes of a registration, or when the second failed | it is only logged |

Other observations, for the maintainers: a merged task's build can be followed
by an older build of a task that finishes later, although the merge is meant to
be the last word (`bridge.go` near 4158). A killed daemon leaves its Caddy
behind, and a later download cannot replace the running binary. A managed Caddy
that exits is not noticed. A confirm whose answer is lost issues a node nobody
holds. A running daemon keeps the node it was started with when the machine is
registered again. Five errors in a row mark the ACP adapter as disconnected, and
its process is then not ended by `Disconnect`. Thought and text of one flush
leave in map order (`bridge.go:3181`). `cleanupIdleSessions` finds nothing: it
looks for sessions that are not active, and a session leaves the registry in the
step that ends its activity.

## 7. Not modelled, and why

- Cryptography, scanners, parsing, formatting, compose rewriting, UTF-8 and
  markdown boundaries, loop detection: functions of data without control.
- HTTP, git, docker and Coolify themselves: their outcomes are nondeterministic
  inputs. The API clients are calls of them.
- Metrics, usage sampling, alerts, logs, `stateManager`, notifications: written
  and not read by the control flow. Batches of task output are best effort.
- The instance lock (a kernel lock), snapshots and credentials (files read
  within one call), Windows and tray integration, installers, command line
  dialogues, demos and test servers.
- Within modelled components: provider fallback of task sessions, resume with
  the earlier conversation as context, file requests and stderr of ACP agents,
  delivery by push and pull request, `StopAll`, the restore pushes after a
  connect. `PROJECT.json` lists them per component.
- The socket on which hooks of other tools ask for permission
  (`permission/hook.go`): requests of their own beside the sessions' questions.
- Code that nothing in the two programs calls (the packages `cache`, `hook` and
  `adapter`, `updater.AutoCheck`).

## 8. Plan

What is left is mostly proof. In the order of worth:

1. The theorems about `NodeStore` for tasks with derived files, which needs the
   name of each inode a rewritten compose file went through.
2. `MissionBranches` and `SessionCommands` as one: an isolated session's worktree
   through the life of its session.

Worth modelling afterwards: provider fallback in `TaskTurn`, and an abstract
FIFO per session that `BridgeSessions` implements outside its excused cases.
