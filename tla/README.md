# Verification of the TARS agent daemon

TARS is a local agent runtime. One daemon process holds sessions, runs an agent
for each message, executes tools in containers or on the host, keeps its state in
SQLite, and streams events to terminal, web and command line clients. An evaluation harness and a
campaign controller drive the same agents over suites of tasks. This directory holds
TLA+ models of these programs, the TLC instances that check them and the TLAPS proofs.
Paths below are relative to `src/tars_agent/` of the repository.

The daemon is one asyncio event loop. So a step of a model is what happens between
two awaits that another task can observe: a committed transaction, a put into a
queue, the delivery of a cancellation, the publication of an event. Real
concurrency is the interleaving of those steps, and three things make it hard:
a cancellation can land at every await, a process can die between any two
durable writes, and several parties settle the same rows, containers or connections.

## Parts of the system

| Part | State it keeps | Operations | What is hard | What makes it correct |
|---|---|---|---|---|
| `RuntimeService`, `RunSupervisor` (`core/runtime/`) | rows of sessions, turns, runs; supervised tasks; cancellation tasks; pending cleanups; a lock per session, a terminal lock | create_session, submit_message, retry_run, cancel_run, close_session, compact_session, shutdown, recover_interrupted | commit and start of a task are two steps; shielded and unshielded finalization; a crash between commits; a cleanup that is never confirmed | one unfinished run per open session; each run settles once, is announced once, holds nothing afterwards |
| `DurableEventHub` (`core/events/durable.py`) | bounded queue, writer task, barriers, subscriptions, latest cursor | handle, flush, subscribe, stop | a full queue, death of the writer with flushes waiting, stop against a full queue | nothing accepted is lost or reordered; a flush covers what came before; nobody hangs |
| Event stream clients (`tui/app.py`, `web/core.py`, `cli/client.py`) | cursors, prompts, browser queue, the result and exit code of a command | subscribe, resume, answer a prompt, `tars run`, `chat`, `resume` | events committed while a replay is read, queue overflow, lost connections, restarts, a typed answer against the end of its run | each client sees every event it wants, once, in order; a command ends, and its exit code is that of its run |
| Connections (`core/transport/`) | request tasks, writer queue, pumps, pending calls | send, serve, pump, close, stop | four parties close one writer; the queue may be full; a client stalls | answers precede what they acknowledge; nothing outlives its connection |
| Permissions, tool calls (`core/permissions/`, `core/tools/`) | pending approvals, session decisions, attempts | check_and_wait, respond, cancel_session, invoke_tool, execute | an answer against a timeout, a cancellation, a closing session; a retry; the host fallback | a call runs only as it was allowed, and once |
| Sandbox (`core/tools/runtime/docker.py`, `recovery.py`) | containers by run, uncertain names, durable intents | execute, cleanup_run, cleanup, recover | `docker run` whose answer is lost; a crash between removal and its record | no orphaned container; a confirmed cleanup is final |
| Sub-agents (`core/subagent/`) | parents, blocked trees, tasks, cancellations, rows | spawn, finish, cancel, shutdown | a parent cancelled while its child is being created | no agent of a cancelled tree lives on |
| Budgets (`core/persistence/request_budget.py`, `cost_budget.py`) | two ledgers and a seal | reserve, settle | a crash between the stores | no attempt without a reservation, no budget exceeded |
| Agent loop and context (`core/loop.py`, `runner.py`, `compact/`) | steps, transcript, summary | run, compact | a summary of a run that then fails; limits | requests are well formed; no committed turn is forgotten |
| Daemon and its commands (`core/app.py`, `control.py`, `cli/commands/core.py`) | home lock, port, control file | serve, core start, core stop | files of a daemon that is gone | one daemon per home, no mistaken shutdown |
| Evaluation (`core/eval/internal.py`, `runner.py`, `runtime_cases.py`) | attempts, evidence, report | run, run_attempt | guard timer, Ctrl-C and the attempt's timeout against its closing | a reported pass was earned |
| Campaigns (`core/eval/appworld.py`) | checkpoint, worlds, worker records | run, resume, score | a killed controller whose workers live on | no worker lost, no task counted twice, no result dropped |

Interaction is by call inside the event loop (a run calls the loop, the loop the tool
invocation, that the permissions, the router and the sandbox), by rows (recovery reads
what an earlier process wrote), by published events (every component publishes, the hub
stores, the broadcaster fans out), and by sockets and files between processes.

## Modules

| Module | Role |
|---|---|
| `RunContract` | what sessions and runs promise: slots, acceptance, one settlement |
| `RunLifecycle` | RuntimeService, RunSupervisor and the rows; implements `RunContract` |
| `RunLifecycle_proofs` | theorems about `RunLifecycle` |
| `EventWriter` | the writing half of the hub |
| `EventStream`, `EventDelivery` | what the stream promises a client; subscriptions, connections, clients, which implement it |
| `CommandLine` | the input loop of `tars run`, `chat` and `resume` on the stream |
| `CommandLine_proofs` | theorems about `EventDelivery` and `CommandLine` |
| `Connections` | both ends of one connection: requests, the writer, pumps, the stop of the server |
| `ToolCalls`, `Approvals` | a tool call with its approvals; composed with the prompts of the terminal |
| `Approvals_proofs` | theorems about `Approvals` and the calls it composes |
| `SandboxContract`, `Sandbox` | what a confirmed cleanup promises; containers and their recovery, which implement it |
| `Sandbox_proofs` | theorems about `Sandbox` |
| `Subagents`, `Subagents_proofs` | the tree of runs: spawning, cancelling, shutting down; theorems about it |
| `ModelRequests`, `AgentLoop`, `Conversation` | the ledgers; the loop of an agent over them; what a session remembers of its runs |
| `Conversation_proofs` | theorems about these three |
| `Daemon` | the process, its lock and control file, `core start` and `core stop` |
| `Daemon_proofs` | theorems about `Daemon` and what it serves: `Connections`, `EventWriter` |
| `Verdicts`, `Evaluation` | how an attempt is judged (pure operators); the harness |
| `Campaign` | the controller of a benchmark campaign |
| `Harness_proofs` | theorems about `Evaluation` and `Campaign` |
| `MC...` | instances: symmetry, histories, kinds of calls, suites |

Compositions: `CommandLine` extends `EventDelivery`; `Approvals` extends `ToolCalls`; `Conversation` extends
`AgentLoop`, which extends `ModelRequests`; `Evaluation` extends `Verdicts`. `Daemon`, `Connections` and
`EventWriter` share no variable, nor do `Evaluation` and `Campaign`: each pair or triple has one module of
proofs, which is why their names carry a prefix (`WriterInit`, `CampaignSpec`, ...). Between the others the
link is a contract: `RunLifecycle` keeps for the containers of a run one bit, `held`, which
`SandboxContract` describes and `Sandbox` implements; `Approvals` assumes of the stream what `EventDelivery`
shows; `Subagents` sees of the root run what `RunLifecycle` does to it.

### RunLifecycle

Variables are named for what they stand for: rows (`sessStatus`, `active`,
`status`, `turnStatus`, `attempt`, `effects`, `openTool`, ...) are durable, `held`
is the container engine's, and the rest (`task`, `cancelReq`, `cleanup`,
`failedRoot`, `pendingRes`, `call`, `term`) lives in the event loop and is lost by
`Stop` and `Crash`. A turn is named by its first run.

* A client operation is a record of `call` with a program counter. `AcceptSubmit`,
  `SubmitCommit`, `StartRun`, `Return` are the steps of `submit_message`: waiting for
  the session lock, the transaction, the creation of the task. Transactions are
  single steps since the submission lock and the terminal lock serialise them; the
  lock is read off the program counters.
* `task` is the program counter of a run: `new`, `prep`, `exec`, `finish` or `abort`,
  `announce`, `notify`. A cancellation is sent (`cancelReq`) and taken at the next
  await; finalization that the code shields ignores it and the one it does not
  shield (`AbortCommit`) can be cut between commit and publication.
* `cleanup` is the program counter of the cancellation task of a run: signal,
  await the task, confirm the containers, finalize, announce. An unconfirmed removal
  leaves the run unfinished and is tried again by the next cancellation.
* `phase` is the daemon: up, the steps of `shutdown` in the order of the code, down or
  dead, recovering. Recovery settles what an earlier process left.

Left out: database errors, and the 15 s limit on a shutdown (after it the process ends,
which is `Crash`). A close that is under way may still finish during a shutdown, since
`close_session` does not look at the closing flag.

One window needs care. Between the commit of a submission and the start of its task a cancellation
finds no task to stop; it can settle the run, after which the task starts all the same, or be cut off by
a shutdown. `missed` remembers, run by run, what a cancellation missed: the start of the task (it came
in that window) or the end of the run (it gave up, or was lost, with the daemon stopping). It is a history
variable, no guard reads it. `SettledRunsAreOver` speaks of every run but those whose cancellation came
before the start; `StoppedRunsAreSettled` speaks of every unfinished run, queued or running, and allows
a queued run to be left only when its cancellation missed something. The constant `Hasty` bounds the
runs an instance may cancel in the window; the theorems hold for every value of it. A process that
ends between the commit of an end and its publication loses the announcement, so that clause of
`SettledRunsAreOver` is about the first process (`stops`).

### Events

*EventWriter.* An event is its place in the order of acceptance. `queue` holds events, flush
barriers and the stop item; `worker` is the program counter of `_run`; `call` and `future` are
the callers of `handle` and `flush`. `FallsAsleep` and `Woken` are the wait for room and
`_space_available.set()`, which wakes everybody to try again; a queue without
hand-over is not fair, so the number of calls is bounded (`MaxFlushes`,
`MaxEvents`) and overtaking with it. `WorkerDies` is any error or cancellation of the
worker, at any await. The done callback of the worker runs before anybody can observe that
the worker ended, because `_check_running` calls it itself, so both are one step. One life
of a hub is modelled: the daemon never starts a stopped hub again.

*EventDelivery.* An event is its kind, its cursor its place in `log`. `Scope` are the kinds of
the session, `Interest` what a client's topics match (a browser asks for all of them), so a
replay can consist of events nobody wants. `front[c]` is the program a client is, `web` those behind the bridge.
`sub[c]` is the `DurableSubscription` of the client's connection, with the registration
(`Subscribe`) before the reading of the replay (`LoadReplay`). `wire[c]` stands for the outgoing
queue and the socket behind it, `inbox[c]` for the queue of the web bridge. `PumpEnds` sends
the overflow or truncation marker and ends the connection; a marker that times out is a
lost connection. A terminal shows an envelope when it is dispatched; a browser shows what
crosses the bridge and resumes after it. `NothingIsSkipped` joins the types, the fact that a
client saw everything before its cursor, and the meeting of replay and live queue.

*CommandLine.* `tars run`, `chat` and `resume` are one input loop over one queue. The loop does
not look at the wire, so the stream is taken at the level of its contract: the next event can be
taken, a replay is counted and may be cut short (`Counts`), and the marker that ends a
subscription may come at any time. Answers of the daemon and what the user does are in
`results`, in order; a line remembers whether the prompt was shown when it was typed. An
action is what the loop does between two waits: it reports a result (`Finish`) or shows a prompt
(`ShowPrompt`) before it takes the next item. The daemon's side is the status of the run, one
request for approval, one failed tool, and the queue of the hub, which a snapshot flushes
(`ahead`); answers come in time or late. `front` lets one instance be a terminal, a browser or
a command line. Left out: the rows about usage and the finish event, which only show, and
what the daemon does after the connection has ended. The repeated poll of a run that goes on
is one request, answered once the run has ended.

### Connections

The handler of a connection, one task per request, the write loop with its queue, the
pumps, the client's read loop and its pending calls have a program counter each; `Closers` are
the handler, the stopping server and the pumps, all of which call `ConnectionSender.close`
and wait for each other there. A stalled client fills the socket (`WireCap`), then the queue
(`SenderCap`), then the subscription (`SubCap`); the deadlines of the code (1 s, 2 s, 5 s) are
steps that may happen once somebody waits. What answers and events say is left out.

A pump that is cancelled while it closes the connection leaves the transport to the end of
the process (`core/transport/socket_server.py:81-104`), which `GoneIsReleased` allows for.
`SenderCap > 1` is an assumption: with a queue of one, a pump cancelled while it puts the stop
item would leave the server's `close` waiting for ever. The code uses 1024.

### ToolCalls and Approvals

A call goes through the policy (one of four verdicts), the decisions of its session, a prompt,
the router and a runtime; `Decide` and `Served` are answers, the timer and a cancellation reach a
task some time before the task resumes, and until then the request is still registered. That
window is what `RequestsAreLive` and `CallsRunAsGranted` are about. The outer limit of 120 s
also covers the wait for the second approval, the one for the host. No tool of the repository
asks for a retry; the model allows `MaxAttempts` all the same, as `invoke_tool` does.
`Approvals` adds the terminal: which prompts it shows, which are usable, and the phase after a
lost connection in which it replays the stream and asks for the state of each run.

### Sandbox

`box` and `work` are the container engine's, `record` is the durable store, the rest is the runtime's and
dies with the process. `docker run` is three steps (asked, carried out, answered); each may be the last one
the process sees. `guard` is the container guard with the place a removal has reached (`look`, `rm`,
`verify`): inspect, remove, confirm the absence, delete the record. An absent container is gone only if it
had been confirmed; an intent whose container never appears keeps its record and keeps the core from
serving, which is what the code does. The model also covers the runtime without an owner, as the evaluation
harness uses it. `run` follows a run's cleanup from outside; `gone` is what `RunLifecycle` calls a confirmed
cleanup. A call that removes its own container waits for the removal in one of two ways. After a
cancellation, and after a start that failed, the removal is shielded (`dropShielded`, `undoShielded`), and
the shield stands one cancellation (`LosesShield`). After a time-out, a broken worker, or a lost shield it
is not (`drop`, `undo`): a cancellation then ends the call, whether it waits for the guard or for `docker
rm` (`CutShort`). `blocked` is the history of runs whose last removal failed or was cut short: the workspace
is released although the worker may still run, hence the exception in `WritersAreExclusive`. Without an
owner, the last sweep of an instance may fail (`Reap`).

### Subagents

A cancellation of an asyncio task is an exception thrown at its next step and a count that `asyncio.timeout`
may lower; both are state, for the registry looks at the count before it cancels. Spawning checks the gate,
commits the child's row under the gate, starts the task and waits for it under the timer of the tool call.
`CancelledTreesStaySettled`: once the cancellation of a tree has returned, everything below is settled and
nothing new appears. There is one exception, met in the proof: after a cleanup that could not be confirmed,
a cancellation can return while a sub-agent is still to be started; its caller finds the gate closed and
settles the row. `SettledOnce` is an action property on rows. The depth of the tree is at most two, as in
the code. A call whose `create_run` was cancelled looks whether the row was committed all the same
(`SpawnLooks`). This read has no shield: a second cancellation (the tool's timer and the cancellation of the
tree, say) ends the call there, and a row it had not seen stays queued until the recovery of the next start.
`lost` is the set of such rows; `AgentsAreOwned` and `CancelledTreesStaySettled` except them, and say that
none of them ever runs.

### ModelRequests, AgentLoop, Conversation

`ModelRequests` is the reservation protocol: cost row, seal, request count, seal, send, settle,
seal, with the death of the process between any two writes and seals that cannot be published. The
seal is kept as whether it matches its table. `AgentLoop` decides what is sent: a message is its kind,
its size in the local estimate and the earlier turns it tells of. `Conversation` gives a run the
committed rows that fit, commits the rows of a run that succeeded, and lets a run or
`session.compact` replace them by a summary. `ContextIsKept`: every committed turn is told of by the
context of the session, whatever failed or was cancelled in between. In one scenario the agents are two
runs of one session, in the other they only share the ledgers.

### Daemon

A launch stands for its `core start`, the process it spawns, its launch id and its token. Homes have a lock
each and share one port and one control file. Deadlines (45 s, 5 s, 2 s) are steps. Resources are closed in
the order of `CoreApp.run`; failures of single resources are left out. A `core stop` whose request is
refused, or not answered in time, finds nobody (`FindsNobody`): it removes the record and says "not
running". `late` are the requests of those that gave up and may still be carried out (`AnswerLate`), and the
exception in `CommandsTellTheTruth`.

### Evaluation and Campaign

`Evaluation` steps through a suite: the guard timer of the runner, the timer of the attempt, Ctrl-C, the
agents with their tree of runs, the closing of the attempt with its evidence, and the report. The
synchronous end of an attempt is several actions, for the process may be killed between two of them.
`Verdicts` holds the judgement as operators: what the tree of runs, the metered calls and the files make of
the first verdict, in the order of the code. The evidence of an attempt is `"whole"`, a `"part"` (the copy
failed), or `"listed"`: a copy that counts as made but lacks links and directories that could not be listed.
Whoever relies on evidence relies on `Copies`, either of the two. Fairness is assumed of the harness and its
timers only: agents that survive a failed shutdown may do what they like. Closing an attempt has no timer of
its own and swallows cancellations, so that its steps end is part of the fairness, not of what `SuiteEnds`
shows.

`Campaign` has a coroutine per lane, the checkpoint (written whole, so memory and disk agree outside a
commit), worker processes and worlds, which outlive the controller, and docker commands that take effect
although the controller that asked for them died. A coroutine ends without its worker when the identity of
the new process cannot be told or written, or when it cannot be killed or noted as finished (`LosesWorker`):
the worker is then `"adrift"`, at work while the cleanup removes its world. `WorkersAreKnown` says of every
worker at work, adrift or not, that the checkpoint has it under way and that its world is no other worker's,
and of the others that their world runs; the next start stops the adrift ones before it goes on.
`ControllerGoesOn` states with ENABLED that an unfinished campaign always has a step of the controller or of
a worker it waits for. It is about a controller that is up: a restart that refuses at once is an end, not a
hang.

## Runs

| Run | Instance | Properties, and what they show | States |
|---|---|---|---|
| `run_concurrency` | 1 session, 2 runs, 2 callers, 1 key, 1 tool with effects | `SlotsMatchRuns`, `UnfinishedRunsAreOwned`, `AnnouncedOnce`, `SettledRunsAreOver`, `TurnsAreSound`, `CancelReturnsSettled`: in all interleavings of two calls, their runs, cancellations and a close | 2.8 M |
| `run_recovery` | 1 one-shot session, 1 run, 2 callers, 2 ends of a process | `StoppedRunsAreSettled`, `ContractSpec` (the refinement), `EverythingEnds`: an orderly stop settles, the contract holds across processes, runs, cancellations and shutdowns end | 175 k |
| `event_delivery` | 1 client: terminal, browser or command line (`run` with and without a terminal, `chat`, `resume`); log of 3, queues and limits 1, batches of 2, 1 loss or stop, 1 act of the user | `NothingIsSkipped`, `ExitsAreEarned`, `StreamSpec` (the refinement), `ClientsGetOn`: nothing is skipped or repeated, a terminal catches up, a command ends with the exit code of its run | 601 k |
| `event_writer` | 2 callers, queue of 2, batches of 2, 3 events, 3 flushes | `BarriersHold`, `CallsReturn`: accepted events are stored in order, a flush covers what came before it, no call or stop hangs | 199 k |
| `sandbox` | 2 runs, 4 mishaps, 2 stops, with and without an owner | `ContainersAreRecorded`, `WritersAreExclusive`, `ContractSpec` (the refinement), `CallsReturn`: nothing orphaned, one writer, a confirmed cleanup is final | 113 k |
| `approvals` | 2 calls of 4 kinds (container or host; asking, allowed or forced), 2 attempts, host fallback, 2 lost connections | `CallsRunAsGranted`, `RequestsAreLive`, `InputComesBack`: one call with a terminal, or two calls of one session without | 1.0 M |
| `subagents` | 2 sub-agents (siblings or nested), 1 each of cancellation, time-out, mishap, shutdown | `AgentsAreOwned`, `CancelledTreesStaySettled`, `SettledOnce` | 2.7 M |
| `agent_loop` | 2 agents, 2 attempts per request, limit 3, cap 5, bills 1 and 2, 1 seal fault, 1 crash; histories of a session | `BudgetsHold`, `RequestsAreSound`, `ContextIsKept` | 3.2 M |
| `campaign` | 2 tasks, 2 lanes, 1 retry, 1 crash of the controller, 1 fault | `WorkersAreKnown`, `ScoredWorkIsKept`, `ControllerGoesOn` | 3.8 M |
| `connections` | a shutdown request and 2 subscriptions, queues of 1 and 2, 2 events | `ShutdownIsAnswered`, `GoneIsReleased`, `EverybodyReturns` | 1.3 M |
| `daemon` | 3 launches and 1 stop in 2 homes, 1 process killed | `OneCorePerHome`, `ShutdownsAreMeant`, `CommandsTellTheTruth` | 11.3 M |
| `evaluation` | suites of 2 cases, 2 single agents or 1 orchestration with 2 sub-agents | `ReportsAreEarned`, `AttemptsAreClean`, `SuiteEnds` | 5.6 M |

Several properties are conjunctions of named parts, so that one can tell which part failed:
`TurnsAreSound` (distinct attempt numbers, one turn per message, the status of a turn follows its latest
attempt), `EverythingEnds` (runs, cancellations, shutdowns), `BarriersHold` (types, nothing accepted is
lost, flushes, a clean stop), `ClientsGetOn` (`TerminalsCatchUp`, `CommandsEnd`), `ExitsAreEarned`
(types, the codes 0 and 130), `AgentsAreOwned` (types, owners, the provider), `BudgetsHold` (types, both
caps, no lock without a reason), `WorkersAreKnown`, `AttemptsAreClean` and `NothingIsSkipped` (types and
the claims their comments state). The type invariants of `RunLifecycle`, `Sandbox` and `Daemon` are
proved, not checked.

Why the bounds are enough to meet the cases. Two runs of one session give a finished or retried run next to
a live one, and two callers any pair of racing operations; a one-shot session adds its automatic end. Two
ends of a process put a crash into a recovery or a shutdown. Queues of one or two with batches of two
overflow at every place, also in the middle of a batch; a log of three fills the wire and the live queue and
then overflows, and cuts a replay short twice. A command has one fault and one act of the user in each
behaviour (`OneFault`, `MaxActs`), and the first line of a chat is already typed. Three kinds of event
separate one that is shown, one of the session that the client filters after the limit of a replay, and one
of another session. Four mishaps let one cleanup fail, be retried and fail differently while another run
uses the engine. `run_recovery` cancels its run also before its task is started, `run_concurrency` does not
(`Hasty`), for its size; the theorems cover it. Two sub-agents are a pair of siblings or a chain of the
greatest depth the code allows. A request limit of three with two agents and two attempts each is reached by
either of them first, and a cap of five with reservations of two is exhausted while a cheaper bill is being
settled. Two lanes, two tasks and one retry make a lane pick up what another lane left. Three launches give
a daemon, a rival in its home and one in another home, on one port. Symmetry is used only in runs without
liveness. `agent_loop` and `campaign` are also checked for deadlock; elsewhere the system may stop, since
clients need not call, identifiers run out and a daemon may stay down.

Two instances are smaller than the code: an orchestration has two roles instead of three, and the
daemon's event kinds are three instead of some dozens. Both only change how many alike steps follow each
other.

Every property of a run is paired in `PROJECT.json` with a plausible defect (a dropped guard, a
missing reset, a wrong order) that makes TLC find it violated. The defects are the definitions
marked `Defect` next to the ones they replace.

## Fairness

The event loop runs every ready task, so the steps of one task are weakly fair: each accepted call,
each run task, cleanup, shutdown and recovery, the writer, the pumps, the request tasks, the loops
of the clients. Beyond that:

* A run's agent loop returns, for its steps, requests and tools have limits and timeouts.
* The container engine is *not* assumed to confirm a removal: `RunsSettle` and `CancelCompletes` allow for
  a container that is still there. A docker command does return, with an error if need be.
* `Sandbox` has strong fairness for a call that waits for the guard or the workspace: `asyncio.Lock`
  is first come, first served, so a call whose lock is free again and again gets it.
* Clients of the stream read and reconnect for ever, as their loops do; in `Connections`
  a client may also stall for good, which `EverybodyReturns` names as the exception.
* In `Evaluation` the harness and its timers are fair, the agents under test are not.
* In `CommandLine` the input loop and the steps of the daemon are fair; a request for approval ends, by
  an answer or its time-out.
* Nobody has to type, submit, cancel, approve, stop, crash or restart.

## Proofs

Eight modules of proofs. Each theorem holds for every value of the constants that satisfies the named
assumption of the module, so for any number of runs, callers, agents, launches, faults and restarts.
Every inductive invariant was checked by TLC on an instance before it was proved.

| Module | Assumptions |
|---|---|
| `RunLifecycle_proofs` | `ConstantsAssumption`: markers such as `NoRun` are none of what they stand in for |
| `Sandbox_proofs` | `SandboxAssumption`: the bounds are numbers, markers are none of what they stand in for |
| `CommandLine_proofs` | `CapacitiesAssumption`, `InterestAssumption`: capacities, limits and batches of at least one, the topics of a client in the scope of its session, that in the kinds of events; `CommandAssumption` for the theorems about `CommandSpec`: one client, a log with room for the three events of its run |
| `Approvals_proofs` | `ToolCallsAssumption`, `ApprovalsAssumption`: kinds and bounds are of their types |
| `Conversation_proofs` | `RequestsAssumption`, `LoopAssumption`, `HistoriesAssumption`: prices, sizes and transcripts are of their types, a request is tried at most twice |
| `Subagents_proofs` | `SubagentsAssumption`: finitely many sub-agents, the root is none of them |
| `Daemon_proofs` | `DaemonAssumption`: every command has a home, launches and stops are different commands; `WriterAssumption`: finitely many callers, a queue and a batch of at least one; `ConnectionsAssumption`: capacities of at least one (two for the queue of the sender), no subscription is named like another closer |
| `Harness_proofs` | `VerdictsAssumption`, `EvaluationAssumption`: at least one role, suites of at least one attempt; `CampaignAssumption`: bounds are numbers, no coroutine is named `"recovery"`, no task `"none"` |

### RunLifecycle

| Theorem | Statement |
|---|---|
| `TypeCorrect`, `WellFormedAlways` | `Spec => []TypeOK`, `Spec => []WellFormed` |
| `SlotsCorrect` | `Spec => []SlotsMatchRuns` |
| `ImplementsContract` | `Spec => ContractSpec` |
| `TerminalIsAlwaysFinal` | `Spec => TerminalIsFinal` |
| `AnnouncedAtMostOnce` | `Spec => []AnnouncedOnce` |
| `AttemptsAlwaysDistinct`, `OneTurnForEachMessage`, `TurnsAlwaysFollow`, `TurnsAlwaysSound` | `Spec => []TurnsAreSound` and its parts |
| `SupervisorAlwaysOpen` | `Spec => []SupervisorIsOpen` |
| `OwnInvHolds` | `Spec => [](Base /\ OwnInv)` |
| `RunsAlwaysOwned` | `Spec => []UnfinishedRunsAreOwned` |
| `StopsAlwaysSettle` | `Spec => []StoppedRunsAreSettled` |
| `CancelAlwaysReturnsSettled` | `Spec => CancelReturnsSettled` |
| `OverInvHolds`, `SettledAlwaysOver` | `Spec => []OverInv`, `Spec => []SettledRunsAreOver` |

`TypeOK` is not inductive: a task about to record an outcome must have one, a call must name
a session and run that exist, rows of one run must exist together. `WellFormed` adds these
facts. On top of it, slots follow from the refinement: every step of `RunLifecycle` is a step
or a stutter of `RunContract`, and the contract keeps the slots. Announcements need
`AnnouncementsInOrder` (the holder of the terminal lock has settled its run and not yet
announced it), attempts and messages need `TurnInv` (the fields of the runs of a turn agree), the
supervisor needs `SubmissionsPrecedeClose` (a call that is past acceptance keeps the
shutdown waiting). One lemma per group of actions shows that it preserves them.

That an unfinished run is owned relates the program counters of everybody who may settle it. `OwnInv` says
which operation holds the lock of a session and what it may assume of the rows it read before it waited;
which statuses a run can have at each place of its task and of its cancellation; that a cancellation which
told the task to stop waits for it, so that neither leaves the run to the other; and that a close has
cancelled the active run before the session is closed. After a shutdown a run is left running only if it is
among `pendingRes`, which `OwnInv` carries through every phase of the shutdown. That a queued one is left
only if its cancellation missed something is `QueueInv`: until the daemon stops, a queued run has a task
that will begin, an operation that will start it, or a cancellation, and whatever ends the pursuit of the
run without settling it is noted in `missed`. `OverInv` adds, run by run, what is left when a run is
settled: a task that only announces, no cleanup beside it, containers that are gone or belong to a run that
is not settled, side effects that were confirmed before a retry began. It does so of the runs whose
cancellation did not come before their task was started (`Timely`); of the others it would be false.

### EventWriter

| Theorem | Statement |
|---|---|
| `WriterInvHolds` | `WriterSpec => []WriterInv` |
| `AcceptedIsStored` | `WriterSpec => []BarriersHold` |

That a flush covers what was accepted before it needs the order of the queue: a barrier stands behind
every event its flush is to cover, each flush that waits has one barrier, in the queue or with the
worker (`BarriersComeAfter`, `BarriersAreAwaited`), and a stop item is the last item for ever (`StopIsLast`),
so that the batch it ends is the last. `NothingLost` is then preserved by moves of one item
between caller, queue, batch and log. The type of `accepted` needs `RoomForHandlers`: the bound of the
model counts the handlers that still wait for room, which is why the callers are assumed to be finite.

### Connections

| Theorem | Statement |
|---|---|
| `ConnectionInvHolds` | `ConnectionSpec => []ConnectionInv` |
| `ShutdownsAlwaysAnswered` | `ConnectionSpec => []ShutdownIsAnswered` |
| `GoneAlwaysReleased` | `ConnectionSpec => []GoneIsReleased` |

A shutdown acts on the place of its own request, not on the wire, so that it was answered is not
inductive: `AnswersAreWritten` says that a request only reaches this place when the write loop has taken its
line, and `QueuesOK` that what the loop takes is a line. That a connection which is gone holds nothing
follows from the order in which the handler ends, whoever else closes at the same time: it has stopped its
requests before it closes the sender (`HandlerHasStopped`), its own close returns only after the write loop
has ended (`CloseEndsLoop`), and nobody revives a loop that has (`GoneHasClosed`). The proofs hold for any
number of subscriptions, hence of parties that close one writer.

### EventDelivery and CommandLine

| Theorem | Statement |
|---|---|
| `NoEventIsSkipped` | `Spec => []NothingIsSkipped` |
| `DeliveryImplementsStream` | `Spec => StreamSpec` |
| `ExitsEarned` | `CommandSpec => []ExitsAreEarned` |
| `NoEventIsSkippedBelow` | `CommandSpec => []NothingIsSkipped` |
| `CommandImplementsStream` | `CommandSpec => StreamSpec` |

The first two are about any number of clients. `DeliveryInv` cuts the cursors between the one a client
would resume from and the end of what was fanned out at two places `x` and `e` (`Way`): what is wanted up to
`x` is in the inbox, from there to `e` on the wire, and from `e` on in the replay and then in the live
queue (`Streams`). Each hop moves a cut by one event. `NothingIsSkipped` alone is not inductive: it is
silent while a replay is read, where the live queue has to begin behind the replay (`Loads`); once
a subscription is truncated or overflowed, where the marker has to name a place before which nothing is
missing; and after an overflow of the inbox, where one more item may be taken (`LastTaken`). The
lemmas about sets of cursors in order (`OrderSplits`, `OrderBegins`, `OrderGrows`) carry it: the order of
an interval is the order of its parts. The refinement needs them once more. A client appends one cursor,
before and after it has seen exactly what it wants up to where it would resume, so that cursor is the first
one missing (`NextIsFirst`).

`CommandInv` adds the loop. A run causes at most three events, each of which is in the log or is
owed (`RunGoesOn`). A snapshot that waits for its flush waits for all that is owed, so once it is
answered nothing is, and its cursor is the end of the log (`SnapshotsHold`). A command that reports
has passed this cursor, has seen the whole log, and remembers every failure in it (`ErrorsAreKept`).
A cancellation under way is one the user asked for, or the answer to a prompt nobody can
see (`CancelsAreMeant`).

### Approvals

| Theorem | Statement |
|---|---|
| `ApprovalsInvHolds` | `Spec => []Inv` |
| `CallsAlwaysRunAsGranted` | `Spec => []CallsRunAsGranted` |
| `RequestsAlwaysLive` | `Spec => []RequestsAreLive` |

Half of `Inv` is about calls: each is asked for once per place and before it starts, its starts are
counted against its attempts, an answer that was acknowledged is the one the call reads, and an answer
lost with the wait of its call leaves the request registered until the call takes it off. The
other half is about the terminal: nobody has heard of a request that is not yet announced, a prompt
that was taken away is about a request that is over, and outside a replay a waiting request
has a prompt that is usable or has been used on this connection. The second half needs only a few
facts of the first, which `ServerMovesKeepTerminal` lists.

### Conversation

| Theorem | Statement |
|---|---|
| `ConversationInvHolds` | `Spec => []Inv` |
| `BudgetsAlwaysHold` | `Spec => []BudgetsHold` |
| `RequestsAlwaysSound` | `Spec => []RequestsAreSound` |
| `ContextAlwaysKept` | `Spec => []ContextIsKept` |

The books of the ledgers balance: what all callers together have counted, hold and claim is within what
the tables say. Sums over callers are functions that add up (`Adds`), moved from one caller to another, so
the number of callers need not be finite. A transcript is paired except while calls are being
made, starts with an input and contains the current one. The rows of a session are a transcript that
tells of every committed turn, at most one run of the session or one `session.compact` works on them, and
only a run that was given the whole of them may replace them by a summary.

### Subagents

| Theorem | Statement |
|---|---|
| `SubagentsInvHolds` | `Spec => []Inv` |
| `AgentsAlwaysOwned` | `Spec => []AgentsAreOwned` |
| `CancelledTreesAlwaysSettled` | `Spec => []CancelledTreesStaySettled` |
| `AlwaysSettledOnce` | `Spec => SettledOnce` |

A tree is the least set with its root that holds the children of its members, so that what
is true of a root and passes from parent to child holds of the tree; no depth is assumed. Gates are
closed to whole trees (`GatesAreClosed`), a cancellation that runs covers every unfinished run below it but
those not started (`TreesAreCovered`), and who ended without being settled is in somebody's care, or lost
(`EndedAreCared`). Without failed cleanups, who is settled has also ended (`SettledHaveEnded`), which is
what makes a cancelled tree stay settled.

### Daemon

| Theorem | Statement |
|---|---|
| `DaemonInvHolds`, `DaemonTypeCorrect` | `Spec => []Inv`, `Spec => []TypeOK` |
| `AlwaysOneCorePerHome` | `Spec => []OneCorePerHome` |
| `ShutdownsAlwaysMeant` | `Spec => []ShutdownsAreMeant` |
| `CommandsAlwaysTellTheTruth` | `Spec => []CommandsTellTheTruth` |

Whoever works holds the lock of its home, from the recovery to the closing of its resources. A record is
of a process that has announced itself, and a process announces itself once; so a port that was refused
to a command which had read a record stays closed to that process, and what the command told stays true.
A request that came too late is remembered in `late` until the daemon that was asked comes to it.

### Sandbox

| Theorem | Statement |
|---|---|
| `InvHolds`, `SandboxTypeCorrect` | `Spec => []Inv`, `Spec => []TypeOK` |
| `ContainersAlwaysRecorded` | `Spec => []ContainersAreRecorded` |
| `WritersAlwaysExclusive` | `Spec => []WritersAreExclusive` |
| `SandboxImplementsContract` | `Spec => ContractSpec` |

`Inv` is `RecordInv /\ CleanupInv /\ WriterInv`. `RecordInv` says that the intent is stored before
`docker run` is asked for, that a confirmed record means the container existed, and that at `verify` the
container is absent. `CleanupInv` says that a serving runtime knows every container it owns, that
recovery still has before it whatever an earlier process left, and that a run whose cleanup is
confirmed has no call, no removal and no container. `WriterInv` says that a call that executes holds
the workspace, and that a worker without such a call is one of a run in `blocked`. None of the three is inductive alone: that a confirmed cleanup is final needs that no
call of the run can still create a container, which needs that creation holds the guard, which needs
that the intent it stores is new.

### Evaluation

| Theorem | Statement |
|---|---|
| `EvaluationInvHolds` | `EvaluationSpec => []EvaluationInv` |
| `ReportsAlwaysEarned` | `EvaluationSpec => []ReportsAreEarned` |
| `AttemptsAlwaysClean` | `EvaluationSpec => []AttemptsAreClean` |

They hold for suites of any size, any number of sub-agents in trees of any shape, and any roles. A record
that calls an attempt passed is written several steps, and many possible interruptions, after what it
vouches for. `PassesAreKept` says what a passing status stands for at each of these stages: the root's row
until the closing, a confirmed cleanup after it, the workflow and the grader after the judge, evidence in
`Copies` after the copy. That the tree does not change under it is `ClosingIsHonest` (once the closing has confirmed,
no run is active and no container is left; agents survive only a closing that failed, and those attempts do
not pass) with `OnlyServicesWork`. `OriginalsStay` and `RecordsAreLate` place the temporary directory, the
evidence and attempt.json against each other at each stage, so that a kill between two steps finds
the originals or such evidence, and `UsageIsWhole` says that consumption is reported when no model call can follow. The judge itself
(`Verdicts`) enters by one lemma about trees of any size, `AfterTreeIs`: it only lowers a verdict, and it
leaves a pass only to a tree that deserves one.

### Campaign

| Theorem | Statement |
|---|---|
| `CampaignInvHolds` | `CampaignSpec => []CampaignInv` |
| `WorkersAlwaysKnown` | `CampaignSpec => []WorkersAreKnown` |
| `ScoredWorkAlwaysKept` | `CampaignSpec => []ScoredWorkIsKept` |

They hold for any tasks, coroutines, retries, kills of the controller and faults. Workers and docker
commands outlive the controller that started them, so what it must know is split in two. Some facts hold in
every state, a dead controller included: what docker has or may still create is a world in the checkpoint
(`WorldsAreRegistered`), and a live worker has the record of its task's row and runs in that row's world
(`LiveAreKnown`). Others hold from phase to phase: the recovery has before it, in `todo`, every worker it
has not stopped and then every world it has not closed (`ClosedByPhases`), so that when it turns to the
commits nothing lives, and a campaign that is complete left nothing. While coroutines run, `TasksAreHeld`
and `LanesKeepTheirWorld` keep them apart: no two hold one task, and the other worlds of a coroutine are
closed, which is why two live workers never share a world. `AdriftAreKnown` does the same for workers that were
given up: their rows stay under way and their worlds are nobody else's until a restart has stopped them.

That a scored result is kept is a statement about all pairs of attempts; `RowsAreNext` makes it one about
the row of the checkpoint. An attempt that has a record and is not yet counted is the row; a good attempt in
time that is counted is the last one and its task has a result; the row of a task with a result is gone. So
a later attempt than a good one can only be prepared after the good one was counted, when its task is taken
no more. `CommitsAreSound` carries the good result through the steps of its publication, which a kill may
cut and the recovery repeats.

### Only model-checked

Every safety invariant, every action property and every refinement the runs check is proved. What stays with
TLC is liveness under fairness (`EverythingEnds`, `ClientsGetOn`, `CallsReturn`, `InputComesBack`,
`EverybodyReturns`, `SuiteEnds`) and `ENABLED` (`ControllerGoesOn`), which are beyond the prover. What a
fold over a sequence computes for every input would need an induction the provers cannot do; where sums and
cuts of transcripts occur in `Conversation`, the proofs only use what holds of any of them.

## Disagreements between code and documents

Met while modelling; the runs leave these cases out or state the property with the exception.

* A run that fails in preparation and is cancelled between the commit and the publication of its end
  settles without RunFinished (`core/runtime/service.py:394`), while `docs/baseline/ACCEPTANCE.md:45` wants
  exactly one. `SettledRunsAreOver` asks for the announcement only of runs that had begun.
* `retry_run` looks for side effects at the named attempt only (`service.py:733`), so that retrying an
  earlier attempt replays the effects of a later one without confirmation, which
  `tests/unit/test_runtime_service.py:343` excludes for the attempt it names.
* A comment says that there is no suspension between the persistence of a run and its supervision
  (`service.py:284`); leaving the transaction suspends, and a cancellation in that window settles a run
  that then starts, with tool rows left open (`docs/baseline/REAL_WORKFLOWS.md:68`). These are the runs with
  `missed[r] = "start"`, which `SettledRunsAreOver` leaves out.
* The wire protocol promises delivery at least once (`WIRE_PROTOCOL.md:14`). A replay larger than the
  queue of the web bridge can overflow it before the first envelope is taken, and the browser asks for the
  same replay again (`web/core.py:85`). `TerminalsCatchUp`, in `ClientsGetOn`, is about terminals only.
* Cancelling a sub-agent that ignores the cancellation settles its row while its loop still works,
  where `docs/baseline/ARCHITECTURE.md:127` has the end stored after the tools and resources are done.
* `core stop` says "stopped" when the port is closed, before the lock of the home is released
  (`cli/commands/core.py:131`). `CommandsTellTheTruth` speaks of the port.
* `core stop` means to report an error when a daemon does not answer in time (`cli/commands/core.py:228`),
  but the handler of `OSError` stands before it (`core.py:224`) and `TimeoutError` is an `OSError`: a living
  daemon that is late is called "not running", its control file is removed, and it may shut down all the
  same. See `late` in `Daemon`.
* The removal of a container after a time-out or a broken worker is not shielded
  (`core/tools/runtime/docker.py:364`, `387`, `409`), unlike the one after a cancellation: a call cancelled
  there frees the workspace while its worker may still write, although cleanups of a cancelled call are to
  be finished first (`docker.py:770`). See `blocked` in `Sandbox`.
* A spawn that is cancelled twice can leave a queued row without a task (`core/subagent/tool.py:233`), so
  the tree of a cancelled run is not settled before the next start. See `lost` in `Subagents`.
* The evidence of an attempt follows no link and passes over, without a word, directories that cannot be
  listed (`core/eval/internal.py:411-423`); it counts as copied and the originals are removed. A graded file
  behind a link passes and is then gone. See `Copies` in `Evaluation`.
* A campaign gives up a worker when its identity cannot be read or written, or `taskkill` fails
  (`core/eval/appworld.py:854-858`, `867-885`), and closes the world of a worker that lives (`1364`); see
  `LosesWorker`. A kill between the creation of the staging directory of an output and the writing of its
  intent (`appworld.py:970-971`) makes every later start refuse the campaign (`PublishRefused`) until
  somebody removes the directory; `ControllerGoesOn` does not speak of it, since a controller that refused
  is down.
* An evaluation whose guard fires while an attempt is being closed can report "timeout" although
  attempt.json says passed (`core/eval/internal.py:614`, `runner.py:226`). `ReportsAreEarned` asks
  for the other direction.

## Not modelled

* MCP client and servers, the built-in tools, the task list, notes and skills: their calls are the
  outcomes of a tool call (ok, failed, late) in `ToolCalls`.
* The worker inside the container: one command, which `Sandbox` sees as its executing call.
* Providers: a request is answered, refused, cut or late in `ModelRequests`.
* The event bus is a loop over handlers and is inlined where something is published; handlers that
  fail are not modelled.
* Configuration, logging, metrics and traces, schema migrations: sequential, at start-up or
  write-only, with no state the properties could relate.
* Presentation in the command line, terminal and web front ends. What they keep about prompts,
  cursors, connections, results and exit codes is in `Approvals`, `EventDelivery`, `CommandLine`
  and `Connections`.
* Acceptance scripts and the tests.

## Plan

1. The disagreements above as instances of their own.
2. `EventWriter` composed with its publishers, so that the failure of the hub is seen by a run.
3. Two clients in `event_delivery`, three roles in `evaluation` with a leaner model of the tree.
