# Verification of VLoop

TLA+ models of the VLoop harness: a Rust daemon (`vloopd`, under `kernel/`), a
Python control plane (`control-plane/`) that runs agent workflows, and a React
front end. The models are translated from the source at this commit; every
definition that models code is listed with its lines in `PROJECT.json`.

## 1. The system

### 1.1 Components, their state and their operations

| Component | State | Operations | Hard behaviour |
|---|---|---|---|
| DAG algorithms (`core/dag.py`) | none (pure) | `detect_cycle`, `topological_layers`, `dependents_of` | cyclic inputs, counting, which recurrence is a cycle |
| DAG executor (`core/dag_executor.py`) | rows `workflow_runs`, `workflow_steps`; memory `_contexts` (pool, `in_flight`) under one lock | `start_run`, `execute_run`, `_schedule_ready`, `_on_step_complete`, `_abort_run`, `cancel_run`, `retry_run`, `resume_pending_runs` | threads, one commit per row, crash between two commits, startup recovery racing requests |
| Approval manager (`core/approval_manager.py`) | the same rows, a lock of its own | `enter_checkpoint`, `approve`, `reject` | two locks over one table |
| Kernel session (`kernel/src/daemon.rs`, `orchestrator/state.rs`, `cp/runtime.py`) | `KernelPersistentState`, shutdown channel; `session_id` in the control plane | register, heartbeat, watch events, watchdog, refresh, supervise, shut down | snapshots used after they are outdated, late answers, process exits, graceful drain |
| Inference gateway (`core/inference_gateway.py`, `core/provider_router.py`) | `budget_json` of the run; buckets, cursors, quarantine, grants, prompt cache in memory, a lock for each part | `call` (cache, budget check, routing, rate limit, grants, retries, fallbacks, charge) | budget check and charge are separate steps, checks that fail open, grants rejected while others use them |
| Subagent manager (`core/subagent_manager.py`) | slots, counters, ledger; the same `budget_json` | `spawn`, `spawn_many` | read-modify-write of usage without a lock |
| Agents and providers (`core/agent_{orchestrator,invoker,normalizer}.py`, `core/provider_config.py`) | rows `agents`, `providers`, `invocations`, `invocation_events`, `usage_logs`; session secrets in memory | save, delete and test; invoke, then one thread per invocation that writes its row, events and usage | every write commits alone and nothing serialises requests; the runner that polls has a deadline; a crash leaves rows behind |
| Event router, WebSocket server (`core/event_router.py`, `cp/ws_server.py`) | `workflow_events` with a sequence per run; client and connection lists, a bounded queue per client | emit, broadcast; accept, handshake, register, write, read, drop, stop | broadcast under the router's lock, slow clients, clients leaving while they are written to |
| Scheduler, cron (`core/scheduler.py`, `core/cron_parser.py`) | `scheduled_tasks` | create, pause, resume, tick; parse, format | clock read before the lock, ticks side by side, aliases and steps at the bounds of a field |
| Checkpoints (`core/checkpoint_manager.py`, `adapters/rust_infra.py`) | kernel snapshots and `checkpoints` rows | snapshot before a mutation, restore | two commits in two processes, other callers between asking, copying and recording, requests done too late |
| Memory (`core/memory_store.py`) | `memory_entries`, a byte limit | record with eviction, delete | each deletion commits alone |
| Tools and MCP (`core/tool_registry.py`, `core/mcp_client.py`, routes of `cp/orchestration.py`) | `mcp_servers` rows, catalogue, handlers, connections | configure, connect, disconnect, remove; invoke | no lock anywhere, one table of names for all servers; a call checks one table and uses another later |
| Code execution (`core/code_executor.py`) | one sandbox job | execute | a deadline that is looked at only when a line arrives |
| Hooks (`core/hook_manager.py`) | registered hooks, threads | register, trigger, wait | guardrails that raise, threads listed before they are started |
| Planner, serializer (`core/planner.py`, `core/workflow_serializer.py`) | `workflow_definitions` | create, update, instantiate a template; rebuild at `start_run` | three pieces of code read one definition with different tolerances |
| Workloads (`kernel/src/orchestrator/{executor,workload,workload_store}.rs`) | workload table, child processes | create, start, stop, remove, watch | exit racing stop |
| Kernel persistence (`orchestrator/state.rs`) | state file, temporary file | `update`, `persist_json` | writers outside the lock |
| HTTP shell, handlers, window, front end, CLI, packaging | sessions, views | requests | presentation and I/O |

### 1.2 How they interact

The HTTP shell calls the executor and the approval manager from its own threads.
The executor calls a step runner on a pool thread per step; a runner ends by
calling back into the executor. Executor and approval manager share the database
rows, each under its own lock; `approve` ends by calling `execute_run`, and the
scheduler enters checkpoints through the manager. At startup
`cp/runtime.py` starts the HTTP shell first and recovery second, so requests and
recovery overlap. The control plane registers with the kernel over gRPC, keeps a
session with heartbeats, and follows an event stream; in managed mode the kernel
launches it and restarts it. Threads that make model calls share one gateway;
subagents and the gateway's budget tracker both rewrite the run's `budget_json`, the
tracker under a lock the subagent manager does not know.

An agent-backed step invokes an agent and polls the invocation's row; the invocation
runs on a thread of its own and asks the gateway, if there is one, or a client built
from the provider's row of that moment. The event router numbers and stores workflow
events and, still under its lock, hands each to the broadcaster of the WebSocket
server, which puts it into the queue of every client; nothing is replayed, a client
sees what happens after it was registered. Checkpoints and sandboxed scripts reach the
kernel through the adapter, which exists only after registration. The remaining
services (memory, scheduler, tools, hooks, planner) are objects that
`_init_orchestration` builds beside each other over tables of their own.

### 1.3 What makes each part correct

* **DAG algorithms**: a cycle is reported exactly when there is one, and is one;
  layers respect dependencies; `dependents_of` is the transitive closure; all end.
* **Executor and approvals**: dependencies before dependents; at most
  `concurrency_limit` steps at work; decisions are final; a run never stays where
  nobody will move it again; nothing downstream of a rejection runs; recovery only
  repeats work that was lost.
* **Kernel session**: the kernel forgets a dead control plane and a live one gets
  a session again; health converges to the state; children are restarted, one at
  a time and as long as the supervisor lives, and not left behind; a shutdown completes.
* **Model calls and subagents**: a budget is overrun by no more than what was in
  flight; no usage is lost between calls; once a request is blocked, so is every one
  estimated as high; the available providers are tried once each, best first; limits on windows, retries and subagents
  hold; grants rotate and rejected ones do not come back; every call and spawn ends.
* **Agents**: row, events, usage and the verdict of the step runner agree; every
  invocation ends, and every runner is answered.
* **Events**: numbers without a gap, in the order of the rows; a client sees a
  gap-free stretch, or is dropped; nobody dead stays on a list.
* **Cron, scheduler**: an expression names the minutes its text says; runs start only
  for active tasks at such minutes.
* **Checkpoints**: no row without a snapshot that can undo its mutation, no mutation
  without its row.
* **Memory**: the bound holds whoever dies; only the oldest goes, and only for room.
* **Tools**: no call gets past the scope of its caller, or a mutating tool out of the
  sandbox, unless its very name changes hands while it is under way.
* **Code execution**: a result says what the script did, or that it was cut off.
* **Hooks**: guardrails fail closed; no other hook can stop a step.
* **Planner**: what a run executes is what the planner accepted.

## 2. Modules

| Module | Models |
|---|---|
| `Dag` | graphs as functions from a step to its dependencies, and the set-theoretic definition of dependents |
| `DagGraph` | the graph the three algorithm machines work on |
| `DagDependents`, `DagLayers`, `DagCycle` | the three algorithms, one loop iteration per action; the order in which sets and dictionaries are walked is free |
| `DagCalls` | the three on the same graph, one after the other |
| `DagLemmas`, `DagCallsProofs` | facts about dependents; correctness of the three algorithms |
| `DagExecutor` | one run under executor and approval manager |
| `MCDagExecutor` | workflow graphs for TLC |
| `DagExecutorProofs` | the executor's inductive invariants, and its refinement of `RunLifecycle` |
| `KernelSession` | one boot of the kernel with its control plane |
| `KernelSessionProofs` | the kernel's inductive invariants; supervision and shutdown |
| `RunBudget` | the persisted budget of a run, shared by the next two |
| `ProviderRouter`, `InferenceGateway` | `select`, and `call` made by several threads |
| `Subagents` | `spawn` on several threads |
| `ModelUsage`, `MCModelUsage` | gateway and subagents together; configurations for TLC |
| `ModelUsageProofs` | the bound on the overrun of a budget; the invariants of every part of the gateway |
| `RunLifecycle` | the abstract life of a run, which `DagExecutor` implements |
| `EventStream`, `EventStreamProofs` | event router, broadcaster and WebSocket server; its inductive invariant |
| `AgentInvocation`, `AgentInvocationProofs` | step runner, invocation threads, and the requests that edit agents and providers; the story of an invocation |
| `MemoryStore`, `Cron`, `Scheduler`, `Checkpoints`, `ToolCatalog`, `CodeExecution`, `Hooks`, `Planning` | one service each |
| `Services`, `MCServices` | the services side by side; the instance for TLC |
| `ServicesProofs` | one inductive invariant per service |

### 2.1 `DagExecutor`

`runState` and `stepState` are the rows. Each `DatabaseBackend.execute` commits on
its own, so **an action writes at most one row**; a handler that writes several is
a chain of actions that holds the executor's lock (`pc`) and works through `todo`.
`ctx` and `inFlight` are `_contexts[run_id]`; `"empty"` is a context whose graph
was loaded before the step rows existed. `queued` and `running` count pool tasks,
`execCalls` and `schedCalls` threads about to enter `execute_run` and
`_schedule_ready`. `seen` is the scheduler's local `states`. `mgrOp` and `mgrTodo`
are the request that holds the manager's lock. `boot` is the progress of
`resume_pending_runs`; `Crash` clears everything but the rows.

| Code | Actions |
|---|---|
| `start_run` | `StartRun`, `InsertSteps` |
| `execute_run` | `ExecuteRun` |
| `_schedule_ready` | `ScheduleReady`, `SkipBlocked`, `SkipBlockedDone`, `EnterCheckpoint`, `ParkRun`, `CheckpointsDone`, `Dispatch`, `DispatchDone`, `Finish` |
| `_run_step`, `_on_step_complete`, `_abort_run` | `StartStep`, `CompleteStep`, `AbortRun`, `AbortSkip`, `AbortDone` |
| `cancel_run`, `retry_run` | `CancelRun`, `CancelStep`, `CancelDone`; `RetryRun`, `RetryReset`, `RetryDone` |
| `approve`, `reject` | `RequireAwaiting`, `ApproveStep`; `RejectStep`, `RejectDependent`, `RejectRun` |
| `resume_pending_runs` | `ResumeSelect`, `ResumeReset`, `ResumeExecute` |

Abstractions: one run (runs share only the lock); step ids are opaque and walked in
any order; a step runner is an outcome (`completed`, `failed`, or `stop` for
`_HardStop`); outputs, events and timestamps are left out. The runner of an agent step
is in `AgentInvocation`: its `completed`, `failed` and `stopped` are these outcomes.

`RunLifecycle` says what a reader of the rows may rely on, with one action per visible
change of a row: a step starts when its dependencies have completed and fewer than
`Limit` run, ends once, is skipped only for a dependency that will not complete; the
run is decided after its steps; only a failed run is taken up again, and then
everything that did not complete is reset. The mapping: `step` is `stepState`, `Limit`
is `ConcurrencyLimit`, and `run` is `LifecycleState`: `pending` and `running` are both
`open`, and a run whose row still says `failed` while `retry_run` resets its steps
(`pc = "retry"`) is `reopening`. Crashes, approvals and hard stops are outside this
contract: what they add is in the other runs, and how they break it in section 3.

### 2.2 `KernelSession`

`health`, `deps`, `session`, `stale`, `restarted` are the fields of
`KernelPersistentState` that decisions depend on; an update of the store is atomic,
a snapshot and the update based on it are two actions. `at[t]` is where each of the
six tasks is (the handlers of the two RPCs, watchdog, dependency refresh,
supervisor, shutdown). Sessions are UUIDs: only equality matters, so an id that is
in use nowhere stands for a fresh one and three ids are enough. Time is reduced to
"the last heartbeat is too old". A failing write of the store, and for the supervisor a
failing spawn, leaves the loop of watchdog or supervisor by `?` and ends that task for
good (`TaskFails`). The same failure in a handler is an error answer, which the control
plane meets like a lost one; in the dependency refresh it is logged and the next round
comes; a failing `child.wait()` is left out. `Racing` names the tasks that may be preempted
between the snapshot and the write of `recompute_health`; the others do both in one
step. The proof holds for every `Racing`.

Three pairs of steps of the code are one action because nothing can tell them
apart: sending a heartbeat and its first session test; incrementing the restart
count and clearing the session (the count is only read without a session); the last
write of a registration and its answer. One handler of each RPC is in flight: a
call made while an abandoned handler is being dropped waits for it.

### 2.3 `ModelUsage`

An action is a critical section of one of the gateway's four parts, or an answer of
a provider. `at[c]` is where thread `c` is in `call`, and `key`, `skip`, `health`,
`request`, `candidates`, `failed` (`failures`), `attempts`, `grant` are the locals of the call.
`parts` is the set of optional parts the gateway was built with. `bucket` keeps ages
instead of times; `refused` holds the estimates of the requests that were blocked; a delayed caller is one whose `Acquire` is not enabled yet. A
secret reference stands for its grant (one grant per reference is cached, and a
quarantined reference gets no other). `charged`, `admitted`, `lastRef` and `rejected`
are history for the properties.

| Code | Actions |
|---|---|
| `call` | `Call`, `Route`, `Put` |
| `precheck`, `charge` | `PrecheckAllows`, `PrecheckBlocks`, `PrecheckFailsOpen`; `ChargeLoad`, `ChargeFails`, `ChargeStore`, `ChargeRaises` |
| `RateLimiter.acquire` | `Acquire`, `Tick` |
| `CredentialPoolManager` | `AcquireGrant`, `GrantSourceFails`, `PoolExhausted`, `Quarantine` |
| `_call_with_retry`, `_attempt` | `Succeeds`, `FailsRetryably`, `FailsForGood`, `RejectsGrant` |
| `spawn` | `AcquireSlot`, `EnterActive`, `RunnerEnds`, `LeaveActive`, `ReleaseSlot`, `RecordUsage`, `PersistRead`, `PersistWrite` |

Each call brings a request of its own: what it is estimated at and the fallback order of
its routing policy, which may be empty. A health snapshot knows some of the providers, in
the order of its dictionary; `Universe` is the fallback order or, when that is empty, those
providers. A charge whose UPDATE raises leaves the call with the exception and the usage
uncharged (`ChargeRaises`). Tokens stand for cost as well; the
budget is the persisted one (a budget given in the scope object is changed in place
under the same lock). The gateway is an object the control plane's code offers and
its tests build; nothing at this commit constructs one at startup.

### 2.4 `EventStream`

An event is its position in `log`. `em[e]` is where emitter `e` is inside `emit`
(`wait`, `insert`, `notify`, `send`, `close`) with its locals; `phase[c]` is where the
thread of client `c` is in `_handle_client`. `got` and `since` are history.

| Code | Actions |
|---|---|
| `EventRouter.emit` | `Emit`, `TakeSeq`, `Persist`, `Release` |
| `WorkflowEventBroadcaster.broadcast` | `Snapshot`, `Send`, `DropDead`, `CloseDead` |
| `WebSocketServer.start`, `_serve`, `stop` | `Start`, `Accept`, `Stop`, `StopClose`, `StopReturns` |
| `_handle_client` | `Refuse`, `Track`, `Register`, `StartThreads`, `Unregister` |
| `_write_loop`, `_read_loop` | `Write`, `Read` |

Framing, payloads and their redaction are left out; a client connects once (one that
reconnects is a new object).

### 2.5 `AgentInvocation`

`agent`, `provider`, `inv`, `events`, `usage` are the rows, `rev = 0` a deleted one;
`secret` is the session secret. `thread[i]` and `runner[i]` are where the invocation
thread and the step runner of invocation `i` are, one write apart; `faulty` remembers
which writes failed. An editor is a request thread between what it has read and what
it writes.

| Code | Actions |
|---|---|
| `_run_agent_step`, `invoke_agent`, `_await_invocation` | `CheckAgent`, `InsertRow`, `QueueInvocation`, `Poll` |
| `execute_invocation` | `OverridesUnparsable` or `SetRunning`, `Started`, `BuildLm` or `GatewayAnswers`, `CallEvents`, `RunDspyProgram`, `RecordUsage`, `Conclude`, `ExceptClause` |
| `save_agent`, `delete_agent` | `SaveAgent`, `WriteAgent`, `DeleteAgent` |
| `save_provider`, `delete_provider`, `test_provider`, `delete_session_secret` | `SaveProvider`, `WriteProvider`, `WriteSecret`, `DeleteProvider`, `TestProvider`, `WriteTest`, `DeleteSessionSecret` |

What the model answers, whether it parses and whether DSPy is installed are outcomes.
`Poll` that finds a row undecided may meet the deadline; a poll that merely waits
changes nothing. The overrides of a step are passed on as they are; `float()` and `int()`
of them come before the first write and outside the try block, so a thread may die there
although no write has failed.

### 2.6 `Services`

The eight services share no variable, so every behaviour of `Services` exercises one of
them, chosen at the start (`focus`): a property of one holds among all exactly when it
holds of it alone. One run then covers them all.

* `MemoryStore`: `record` holds the lock from the size check to the INSERT
  (`EvictOne`, `EvictionEnds`, `InsertEntry`), but each statement commits, so
  `MemoryCrash` may fall between any two. Times have whole seconds, as in `now_iso`.
* `Cron`: `parse` as operators over two fields that stand for the five, a plain one
  with a least value above zero and the day of the week with its alias. The reference
  definition says which values a part names without expanding it. `Scheduler`: `tick`
  reads the clock, waits for the lock, selects, and starts and advances row by row.
* `Checkpoints`: asking, the kernel's copy, the row and the mutation are four steps,
  and other callers mutate and restore the workspace between any two of them (only asking
  to recording is under the manager's lock). The contents of a workspace are the mutations
  in it, each named by the snapshot that was taken for it. A call may fail before or after
  its effect in the kernel; a snapshot or restore that was given up on may still be done
  (`KernelCatchesUp`). The kernel's copy of a workspace is assumed to be one step: it is
  declared in `kernel.proto` (`FilesystemControl`), and no Rust code implements it. At this
  commit the adapter is built without that stub, so that `snapshot_workspace` raises, and
  only tests call `snapshot_before_mutation`.
* `ToolCatalog`: the two halves of `register_tool`; connecting and disconnecting, tool by
  tool; the other routes; and an invocation that reads the catalogue, checks its scope and
  later takes the handler by name. `catalog` and `handlers` are two tables with entries of
  one shape, so that they can disagree. Servers may advertise the same name. `contested`
  (names that two threads were registering at once) and the field `overtaken` of a call
  (its name was registered since it read the catalogue) are history. That a connection to a
  server with a secret has its grant needs no property: `connect` asks for the grant first
  and hands it to the transport.
* `CodeExecution`: a script in a sandbox, in half seconds, because the ceiling passed
  to the kernel is cut to whole seconds by `int()` and 0 means none. An asynchronous
  stub (`bridged`) drains the stream before the first line is looked at.
* `Hooks`: `trigger` works on a copy; `_dispatch_async` lists a thread before it is
  started; whatever is recorded may fail to be.
* `Planning`: planner, serializer and `_dag_from_definition` over definitions with
  ill-typed fields, duplicate ids and dangling dependencies.

## 3. Runs

Passing runs:

| Run | Instance | Shows |
|---|---|---|
| `dag` | every graph over three steps, cyclic and self-referential ones included | each algorithm against its definition (so `topological_layers` raises exactly where `detect_cycle` has a cycle to name), termination |
| `exec_work` | five steps in two layers of joins, limit 2, failures, two retries, cancellation at any time | the executor implements `RunLifecycle`; limit on threads; settling |
| `exec_recovery` | same graph, hard stops, two crashes at any write | dependency order across crashes, agreement of memory and rows, nobody stranded |
| `exec_approvals` | a review of one branch beside another branch, one retry, hard stops, cancellation | the run pauses only when its row says so, and settles |
| `exec_everything` | all requests and outcomes, a crash, a retry, requests during startup | the inductive invariant and rejection |
| `kernel` | both launch modes, all dependency states, one fault anywhere, supervisor and watchdog racing or ended by an error | sessions and health converge, a child is restarted while there is a supervisor, a shutdown completes |
| `gateway` | two threads with requests of their own, two providers, a pool of two references, two subagents on one slot, in five configurations of the gateway | overrun, charges, limits on windows, retries and slots, rotation, quarantine, cache, routing; every call and spawn ends |
| `events` | two emitters, two clients, queues of one, two events, a server that may stop | numbering, gap-free delivery, no dead client on a list |
| `agents` | one invocation, through the gateway or not, two editing requests, two failed writes, overrides that do not parse, a crash | the records of an invocation agree; it ends and its runner is answered |
| `services` | each service with its threads, failures and clock | cron against its reference, schedules, memory bound and eviction order, checkpoints, tool scopes, honest script results, guardrails, planned graph = executed graph |

Violation runs, each a disagreement between the code and a statement in the
repository (quoted in `PROJECT.json`):

| Run | What happens |
|---|---|
| `v_rejected_overwritten` | a step of another branch is in flight when a checkpoint is rejected; its completion overwrites `rejected` |
| `v_orphan` | the kernel exits without killing a child that has not connected yet |

More were found with the same models and are not kept as runs; the property and the
instance that show each are given so that it can be repeated. In the executor:

* after an abort and a retry, a worker of the aborted execution reports into the new
  context and overwrites a decided step (`StepDecisionsStand`; `FanSteps`, outcomes
  `completed` and `stop`, limit 2, one retry);
* recovery resets a step that a worker of the same process is executing, and it runs
  twice (`OnlyOrphansReset`; `PairSteps`, `QuietStartup = FALSE`);
* an approval between parking and the scheduler's re-read is lost: nobody schedules
  the run again (`ParkedRunHasDecision`; a final review, `approve`);
* two independent checkpoints: approving the first re-drives the run and the pause
  at the second leaves the row in `running` (`PausedRunIsParked`, two approval
  steps after one work step);
* two chained checkpoints: an approval during `_enter_ready_checkpoints` makes the
  next one ready in the re-read and it is dispatched as work (`ApprovalsNeverRun`,
  approval, approval, work in a row with a parallel checkpoint);
* a crash between the two inserts of `start_run` makes recovery complete an empty
  run (`ImplementsLifecycle`, `MaxCrashes = 1`);
* a crash between the two halves of `approve` parks the run for good
  (`ParkedRunHasDecision`, `MaxCrashes = 1`);
* a crash while a review waits beside an executing step: the run's row says
  `awaiting_approval`, recovery leaves such a run alone, and after the approval that step
  stays `running` with no task (`InFlightMatchesRows`; `exec_approvals` with
  `MaxCrashes = 1` and `approve`);
* a crash inside `cancel_run` leaves the run in `cancelling`, which recovery does not
  select (`NeverStranded`, `MaxCrashes = 1` and cancellation);
* an approval that has passed `_require_awaiting` overwrites the cancellation of
  its step (`StepDecisionsStand`, approve and cancel);
* a cancellation between the two inserts of `start_run` leaves pending steps in a
  cancelled run. `RunLifecycle!Cancelled` grants this, and only this.

* recovery during requests resets and re-dispatches a step, and a rejected branch runs
  on (`RejectionHolds`; the graph a, review, c with an independent d, limit 2,
  `QuietStartup = FALSE`).

In the other parts:

* a task that took its snapshot before a shutdown began writes an older health over
  `shutting_down` (the invariant `ShutdownShown` of `KernelSessionProofs`, with any task in
  `Racing`);
* a subagent's `_persist_usage` overwrites a charge made since it read the row, so
  that usage is lost, the total may go down, and a run marked `budget_exceeded`
  accepts calls again (`UsageAccounted` without its conditions
  `ledger = 0`, one call and one subagent, or two calls and usages 1 and 2);
* a failed write of usage fails the step, which requirement 5.4 rules out
  (`UsageFailureHarmless`), and a failed write of the `queued` event fails the step
  instead of stopping the run, against the comment in `_run_agent_step` and requirement
  5.6 (`EventFailureStopsRun`: the exception it catches is never raised); one
  invocation, one editor, no gateway, `MaxSaves = 0`, `MaxFaults = 1`, no crash;
* a client in its handshake while `stop` copies the connections is never closed
  (`StopDropsClients`; one run, emitter, client and event, `FairSpec`);
* an error while the supervisor starts a child, or while it writes the state, ends the
  supervisor, and nobody restarts the control plane after that; `vloopd` only logs it.
  docs/vloopd.md has the kernel restart a crashed control plane with no such
  exception (`ChildRestarted` without its last disjunct);
* a run marked `budget_exceeded`, a state the row calls terminal, still lets a request
  pass that is estimated lower than the one that was blocked (`UsageAccounted` with
  `refused # {} => \A e \in Estimates : WouldExceed(e)` in its last line);
* step overrides that do not parse as numbers kill the invocation thread before its
  first write: the row stays `queued` for good, without an event, and the runner stops
  the run at its deadline although nothing but the request was wrong (the last conjunct of
  `InvocationRecordsAgree` says so; no write has to fail);
* two requests for one MCP server at a time: while one connects, the other finds the
  server unreachable (or disconnects it) and has taken the list of names to retire before
  the first has registered them; the server ends disconnected with its tools in service.
  Reconnecting with a narrower filter forgets the tools registered before, and a
  `disconnect` leaves those available (both `DisconnectRetiresTools`; `MCServices` shows the
  first, `Settings` with the filters `{"read", "write"}` and `{"read"}` the second);
* two MCP servers that advertise one name, out of the caller's scope or mutating on one of
  them: a call that has read the harmless specification takes the handler of the other,
  connected meanwhile, and runs it in process; or two threads connect them at once and
  leave the specification of the one with the handler of the other, for every later call
  (`ScopeNeverEscaped`; the instance of `MCServices`).

This is also why the passing runs differ in what they allow: a property is checked
in the largest environment in which the code keeps it, and the environment that
breaks it is a run, or an item of the list above. Every property of a passing run
has a mutant of the code that breaks it.

### 3.1 Bounds

* **Graphs.** Three steps hold every shape the DAG algorithms distinguish: a
  self-loop, a cycle through two and three steps, a diamond half, a tail into a
  cycle, disconnected steps. The executor's graphs have five steps so that a
  failure has a dependent at distance two, two steps compete for the limit, and one
  branch is independent of the other.
* **`ConcurrencyLimit`** 1 and 2, below the number of roots, so that the limit binds.
* **`MaxRetries`** 1, and 2 where the life cycle is checked: a retry after a retry
  starts from the same kind of state.
  **`MaxCrashes`** 1 or 2: the second falls into the recovery from the first.
* **`MaxFaults`** 1 in `kernel`: a late heartbeat, an RPC timeout or an exit at any
  point; two faults were checked for the same invariant without the liveness
  properties.
* **`gateway`**: two threads are the fewest that can both be past the budget check,
  hold the same grant or miss the same key; estimates of 0 and 2 against `MaxTokens` 1
  and a usage of 2 let a request be blocked before and after a charge, and a smaller one
  pass or not after a larger was blocked; three calls make a budget check matter after the
  others were charged. One thread names its providers, one of them twice, and the other
  leaves them to the snapshot; three snapshots prefer one, prefer none, and know only an
  unavailable one. A cache of one entry evicts with the second key. `MaxRetries` 1, one check that fails open, one call per window and a window
  of one tick make every branch happen. The configurations combine parts that share
  state (budget with subagents, budget with limiter, limiter with cache); all parts at
  once have millions of states and no further shared state. Threads make a bounded
  number of calls: with an endless supply a delayed caller could starve.
* **`events`**: two emitters contend for the lock, two clients make one slow client
  matter to another, a queue of one overflows with the second event. Sequences of
  different runs do not meet, so one run is enough.
* **`agents`**: invocations share nothing but the rows they read, so one is enough; two
  editors can overwrite each other, with two requests in all; two failed writes reach
  the failure of the except clause after a failure inside the try.
* **`services`**: the smallest numbers at which each effect happens: three entries
  against a bound that two fill, entries larger than it, and one second that tells
  two ages apart; a plain field from 1 to 2, three days a week and every part with
  bounds one beyond the field on either side; two ticks and a request over three
  minutes; two callers and workspaces, and three snapshots, so that a mutation and a
  restore fall between asking for one and recording it; two servers that share a name
  (reading on one, mutating on the other), two threads that connect them and one that calls,
  with scopes that set, contradict or leave out a toolset; each server has one
  configuration, because the filter only decides which names are registered (a second one
  per server has more than nine million states; the theorem covers all); limits of zero (refused), half and one
  and a half seconds against a clock of two; two hooks and runs; definitions of up to two
  steps over every combination of fields.

### 3.2 Fairness

Executor: each pool thread, the handler that holds a lock, the manager and startup
recovery keep going (a step runner polls for at most `agent_poll_timeout`); users
and crashes are not fair. Kernel: each task and handler keeps going, the control
plane reconnects and sends heartbeats (its loops have no exit but shutdown), and a
heartbeat that nobody renews gets older. Exits, timeouts, the end of the event
stream, the start of an external control plane and shutdown requests are not fair.
Gateway: every thread and subagent goes on when it can and the clock ticks; providers
and runners answer in the end, if only with an error (the gateway itself sets no
timeout: this is assumed of the injected `provider_call`); nobody has to make a call. Events: emitters
inside `emit`, handlers, writers and `stop` go on (writes have a timeout); nobody has to
emit, connect, leave or stop the server. Agents: the runner and the invocation thread go
on, model calls return, and a poll has its deadline; nobody has to edit. `services` has
no liveness property and needs no fairness.

`gateway`, `events`, `agents` and `services` end when the bounded calls have been made,
so deadlock is not checked there. `kernel` turns deadlock checking off because the kernel really exits; a run of the
executor at rest waits (`Wait`), which stands for a server without requests.

## 4. What is proved

Every theorem below holds for every value of the constants that satisfies the named
assumptions. Each inductive invariant was checked by TLC too, on the instance of the
run that checks the property it is for.

### 4.1 DAG algorithms (`DagLemmas`, `DagCallsProofs`)

`CallsReturnDependents`, `LayersAreRight` and `CyclesAreFound` state the three
properties of the run `dag` for every finite graph and every order of the loops.

* `dependents_of`: what was found lies within the dependents, and whatever a found step
  leads to is found or still queued (`WalkCorrect`). That the definition itself is
  closed, and least, is `DagLemmas`.
* `topological_layers` (`LayeringCorrect`): `remaining` counts the dependencies
  without a layer, and the next layer is exactly the steps that are due. When it is
  empty, what is left is a set in which every step waits for another;
  `AcyclicHasFirst` (by well-foundedness of inclusion on finite sets, since induction
  is not available) says that an acyclic graph has no such set. Conversely, disjoint
  layers in dependency order leave no room for a cycle: what depends on a step lies in
  later layers.
* `detect_cycle` (`SearchCorrect`): a frame has looked at a dependency only if that is
  black or the next frame, and a black step leads to black steps only and is not
  downstream of itself. A step is popped when its dependencies are black, and then the
  steps that are neither black nor itself are closed under dependents, so it is not
  among its own.
* `SearchAndOrderingAgree`: `topological_layers` raises exactly when `detect_cycle`,
  which it calls for the message, has a cycle to name. That no run states.

### 4.2 Executor (`DagExecutorProofs`)

**In every environment** (`ExecutorSafe`, `TypeCorrect`, `RowsRespectLimit`,
`LiveRunsUndecided`): no more rows are running than the limit, and a run with a live
context has not been decided except by a rejection. The limit is not inductive alone:
the dispatch loop writes rows one by one, on the strength of a snapshot, while four
writers that do not hold its lock change rows. `DispatchAccounting` says that during
the loop the running rows are among those of the snapshot and those dispatched since,
and that these two stay within the limit; every other writer can only take rows out of
`running`. `HandlerOwnsContext` ties the handlers to the context.

**In orderly operation** (`Orderly`): users wait for startup recovery, and no run that a
hard stop aborted is retried. Checkpoints, approvals, rejections, cancellation, failures,
retries and crashes at any write remain, on every graph. Each further hypothesis is the
negation of an environment that section 3 shows to break the result, so the theorems say
how far the code keeps its promises:

| Theorem | States | Further hypothesis |
|---|---|---|
| `DependenciesRespected` | `DependencyOrder` | |
| `RunnersRespectLimit` | `RunnersWithinLimit` | |
| `RejectionsHold` | `RejectionHolds` | |
| `OrphansAloneAreReset` | `OnlyOrphansReset` | |
| `InFlightIsRunning` | `InFlightMatchesRows` | no checkpoints, or no crashes |
| `StepDecisionsAreKept` | `StepDecisionsStand` | no decisions of users, or neither cancellation nor hard stops |
| `RunDecisionsAreKept` | `RunDecisionsStand` | no rejections |
| `PausedRunsAreParked` | `PausedRunIsParked` | no crashes, no rejections, one checkpoint (`SingleReview`) |
| `RunsAreNotStranded` | `NeverStranded` | no checkpoints (`PlainWork`); acyclic graph; cancellation or crashes, not both (`NoCrashedCancel`) |
| `RunsLiveTheirLifecycle` | `ImplementsLifecycle` | no checkpoints, crashes or hard stops (`Undisturbed`) |

They rest on `OrderSafe`. The first three properties are not inductive, alone or together,
because rows are written under two locks, by the handlers of the executor and by the
manager, each row in a transaction of its own. `OrderInvariant` says of each writer what it
may still believe when it writes:

* `TakenInOrder` is the core: a step that somebody has taken up (its row, its task or a
  decision about it) waits for no dependency. `DownstreamWaits` makes it a statement about
  everything downstream of an unfinished step.
* `SchedulingInStep`: what `_schedule_ready` is about to park or dispatch is pending and
  ready, and its snapshot is out of date only where the manager has skipped a step.
* `TeardownInStep`: what depends on a step that `_abort_run` or `cancel_run` has still to
  write has not been taken up. Hence the order in which they write does not matter.
* `RetryInStep`, `FailedRunQuiet`: `retry_run` finds nothing running, parked or under
  decision. An aborted run has tasks left; here `Orderly` is needed.
* `DecisionInStep`, `RejectionInStep`: the checkpoint that `approve` or `reject` has looked up is as
  it was found unless the run is given up (`GivenUp`), and what `reject` has still to skip
  lies below a step that a retry cannot reach.
* `TasksAccounted`, `TasksWithinLimit`: a step has one task, known to the context and
  `running` in the rows, and tasks outlive their context only under a run that no
  scheduler looks at again (`Closed`). This bounds threads, not only rows.
* `StartupAlone`, `RowsTogether`: recovery is over before anybody else writes, and no
  context is built on half a run.

`RejectionHolds` then follows: a cancelled checkpoint is not completed, so everything
downstream of it waits and nobody has taken it up.

`DecisionsSafe` adds which handlers can be at work at all, that a handler overtaken by
nobody has undecided steps only to write (`TeardownExact`, `DecisionExact`), and that without a crash
a running row has a task (`RunningHaveTasks`).

`ReviewSafe` is the invariant of a single review. A parked run is one whose row every
later call of `execute_run` would rewrite, so it counts the calls that can still come before
the approval (`CallsCounted`): only the first one of a started or retried run, which finds
the row `pending`. A second checkpoint brings a second approval and with it a call that
finds the run parked; a rejection writes the row without the executor's lock; a crash
restarts the process between the two.

`WorkSafe` is the invariant of plain work, orderly operation without checkpoints, where more
is true: the snapshot of the handler with the lock is what the rows say but for its own
writes (`SnapshotFresh`), and the tasks of a live run are exactly its running rows
(`TasksMatchRows`). For `NeverStranded`, `NobodyForgotten` says
that a live run with a free lock has a task or a scheduling call; the only step that
could break it is the end of a dispatch loop that dispatched nothing, and on an acyclic
graph a pending step that depends on no other pending one is ready or blocked
(`AcyclicHasFirst`). For the refinement, `LifeInvariant` adds why a step is skipped or
cancelled and that the steps of a failed run are settled; each action is then mapped to
one action of `RunLifecycle` or to a stutter under the mapping of section 2.1.

### 4.3 Kernel (`KernelSessionProofs`)

`KernelCorrect`: the kernel's state is well-formed, a control plane that waits for its
registration has a handler working for it, and the supervisor launches only when no
child runs. The type of a fresh session needs the second part (at most two ids are in
use when a registration starts), and that a launched control plane has no session needs
the third.

`BootCorrect` adds what holds until the end of the boot: a managed control plane that runs
is watched (`ChildWatched`), the kernel drains and exits by a shutdown only
(`ShutdownInOrder`), and the child it may leave behind, the orphan of `v_orphan`, has no
session and has not connected (`OrphanNotConnected`). This limits the finding: a registered
control plane is never orphaned. On it rest four action properties:

* `SessionsAreNotInherited`: a session whose control plane is gone is never taken over,
  in whichever order timeouts, dropped handlers, late writes and new registrations fall.
  An answer reaches only the caller that still waits, and its handler is the one whose
  session it reports.
* `ShutdownLaunchesNothing`: once the channel is written the supervisor starts nothing.
* `ShutdownForgottenByOvertaken`: `recompute_health` may take `shutting_down` back, but only
  from a snapshot older than the shutdown, once for each task that was overtaken.
  Hence `ShutdownIsShown`: if no task is preempted there, the health shows the
  shutdown from its start. TLC has a counterexample for each single racing task tried.

### 4.4 Gateway and subagents (`ModelUsageProofs`)

* `UsageCorrect`: as long as no subagent has recorded usage, the tokens charged plus
  the most the calls in flight can cost stay within the budget plus one call per thread
  and per check that failed open. `OverrunBounded` counts the calls in flight at their
  highest price, so that a charge only turns a possible cost into a real one. It needs
  `ChargeExclusive` (what a call in the middle of `charge` has loaded is what the row
  says, because it holds the lock) and `LedgerFirst` (a subagent is in the ledger
  before it touches the row). All other steps are `Quiet`: they neither pass the check
  nor enter or leave `charge`.
* `GatewaySafe` is the invariant of the rest, part by part, because a step of one part
  leaves the others alone: calls (`CallsOK`), pools (`PoolsOK`), rejected grants
  (`RejectionsOK`: every rejected grant but the last is quarantined and not the one in
  use, so a call is rejected at most once per reference), cache (`CacheOK`), windows (`LimiterOK`: a
  bucket is sorted by age, so that evicting from its front leaves what was admitted
  within the window), slots (`SlotsOK`) and
  the account (`AccountOK`: the row, and every copy of it about to be written back,
  plus what subagents have still to add, is covered by charges and ledger, even when
  one write overwrites another). A blocked estimate stays blocked because the row only grows
  until a subagent records usage. It gives `RowIsHonest` (`UsageAccounted`), `BoundsKept` (`LimitsKept`),
  `QuarantineKept` (`QuarantineHolds`), `CacheKept` (`CacheConsistent`) and `RoutedWell`
  (`CallsWellRouted`, for both universes: the candidates are the available providers, each
  once, sorted by rank and equals as named).
* `GrantsRotated`: `GrantsRotate`, for pools that list no reference twice
  (`PoolsDistinct`). The code does not remove duplicates, and a pool that lists one
  reference twice in a row hands it out twice in a row.

### 4.5 Events (`EventStreamProofs`)

`StreamStaysFaithful`, for any number of runs, emitters and clients and every queue
size. `EmitterStory` says what the holder of the router's lock has taken, written and
delivered; `ClientStory` says that what a client holds is consecutive and, unless it
is closed or about to be dropped, complete up to the event being sent (`UpToDate`).
Completeness needs the emitter's story: a client is behind by at most the event
of the emitter that has not reached it yet, and that emitter still has it on its list.

### 4.6 Agent invocations (`AgentInvocationProofs`)

`RecordsSafe` and `RecordsAgree` (`InvocationRecordsAgree`), for any number of
invocations, editors, failed writes and crashes. Per invocation, `ThreadStory` says
what the row shows and which writes have failed at each place of the thread,
`RunnerAhead` how far the runner has to be, `UsageStory` when usage may be on record, and `Agreement` what holds
of row and events at the end. Overrides that did not parse leave the thread dead with
the row as `QueueInvocation` left it (`ThreadStory`). Another invocation, and every edit of agents and
providers, leaves the story untouched (`Untouched`).

### 4.7 Services (`ServicesProofs`)

`Interleaving` reduces a step of `Services` to a step of one service and a stutter of
the others, so each service has an invariant of its own:

| Theorem | States | Invariant, and why the property is not inductive alone |
|---|---|---|
| `CheckpointsStayBacked` | `CheckpointsBacked` | a reference is in no workspace and in no snapshot until it is recorded (`ContentsRecorded`), so the snapshot a caller is about to record cannot hold its own mutation (`SnapshotSound`), whoever mutates or restores meanwhile; rows are never taken back (`RecordsGrow`) |
| `SandboxStaysHonest` | `SandboxResultsHonest` | lines read and lines in the pipe are together what the job wrote (`LinesKept`, `PipeHolds`), and each place of the call restricts the life of the workload (`WorkloadLife`) |
| `PlansStayFaithful` | `PlannedGraphRuns` | stored steps and rows come from a definition that had no problem (`StoredFrom`, `RowsFrom`): distinct ids, known dependencies, no cycle |
| `HooksStayClosed` | `HooksFailClosed` | what a trigger has run and has still to run is a prefix of the registered hooks (`TriggerStory`); hooks are only added (`HooksGrow`) |
| `ToolsStayGuarded` | `ToolsGuarded` | the tables agree on a name that nobody is registering and no two threads have (`TablesAgree`); who is half-way with such a name is alone and has catalogued what it will put down (`HalfWayAlone`); a call's handler is that of what it read until its name is registered again (`InvokeStory`) |
| `CronStaysFaithful` | `CronFaithful` | none needed beyond types; the work is in the parser |
| `MemoryStaysCurated` | `MemoryCurated` | a thread about to insert has the room for it, and what an eviction has still to go through is every row there is, older ones first (`InAge`), whoever died before |
| `ScheduleStaysHonoured` | `ScheduleHonoured` | a row has a next time only if it is active, at a minute its expression names (`RowHonest`), and the rows a tick goes through stay active because it holds the lock (`TickHolds`) |

Two facts need induction over data, which the provers do not have, and are got by descent.
`ListingExists`: a finite set has a listing in any strict total order (the place of an
element is one more than the number of those before it); so `ORDER BY` returns one.
`TotalSizeCounts`: the library's fold that sums the sizes is the number of bytes of all
entries, as a set; a least set for which it is not would have a smaller one inside.
From there, sums are cardinalities and eviction takes bytes away.

The cron parser counts out `range(low, high + 1, step)`, the reference definition asks
whether a value lies a multiple of the step above the lower end. `Turns` (the last
turn is the last multiple that fits), `CountedOut` and `NamedIsReached` are the
arithmetic between the two, with Sunday's alias folded in.

### 4.8 Assumptions

The named `ASSUME`s of the modules, which TLC evaluates on every run: finite sets of
steps, callers, agents and providers, a graph over the steps, positive limits, natural
bounds, estimates and usages below a highest usage, pools and fallback orders that are
sequences, health snapshots that name a provider once, names that a server advertises among the tool names, steps of a cron part
that are integers other than the mark for "no step", task ids that are numbers (rows are
read in their order), a mark for "no thread" that is no thread, and posted and template steps
whose id is not the empty string (such an id is a "bad" one).

## 5. What is only model-checked

* **Liveness** (`Terminates`, `EventuallySettles`, the convergence properties of the
  kernel, `AllEnd`, `ConnectionsSettle`, `InvocationsEnd`) is outside the prover's reach.
* **The environments outside `Orderly`**, and those that the further hypotheses of
  section 4.2 exclude, are covered by the runs on their graphs and by the counterexamples of
  section 3. `exec_everything` has requests during startup and hard stops with a retry; there
  `RejectionHolds` is checked with a limit of 1, the one at which it holds.
  `exec_approvals` has hard stops with a retry, `exec_recovery` crashes on the larger graph.

Every invariant and every action property of a passing run is also a theorem; what is
left to TLC is the list above.

## 6. What is not modelled

Text (prompts, messages, serialisation), presentation (front end, windows, CLI),
installers, and native or network I/O beyond what the models name as external.

* **Kernel state file**: `update` persists outside the lock through one temporary path.
  A rename can fail, or put an older or half-written snapshot in place; there is no
  guarantee left to check until writers are serialised. `KernelSession` models the state in memory.
* **Two kernels, two control planes**: `KernelSession` is one boot of each.
* **Kernel workloads**: child processes, output pumps and their store; the control plane
  sees them as the kernel of `CodeExecution`.
* **`vector_store.py`** (embeddings and similarity over external libraries),
  **`skill_manager.py`** (a table of texts), **`database.py`** (schema and connection:
  each committed statement is a step of the models), **`workloads.py`** (passes requests
  on), generated protocol code.

Some modelled code has no caller in the program at this commit and is modelled for the
callers its interface and tests foresee: `Scheduler.tick`, `snapshot_before_mutation`,
`CodeExecutor`, `HookManager`, `MCPClient` and the gateway are built or tested, but no
production path drives them.

## 7. Hazards

`PROJECT.json` lists what is hard to test, at the line where it bites, with the
properties that would catch it. Those without a property say why.

## 8. Plan

The components worth a model have one, and the safety properties that the runs check are
theorems. What is left, in this order:

1. Kernel workloads with `CodeExecution`; the state file once writers are serialised.
2. Once the code resets orphaned steps of a parked run, and takes the executor's lock in
   `reject`: the theorems of section 4.2 without the hypotheses that exclude these cases.
