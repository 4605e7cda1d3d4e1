----------------------------- MODULE DagExecutor -----------------------------
(***************************************************************************)
(* One Workflow_Run under the DagExecutor (control-plane/core/              *)
(* dag_executor.py) and the ApprovalManager (core/approval_manager.py).     *)
(*                                                                          *)
(* Every DatabaseBackend.execute commits on its own, so an action of this   *)
(* module makes at most one database write.  A handler that writes several  *)
(* rows is a chain of actions that holds the executor's lock (pc /= "idle") *)
(* while it works through todo.  The ApprovalManager has a lock of its own  *)
(* (mgrOp /= "idle"), so its writes interleave with those chains, and a     *)
(* crash may fall between any two writes.                                   *)
(*                                                                          *)
(* Runs share nothing but the executor's lock: rows, contexts, pools and    *)
(* event sequences are per run.  One run is therefore modelled.  Step ids   *)
(* are opaque: where the code walks steps in sorted order, the model walks  *)
(* them in any order.                                                       *)
(***************************************************************************)
EXTENDS Dag

CONSTANTS
    Steps,             \* the step ids of the run's workflow
    DependsOn,         \* workflow_steps.depends_on_json, the run's graph
    ApprovalSteps,     \* steps whose step_type is "approval"
    ConcurrencyLimit,  \* workflow_runs.concurrency_limit
    UserRequests,      \* which of the requests users make in this instance
    Outcomes,          \* how step runners may end in this instance
    QuietStartup,      \* users wait until startup recovery has been handed over
    MaxRetries,        \* bound on retry requests
    MaxCrashes         \* bound on crashes of the control plane

ASSUME StepsAssumption == IsFiniteSet(Steps)
ASSUME GraphAssumption == DependsOn \in Graphs(Steps)
ASSUME ApprovalAssumption == ApprovalSteps \subseteq Steps
ASSUME LimitAssumption == ConcurrencyLimit \in Nat \ {0}
ASSUME BoundsAssumption == MaxRetries \in Nat /\ MaxCrashes \in Nat
ASSUME EnvAssumption ==
    /\ UserRequests \subseteq {"approve", "reject", "cancel"}
    /\ Outcomes \subseteq {"completed", "failed", "stop"}
    /\ QuietStartup \in BOOLEAN

VARIABLES
    \* The database.
    runState,    \* workflow_runs.state, "absent" before the row exists
    stepState,   \* workflow_steps.state, "absent" before the rows exist
    \* The executor's memory.
    ctx,         \* _contexts[run_id]: "none", "live", or "empty" when its dag
                 \* was loaded before the steps' rows existed
    inFlight,    \* _RunContext.in_flight
    queued,      \* per step: tasks submitted to a pool and not started
    running,     \* per step: tasks whose step runner is executing
    execCalls,   \* threads about to enter execute_run
    schedCalls,  \* threads about to enter _schedule_ready
    \* The handler that holds the executor's lock.
    pc,          \* where it is; "idle" when the lock is free
    seen,        \* its local `states` snapshot
    todo,        \* the steps it has still to write
    \* The request that holds the ApprovalManager's lock.
    mgrOp,
    mgrTodo,     \* the step it decides, then the dependents it has to skip
    \* The process.
    starter,     \* start_run: "inserting" between its two inserts
    boot,        \* progress of resume_pending_runs
    retries, crashes

db == <<runState, stepState>>
tasks == <<queued, running>>
calls == <<execCalls, schedCalls>>
handler == <<pc, seen, todo>>
mgr == <<mgrOp, mgrTodo>>
proc == <<starter, boot, retries, crashes>>
vars == <<db, ctx, inFlight, tasks, calls, handler, mgr, proc>>

-----------------------------------------------------------------------------
\* RunState and StepState (orchestration_types.py).  The step state "ready" is
\* never written; the run state "budget_exceeded" belongs to the gateway, which
\* the production wiring does not give to the executor.
TerminalRunStates == {"completed", "failed", "cancelled", "rejected"}
RunStates == {"absent", "pending", "running", "awaiting_approval", "cancelling"}
                \cup TerminalRunStates

UnsuccessfulStates == {"failed", "cancelled", "skipped"}
TerminalStepStates == {"completed"} \cup UnsuccessfulStates
StepStates == {"absent", "pending", "running", "awaiting_approval"}
                \cup TerminalStepStates

InState(st, S) == {s \in Steps : st[s] \in S}
NonTerminal(st) == InState(st, {"pending", "running", "awaiting_approval"})
NoRows == [s \in Steps |-> "absent"]

AllTerminal(st) == NonTerminal(st) = {}

\* The pending steps the scheduler looks at: those of its context's dag.
Pending(st) == IF ctx = "empty" THEN {} ELSE InState(st, {"pending"})

\* Mutant of Blocked: the skip does not propagate beyond a failed step.
BlockedDirectly(st) ==
    {s \in Pending(st) : \E d \in DependsOn[s] : st[d] = "failed"}

\* Steps that _skip_blocked marks in its next pass.
Blocked(st) ==
    {s \in Pending(st) :
        \E d \in DependsOn[s] : st[d] \in UnsuccessfulStates}

\* Mutant of ReadySteps: a dependency need only have been started.
StartedSteps(st) ==
    {s \in Pending(st) :
        \A d \in DependsOn[s] : st[d] \in {"running", "completed"}}

\* _ready_steps: pending steps whose dependencies are all completed.
ReadySteps(st) ==
    {s \in Pending(st) :
        \A d \in DependsOn[s] : st[d] = "completed"}

\* The ready steps that _enter_ready_checkpoints hands to the ApprovalManager.
ReadyCheckpoints(st) == ReadySteps(st) \cap ApprovalSteps

\* _derive_outcome: only a failed step makes the run failed.
DeriveOutcome(st) ==
    IF InState(st, {"failed"}) /= {} THEN "failed" ELSE "completed"

\* Mutant of ErrorClosure: the dependents are forgotten.
FailedSteps(st) == InState(st, {"failed"})

\* The error closure of retry_run: failed steps and what depends on them.
ErrorClosure(st) ==
    LET failed == InState(st, {"failed"})
    IN failed \cup UNION {DependentsOf(DependsOn, s) : s \in failed}

LockFree == pc = "idle"
Live == ctx /= "none"

\* Users reach the HTTP shell as soon as it listens, which is before
\* resume_pending_runs; a quiet instance is one whose users happen to wait.
UserMayAct == QuietStartup => boot = "done"

Init ==
    /\ runState = "absent"
    /\ stepState = NoRows
    /\ ctx = "none"
    /\ inFlight = {}
    /\ queued = [s \in Steps |-> 0]
    /\ running = [s \in Steps |-> 0]
    /\ execCalls = 0
    /\ schedCalls = 0
    /\ pc = "idle"
    /\ seen = NoRows
    /\ todo = {}
    /\ mgrOp = "idle"
    /\ mgrTodo = {}
    /\ starter = "idle"
    /\ boot = "select"
    /\ retries = 0
    /\ crashes = 0

-----------------------------------------------------------------------------
(* Creating and executing a run.                                           *)

\* start_run, first write: the workflow_runs row.
StartRun ==
    /\ UserMayAct
    /\ runState = "absent"
    /\ runState' = "pending"
    /\ starter' = "inserting"
    /\ UNCHANGED <<stepState, ctx, inFlight, tasks, calls, handler, mgr, boot,
                   retries, crashes>>

\* start_run, second write: all workflow_steps rows in one executemany.
\* start_workflow_run then goes on to execute_run.
InsertSteps ==
    /\ starter = "inserting"
    /\ stepState' = [s \in Steps |-> "pending"]
    /\ starter' = "idle"
    /\ execCalls' = execCalls + 1
    /\ UNCHANGED <<runState, ctx, inFlight, tasks, schedCalls, handler, mgr,
                   boot, retries, crashes>>

\* The locked part of execute_run.  An unknown run raises ValueError, a terminal
\* one is left alone, one that is already executing raises RuntimeError;
\* otherwise the run gets a context and the caller, having released the lock,
\* goes on to _schedule_ready.
ClaimRun ==
    /\ LockFree
    /\ IF runState \in TerminalRunStates \cup {"absent"} \/ Live
         THEN UNCHANGED <<runState, ctx, inFlight, schedCalls>>
         ELSE /\ ctx' = IF stepState = NoRows THEN "empty" ELSE "live"
              /\ inFlight' = {}
              /\ runState' = "running"
              /\ schedCalls' = schedCalls + 1
    /\ UNCHANGED <<stepState, tasks, handler, mgr, starter, retries, crashes>>

ExecuteRun ==
    /\ execCalls > 0
    /\ execCalls' = execCalls - 1
    /\ ClaimRun
    /\ UNCHANGED boot

-----------------------------------------------------------------------------
(* _schedule_ready.  AfterSkip is the part from the "every step terminal"   *)
(* test on, applied to the snapshot st in hand.                             *)

AfterSkip(st) ==
    /\ seen' = st
    /\ \/ /\ AllTerminal(st)
          /\ pc' = "finish"
          /\ todo' = {}
       \/ /\ ~AllTerminal(st)
          /\ ReadyCheckpoints(st) /= {}
          /\ pc' = "checkpoint"
          /\ todo' = ReadyCheckpoints(st)
       \/ /\ ~AllTerminal(st)
          /\ ReadyCheckpoints(st) = {}
          /\ pc' = "dispatch"
          /\ todo' = ReadySteps(st)

\* Leaving the lock: the handler's local state is gone.
Release ==
    /\ pc' = "idle"
    /\ seen' = NoRows
    /\ todo' = {}

\* _contexts.pop: in_flight goes with the context.
DropContext == ctx' = "none" /\ inFlight' = {}

ScheduleReady ==
    /\ LockFree
    /\ schedCalls > 0
    /\ schedCalls' = schedCalls - 1
    /\ IF ~Live THEN UNCHANGED handler
       ELSE IF Blocked(stepState) = {} THEN AfterSkip(stepState)
       ELSE pc' = "skip" /\ seen' = stepState /\ todo' = {}
    /\ UNCHANGED <<db, ctx, inFlight, tasks, execCalls, mgr, proc>>

\* _skip_blocked: one write, also recorded in the local snapshot.
SkipBlocked(s) ==
    /\ pc = "skip"
    /\ s \in Blocked(seen)
    /\ stepState' = [stepState EXCEPT ![s] = "skipped"]
    /\ seen' = [seen EXCEPT ![s] = "skipped"]
    /\ UNCHANGED <<runState, ctx, inFlight, tasks, calls, pc, todo, mgr, proc>>

\* The fixpoint is reached: states are read again.
SkipBlockedDone ==
    /\ pc = "skip"
    /\ Blocked(seen) = {}
    /\ AfterSkip(stepState)
    /\ UNCHANGED <<db, ctx, inFlight, tasks, calls, mgr, proc>>

Finish ==
    /\ pc = "finish"
    /\ runState' = DeriveOutcome(seen)
    /\ DropContext
    /\ Release
    /\ UNCHANGED <<stepState, tasks, calls, mgr, proc>>

\* enter_checkpoint, first write: the step.  It waits for the manager's lock.
EnterCheckpoint(s) ==
    /\ pc = "checkpoint"
    /\ mgrOp = "idle"
    /\ s \in todo
    /\ stepState' = [stepState EXCEPT ![s] = "awaiting_approval"]
    /\ todo' = todo \ {s}
    /\ pc' = "park"
    /\ UNCHANGED <<runState, ctx, inFlight, tasks, calls, seen, mgr, proc>>

\* Mutant of ParkRun: the run's row is not written.
ParkStepOnly ==
    /\ pc = "park"
    /\ pc' = "checkpoint"
    /\ UNCHANGED <<db, ctx, inFlight, tasks, calls, seen, todo, mgr, proc>>

\* enter_checkpoint, second write: the run.
ParkRun ==
    /\ pc = "park"
    /\ runState' = "awaiting_approval"
    /\ pc' = "checkpoint"
    /\ UNCHANGED <<stepState, ctx, inFlight, tasks, calls, seen, todo, mgr, proc>>

\* A checkpoint was entered: states are read again before dispatching.
CheckpointsDone ==
    /\ pc = "checkpoint"
    /\ todo = {}
    /\ pc' = "dispatch"
    /\ seen' = stepState
    /\ todo' = ReadySteps(stepState)
    /\ UNCHANGED <<db, ctx, inFlight, tasks, calls, mgr, proc>>

\* Mutant of Available: `available` is not decremented.
AvailableAtEntry == ConcurrencyLimit - Cardinality(InState(seen, {"running"}))

\* The dispatch loop's `available`: the limit minus the steps the snapshot
\* shows occupied minus those dispatched since.
Available ==
    ConcurrencyLimit - Cardinality(InState(seen, {"running"}))
                     - Cardinality(ReadySteps(seen) \ todo)

Dispatch(s) ==
    /\ pc = "dispatch"
    /\ s \in todo
    /\ Available > 0
    /\ stepState' = [stepState EXCEPT ![s] = "running"]
    /\ inFlight' = inFlight \cup {s}
    /\ queued' = [queued EXCEPT ![s] = @ + 1]
    /\ todo' = todo \ {s}
    /\ UNCHANGED <<runState, ctx, running, calls, pc, seen, mgr, proc>>

\* Mutant of MustPause: the run pauses under its in-flight steps.
PauseAtOnce == InState(seen, {"awaiting_approval"}) /= {}

\* Nothing is in flight and the snapshot shows a checkpoint awaiting a decision.
MustPause == inFlight = {} /\ InState(seen, {"awaiting_approval"}) /= {}

\* The end of _schedule_ready, with _pause_for_approval: the context is dropped
\* and the run row is left as it is.
DispatchDone ==
    /\ pc = "dispatch"
    /\ todo = {} \/ Available <= 0
    /\ IF MustPause
         THEN DropContext
         ELSE UNCHANGED <<ctx, inFlight>>
    /\ Release
    /\ UNCHANGED <<db, tasks, calls, mgr, proc>>

-----------------------------------------------------------------------------
(* Worker threads.  A task knows its run id and step id, not the context it *)
(* was submitted under: it finds whatever context is there when it looks.   *)

\* _execute_step up to the call of the runner.  The pool's own bound on threads,
\* which is ConcurrencyLimit again, is not modelled: it could only delay a task.
StartStep(s) ==
    /\ queued[s] > 0
    /\ queued' = [queued EXCEPT ![s] = @ - 1]
    /\ running' = IF Live THEN [running EXCEPT ![s] = @ + 1] ELSE running
    /\ UNCHANGED <<db, ctx, inFlight, calls, handler, mgr, proc>>

\* The test both _on_step_complete and _abort_run begin with.  A context is
\* never seen finished here: it is marked and popped under one lock.
ReportAccepted == Live

\* The runner returned or raised: _on_step_complete.
CompleteStep(s, result) ==
    /\ LockFree
    /\ running[s] > 0
    /\ running' = [running EXCEPT ![s] = @ - 1]
    /\ IF ReportAccepted
         THEN /\ stepState' = [stepState EXCEPT ![s] = result]
              /\ inFlight' = inFlight \ {s}
              /\ schedCalls' = schedCalls + 1
         ELSE UNCHANGED <<stepState, inFlight, schedCalls>>
    /\ UNCHANGED <<runState, ctx, queued, execCalls, handler, mgr, proc>>

\* The runner raised _StopRun: _abort_run up to its reading of the states.
AbortRun(s) ==
    /\ LockFree
    /\ running[s] > 0
    /\ running' = [running EXCEPT ![s] = @ - 1]
    /\ IF ReportAccepted
         THEN /\ stepState' = [stepState EXCEPT ![s] = "failed"]
              /\ inFlight' = inFlight \ {s}
              /\ pc' = "abort"
              /\ todo' = NonTerminal(stepState')
         ELSE UNCHANGED <<stepState, inFlight, pc, todo>>
    /\ UNCHANGED <<runState, ctx, queued, calls, seen, mgr, proc>>

AbortSkip(s) ==
    /\ pc = "abort"
    /\ s \in todo
    /\ stepState' = [stepState EXCEPT ![s] = "skipped"]
    /\ todo' = todo \ {s}
    /\ UNCHANGED <<runState, ctx, inFlight, tasks, calls, pc, seen, mgr, proc>>

AbortDone ==
    /\ pc = "abort"
    /\ todo = {}
    /\ runState' = "failed"
    /\ DropContext
    /\ Release
    /\ UNCHANGED <<stepState, tasks, calls, mgr, proc>>

-----------------------------------------------------------------------------
(* cancel_run and retry_run.  The teardown of kernel workloads changes no   *)
(* state of the run and its errors are swallowed.                           *)

CancelRun ==
    /\ "cancel" \in UserRequests
    /\ UserMayAct
    /\ LockFree
    /\ runState \notin TerminalRunStates \cup {"absent"}
    /\ runState' = "cancelling"
    /\ pc' = "cancel"
    /\ todo' = NonTerminal(stepState)
    /\ UNCHANGED <<stepState, ctx, inFlight, tasks, calls, seen, mgr, proc>>

CancelStep(s) ==
    /\ pc = "cancel"
    /\ s \in todo
    /\ stepState' = [stepState EXCEPT ![s] = "cancelled"]
    /\ todo' = todo \ {s}
    /\ UNCHANGED <<runState, ctx, inFlight, tasks, calls, pc, seen, mgr, proc>>

CancelDone ==
    /\ pc = "cancel"
    /\ todo = {}
    /\ runState' = "cancelled"
    /\ DropContext
    /\ Release
    /\ UNCHANGED <<stepState, tasks, calls, mgr, proc>>

\* Only a failed run that is not executing may be retried.
Retryable == runState = "failed" /\ ~Live

RetryRun ==
    /\ retries < MaxRetries
    /\ retries' = retries + 1
    /\ UserMayAct
    /\ LockFree
    /\ Retryable
    /\ pc' = "retry"
    /\ todo' = ErrorClosure(stepState)
    /\ UNCHANGED <<db, ctx, inFlight, tasks, calls, seen, mgr, starter, boot,
                   crashes>>

RetryReset(s) ==
    /\ pc = "retry"
    /\ s \in todo
    /\ stepState' = [stepState EXCEPT ![s] = "pending"]
    /\ todo' = todo \ {s}
    /\ UNCHANGED <<runState, ctx, inFlight, tasks, calls, pc, seen, mgr, proc>>

RetryDone ==
    /\ pc = "retry"
    /\ todo = {}
    /\ runState' = "pending"
    /\ execCalls' = execCalls + 1
    /\ Release
    /\ UNCHANGED <<stepState, ctx, inFlight, tasks, schedCalls, mgr, proc>>

-----------------------------------------------------------------------------
(* ApprovalManager.approve and reject.  The manager's lock excludes a       *)
(* checkpoint being entered (pc = "park") but no other executor step.       *)

ManagerLockFree == mgrOp = "idle" /\ pc /= "park"

\* Mutant of IsAwaiting: a decided checkpoint may be decided again.
IsAwaitingOrDecided(s) == stepState[s] \in {"awaiting_approval", "completed"}

\* What _require_awaiting looks at: the step's row, not the run's.
IsAwaiting(s) == stepState[s] = "awaiting_approval"

\* The beginning of approve and reject, up to _require_awaiting.
RequireAwaiting(request, s) ==
    /\ request \in UserRequests
    /\ UserMayAct
    /\ ManagerLockFree
    /\ IsAwaiting(s)
    /\ mgrOp' = request
    /\ mgrTodo' = {s}
    /\ UNCHANGED <<db, ctx, inFlight, tasks, calls, handler, proc>>

\* approve: the step is completed, the lock released, the run re-driven.
ApproveStep(s) ==
    /\ mgrOp = "approve"
    /\ s \in mgrTodo
    /\ stepState' = [stepState EXCEPT ![s] = "completed"]
    /\ mgrOp' = "idle"
    /\ mgrTodo' = {}
    /\ execCalls' = execCalls + 1
    /\ UNCHANGED <<runState, ctx, inFlight, tasks, schedCalls, handler, proc>>

\* reject, first write, and the reading of the states that follows it.
RejectStep(s) ==
    /\ mgrOp = "reject"
    /\ s \in mgrTodo
    /\ stepState' = [stepState EXCEPT ![s] = "cancelled"]
    /\ mgrOp' = "dependents"
    /\ mgrTodo' = DependentsOf(DependsOn, s) \cap NonTerminal(stepState')
    /\ UNCHANGED <<runState, ctx, inFlight, tasks, calls, handler, proc>>

RejectDependent(s) ==
    /\ mgrOp = "dependents"
    /\ s \in mgrTodo
    /\ stepState' = [stepState EXCEPT ![s] = "skipped"]
    /\ mgrTodo' = mgrTodo \ {s}
    /\ UNCHANGED <<runState, ctx, inFlight, tasks, calls, handler, mgrOp, proc>>

RejectRun ==
    /\ mgrOp = "dependents"
    /\ mgrTodo = {}
    /\ runState' = "rejected"
    /\ mgrOp' = "idle"
    /\ UNCHANGED <<stepState, ctx, inFlight, tasks, calls, handler, mgrTodo, proc>>

-----------------------------------------------------------------------------
(* Process death and resume_pending_runs.                                   *)

Crash ==
    /\ crashes < MaxCrashes
    /\ crashes' = crashes + 1
    /\ DropContext
    /\ queued' = [s \in Steps |-> 0]
    /\ running' = [s \in Steps |-> 0]
    /\ execCalls' = 0
    /\ schedCalls' = 0
    /\ Release
    /\ mgrOp' = "idle"
    /\ mgrTodo' = {}
    /\ starter' = "idle"
    /\ boot' = "select"
    /\ UNCHANGED <<db, retries>>

\* The SELECT.  A run in awaiting_approval is left to the ApprovalManager; a
\* run in any other state than these three is not found.
ResumeSelect ==
    /\ boot = "select"
    /\ boot' = IF runState \in {"pending", "running"} THEN "reset" ELSE "done"
    /\ UNCHANGED <<db, ctx, inFlight, tasks, calls, handler, mgr, starter,
                   retries, crashes>>

\* Mutant of ResetInflight: orphaned steps are left running.
ResetNothing(st) == st

\* The UPDATE of _reset_inflight_steps.
ResetInflight(st) ==
    [s \in Steps |-> IF st[s] = "running" THEN "pending" ELSE st[s]]

\* _reset_inflight_steps: one UPDATE, made without the executor's lock.
ResumeReset ==
    /\ boot = "reset"
    /\ stepState' = ResetInflight(stepState)
    /\ boot' = "execute"
    /\ UNCHANGED <<runState, ctx, inFlight, tasks, calls, handler, mgr, starter,
                   retries, crashes>>

ResumeExecute ==
    /\ boot = "execute"
    /\ boot' = "done"
    /\ ClaimRun
    /\ UNCHANGED execCalls

-----------------------------------------------------------------------------
\* No thread of the process will touch the run again unless a user asks.
Quiescent ==
    /\ LockFree
    /\ mgrOp = "idle"
    /\ execCalls = 0 /\ schedCalls = 0
    /\ \A s \in Steps : queued[s] = 0 /\ running[s] = 0
    /\ starter = "idle"
    /\ boot = "done"

\* A process with nothing left to do waits for requests.
Wait == Quiescent /\ UNCHANGED vars

Worker(s) ==
    \/ StartStep(s)
    \/ \E result \in Outcomes \ {"stop"} : CompleteStep(s, result)
    \/ "stop" \in Outcomes /\ AbortRun(s)

Scheduler ==
    \/ InsertSteps
    \/ ExecuteRun
    \/ ScheduleReady
    \/ \E s \in Steps : SkipBlocked(s)
    \/ SkipBlockedDone
    \/ Finish
    \/ \E s \in Steps : EnterCheckpoint(s)
    \/ ParkRun
    \/ CheckpointsDone
    \/ \E s \in Steps : Dispatch(s)
    \/ DispatchDone
    \/ \E s \in Steps : AbortSkip(s)
    \/ AbortDone
    \/ \E s \in Steps : CancelStep(s)
    \/ CancelDone
    \/ \E s \in Steps : RetryReset(s)
    \/ RetryDone

Manager ==
    \/ \E s \in Steps : ApproveStep(s) \/ RejectStep(s) \/ RejectDependent(s)
    \/ RejectRun

Startup == ResumeSelect \/ ResumeReset \/ ResumeExecute

User ==
    \/ StartRun
    \/ CancelRun
    \/ RetryRun
    \/ \E s \in Steps, request \in {"approve", "reject"} :
            RequireAwaiting(request, s)

Next ==
    \/ \E s \in Steps : Worker(s)
    \/ Scheduler
    \/ Manager
    \/ Startup
    \/ User
    \/ Crash
    \/ Wait

Spec == Init /\ [][Next]_vars

(***************************************************************************)
(* Every thread of the process keeps running: a runner ends (an agent step  *)
(* polls its invocation for at most agent_poll_timeout seconds), a handler  *)
(* that holds a lock goes on, the locks are granted.  Users owe nothing.    *)
(***************************************************************************)
FairSpec ==
    /\ Spec
    /\ \A s \in Steps : WF_vars(Worker(s))
    /\ WF_vars(Scheduler)
    /\ WF_vars(Manager)
    /\ WF_vars(Startup)

-----------------------------------------------------------------------------
(* Properties.                                                              *)

\* Every variable has its type; pc and mgrOp name a point of a handler.
TypeOK ==
    /\ runState \in RunStates
    /\ stepState \in [Steps -> StepStates]
    /\ ctx \in {"none", "live", "empty"}
    /\ inFlight \subseteq Steps
    /\ queued \in [Steps -> Nat]
    /\ running \in [Steps -> Nat]
    /\ execCalls \in Nat
    /\ schedCalls \in Nat
    /\ pc \in {"idle", "skip", "finish", "checkpoint", "park", "dispatch",
               "abort", "cancel", "retry"}
    /\ seen \in [Steps -> StepStates]
    /\ todo \subseteq Steps
    /\ mgrOp \in {"idle", "approve", "reject", "dependents"}
    /\ mgrTodo \subseteq Steps
    /\ starter \in {"idle", "inserting"}
    /\ boot \in {"select", "reset", "execute", "done"}
    /\ retries \in Nat
    /\ crashes \in Nat

\* The rows of a run never show more running steps than its concurrency limit,
\* whatever requests, crashes and startup recovery interleave with the
\* scheduler (_schedule_ready counts rows, not threads).
RowsWithinLimit ==
    Cardinality(InState(stepState, {"running"})) <= ConcurrencyLimit

\* What RowsWithinLimit needs to be inductive: while _schedule_ready dispatches,
\* the rows that say running are those of its snapshot and those it dispatched
\* since, and these two together stay within the limit.
DispatchAccounting ==
    pc = "dispatch" =>
        LET dispatched == ReadySteps(seen) \ todo
            occupied == InState(seen, {"running"})
        IN  /\ todo \subseteq ReadySteps(seen)
            /\ InState(stepState, {"running"}) \subseteq occupied \cup dispatched
            /\ Cardinality(occupied) + Cardinality(dispatched) <= ConcurrencyLimit

\* No more step runners execute than the limit allows, and no step has two
\* (the promise of _schedule_ready, made about threads).
RunnersWithinLimit ==
    /\ \A s \in Steps : running[s] <= 1
    /\ Cardinality({s \in Steps : running[s] > 0}) <= ConcurrencyLimit

\* A run with a live context is executing, parked or being cancelled; the only
\* decision that can overtake it is a rejection, which takes no executor lock.
LiveRunUndecided ==
    Live => runState \in {"running", "awaiting_approval", "cancelling", "rejected"}

\* What LiveRunUndecided needs to be inductive: _schedule_ready and _abort_run
\* work on a registered context, retry_run reopens a run that has none.
HandlerOwnsContext ==
    /\ pc \in {"skip", "finish", "checkpoint", "park", "dispatch", "abort"} => Live
    /\ pc = "retry" => ~Live

\* The inductive invariant of the executor: what holds of rows, context and
\* handler under every interleaving of requests, workers, crashes and recovery.
ExecutorInvariant ==
    /\ TypeOK
    /\ RowsWithinLimit
    /\ DispatchAccounting
    /\ LiveRunUndecided
    /\ HandlerOwnsContext

\* A step is running, parked or completed only if all its dependencies are
\* completed (_ready_steps decides on a snapshot that others may outdate).
DependencyOrder ==
    \A s \in InState(stepState, {"running", "awaiting_approval", "completed"}) :
        \A d \in DependsOn[s] : stepState[d] = "completed"

\* A step of type approval never reaches the worker pool.
ApprovalsNeverRun ==
    \A s \in ApprovalSteps : queued[s] = 0 /\ running[s] = 0

\* Between handlers, the context's in_flight set and the running rows agree:
\* the pause test reads the one and the concurrency test the other.
InFlightMatchesRows ==
    Live /\ LockFree => inFlight = InState(stepState, {"running"})

\* A run in which nobody is at work has been decided or waits for a decision
\* that somebody can still make.
NeverStranded ==
    Quiescent =>
        \/ runState \in TerminalRunStates \cup {"absent"}
        \/ /\ runState = "awaiting_approval"
           /\ InState(stepState, {"awaiting_approval"}) /= {}

\* A run at rest in awaiting_approval has a checkpoint somebody can decide: it
\* is the only way such a run is ever resumed.
ParkedRunHasDecision ==
    Quiescent /\ runState = "awaiting_approval" =>
        InState(stepState, {"awaiting_approval"}) /= {}

\* A rejected checkpoint's dependents, direct or not, neither run nor have run.
RejectionHolds ==
    \A s \in ApprovalSteps : stepState[s] = "cancelled" =>
        \A t \in DependentsOf(DependsOn, s) :
            running[t] = 0 /\ stepState[t] \in {"pending", "skipped", "cancelled"}

\* When _pause_for_approval drops the context, the run's row already says
\* awaiting_approval.
PausedRunIsParked ==
    [][(pc = "dispatch" /\ Live /\ ~Live' /\ crashes' = crashes)
          => runState = "awaiting_approval"]_vars

\* Startup recovery reschedules a step only when no worker has it: a step left
\* running by a dead process (resume_pending_runs, _reset_inflight_steps).
OnlyOrphansReset ==
    [][\A s \in Steps :
          stepState[s] = "running" /\ stepState'[s] = "pending"
            => queued[s] = 0 /\ running[s] = 0]_vars

\* A terminal step state changes only when retry_run resets the step.
StepDecisionsStand ==
    [][\A s \in Steps :
          stepState[s] \in TerminalStepStates /\ stepState'[s] /= stepState[s]
            => pc = "retry" /\ stepState'[s] = "pending"]_vars

\* A terminal run state changes only when retry_run reopens a failed run.
RunDecisionsStand ==
    [][(runState \in TerminalRunStates /\ runState' /= runState)
          => (runState = "failed" /\ runState' = "pending")]_vars

\* The state of the run as RunLifecycle knows it: retry_run resets the steps of
\* a run whose row still says failed.
LifecycleState ==
    IF pc = "retry" THEN "reopening"
    ELSE IF runState \in {"pending", "running"} THEN "open" ELSE runState

Lifecycle == INSTANCE RunLifecycle
                WITH run <- LifecycleState, step <- stepState, Limit <- ConcurrencyLimit

\* The rows of a run live the life that RunLifecycle promises, whatever workers
\* report late and whenever a user cancels or retries: decisions stand, a run
\* is decided after its steps, a completed run executed all of them in order,
\* and only a retry takes a failed run up again (DagExecutor as a whole).
ImplementsLifecycle == Lifecycle!Spec

\* A run that has been started is eventually decided or parked.
EventuallySettles ==
    runState \in {"pending", "running", "cancelling"}
        ~> runState \in TerminalRunStates \cup {"awaiting_approval"}
=============================================================================
