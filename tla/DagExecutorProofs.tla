------------------------- MODULE DagExecutorProofs -------------------------
(***************************************************************************)
(* Theorems about DagExecutor for every workflow graph, every concurrency   *)
(* limit, every choice of requests, outcomes and bounds.                    *)
(***************************************************************************)
EXTENDS DagExecutor, DagLemmas, FiniteSetTheorems

\* The error closure of a failed run and the dependents of a rejected
\* checkpoint are steps of the run (dependents_of, _transitive_dependents).
LEMMA ClosuresAreSteps ==
    /\ \A s : DependentsOf(DependsOn, s) \subseteq Steps
    /\ \A st : ErrorClosure(st) \subseteq Steps
  <1>1. DOMAIN DependsOn = Steps
    BY GraphAssumption DEF Graphs
  <1>2. \A s : DependentsOf(DependsOn, s) \subseteq Steps
    BY <1>1, DependentsClosed
  <1>3. \A st : ErrorClosure(st) \subseteq Steps
    BY <1>2 DEF ErrorClosure, InState
  <1>4. QED
    BY <1>2, <1>3

-----------------------------------------------------------------------------
\* The boot state of the control plane, before any request, is well-formed.
LEMMA InitTypeOK == Init => TypeOK
  BY DEF Init, TypeOK, RunStates, StepStates, NoRows

\* Every action of the executor, the manager, the workers, the users and the
\* process keeps the variables in their types.
LEMMA NextTypeOK == TypeOK /\ [Next]_vars => TypeOK'
  <1> SUFFICES ASSUME TypeOK, [Next]_vars PROVE TypeOK'
    OBVIOUS
  <1> USE DEF TypeOK, RunStates, StepStates, TerminalRunStates,
              TerminalStepStates, UnsuccessfulStates,
              db, tasks, calls, handler, mgr, proc
  <1>1. CASE StartRun
    BY <1>1 DEF StartRun
  <1>2. CASE InsertSteps
    BY <1>2 DEF InsertSteps
  <1>3. CASE ExecuteRun
    BY <1>3 DEF ExecuteRun, ClaimRun, Live
  <1>4. CASE ScheduleReady
    BY <1>4 DEF ScheduleReady, AfterSkip, ReadySteps, Pending, ReadyCheckpoints, InState, Live
  <1>5. CASE SkipBlockedDone
    BY <1>5 DEF SkipBlockedDone, AfterSkip, ReadySteps, Pending, ReadyCheckpoints, InState
  <1>6. CASE Finish
    BY <1>6 DEF Finish, DeriveOutcome, DropContext, Release, NoRows
  <1>7. CASE ParkRun
    BY <1>7 DEF ParkRun
  <1>8. CASE CheckpointsDone
    BY <1>8 DEF CheckpointsDone, ReadySteps, Pending, InState
  <1>9. CASE DispatchDone
    BY <1>9 DEF DispatchDone, DropContext, Release, NoRows
  <1>10. CASE AbortDone
    BY <1>10 DEF AbortDone, DropContext, Release, NoRows
  <1>11. CASE CancelRun
    BY <1>11 DEF CancelRun, NonTerminal, InState
  <1>12. CASE CancelDone
    BY <1>12 DEF CancelDone, DropContext, Release, NoRows
  <1>13. CASE RetryRun
    BY <1>13, ClosuresAreSteps DEF RetryRun
  <1>14. CASE RetryDone
    BY <1>14 DEF RetryDone, Release, NoRows
  <1>15. CASE RejectRun
    BY <1>15 DEF RejectRun
  <1>16. CASE Crash
    BY <1>16 DEF Crash, DropContext, Release, NoRows
  <1>17. CASE ResumeSelect
    BY <1>17 DEF ResumeSelect
  <1>18. CASE ResumeReset
    BY <1>18 DEF ResumeReset, ResetInflight
  <1>19. CASE ResumeExecute
    BY <1>19 DEF ResumeExecute, ClaimRun, Live
  <1>20. ASSUME NEW s \in Steps, SkipBlocked(s) PROVE TypeOK'
    BY <1>20 DEF SkipBlocked
  <1>21. ASSUME NEW s \in Steps, EnterCheckpoint(s) PROVE TypeOK'
    BY <1>21 DEF EnterCheckpoint
  <1>22. ASSUME NEW s \in Steps, Dispatch(s) PROVE TypeOK'
    BY <1>22 DEF Dispatch
  <1>23. ASSUME NEW s \in Steps, StartStep(s) PROVE TypeOK'
    BY <1>23 DEF StartStep, Live
  <1>24. ASSUME NEW s \in Steps, AbortRun(s) PROVE TypeOK'
    BY <1>24 DEF AbortRun, ReportAccepted, NonTerminal, InState
  <1>25. ASSUME NEW s \in Steps, AbortSkip(s) PROVE TypeOK'
    BY <1>25 DEF AbortSkip
  <1>26. ASSUME NEW s \in Steps, CancelStep(s) PROVE TypeOK'
    BY <1>26 DEF CancelStep
  <1>27. ASSUME NEW s \in Steps, RetryReset(s) PROVE TypeOK'
    BY <1>27 DEF RetryReset
  <1>28. ASSUME NEW s \in Steps, ApproveStep(s) PROVE TypeOK'
    BY <1>28 DEF ApproveStep
  <1>29. ASSUME NEW s \in Steps, RejectStep(s) PROVE TypeOK'
    BY <1>29, ClosuresAreSteps DEF RejectStep, NonTerminal, InState
  <1>30. ASSUME NEW s \in Steps, RejectDependent(s) PROVE TypeOK'
    BY <1>30 DEF RejectDependent
  <1>31. ASSUME NEW s \in Steps, NEW result \in Outcomes \ {"stop"}, CompleteStep(s, result)
         PROVE  TypeOK'
    BY <1>31, EnvAssumption DEF CompleteStep, ReportAccepted
  <1>32. ASSUME NEW s \in Steps, NEW request \in {"approve", "reject"}, RequireAwaiting(request, s)
         PROVE  TypeOK'
    BY <1>32 DEF RequireAwaiting
  <1>33. CASE UNCHANGED vars
    BY <1>33 DEF vars
  <1>34. QED
    BY
       <1>1, <1>2, <1>3, <1>4, <1>5, <1>6, <1>7, <1>8, <1>9, <1>10, <1>11,
       <1>12, <1>13, <1>14, <1>15, <1>16, <1>17, <1>18, <1>19, <1>20, <1>21,
       <1>22, <1>23, <1>24, <1>25, <1>26, <1>27, <1>28, <1>29, <1>30, <1>31,
       <1>32, <1>33
    DEF Next, Worker, Scheduler, Manager, Startup, User, Wait

-----------------------------------------------------------------------------
\* The rows that say running, and what a step may do about them: only Dispatch
\* adds one, and the dispatch loop is entered with a fresh snapshot.
RunningRows == InState(stepState, {"running"})

NoNewRunning ==
    /\ RunningRows' \subseteq RunningRows
    /\ pc' = "dispatch" => 
          pc = "dispatch" /\ seen' = seen /\ todo' = todo /\ ctx' = ctx

EntersDispatch ==
    /\ stepState' = stepState
    /\ pc' = "dispatch"
    /\ seen' = stepState
    /\ todo' = ReadySteps(stepState)
    /\ ctx' = ctx

\* Every step dispatches one step, enters the dispatch loop with what it has
\* just read, or makes no row running.
LEMMA EffectOnRows ==
    TypeOK /\ [Next]_vars =>
        \/ \E s \in Steps : Dispatch(s)
        \/ EntersDispatch
        \/ NoNewRunning
  <1> SUFFICES ASSUME TypeOK, [Next]_vars, ~\E s \in Steps : Dispatch(s)
               PROVE  EntersDispatch \/ NoNewRunning
    OBVIOUS
  <1> USE DEF NoNewRunning, RunningRows, InState, TypeOK, LockFree,
              db, handler, proc
  <1>1. CASE StartRun
    BY <1>1 DEF StartRun
  <1>2. CASE InsertSteps
    BY <1>2 DEF InsertSteps
  <1>3. CASE ExecuteRun
    BY <1>3 DEF ExecuteRun, ClaimRun
  <1>4. CASE ScheduleReady
    BY <1>4 DEF ScheduleReady, AfterSkip, EntersDispatch
  <1>5. CASE SkipBlockedDone
    BY <1>5 DEF SkipBlockedDone, AfterSkip, EntersDispatch
  <1>6. CASE Finish
    BY <1>6 DEF Finish, Release
  <1>7. CASE ParkRun
    BY <1>7 DEF ParkRun
  <1>8. CASE CheckpointsDone
    BY <1>8 DEF CheckpointsDone, EntersDispatch
  <1>9. CASE DispatchDone
    BY <1>9 DEF DispatchDone, Release
  <1>10. CASE AbortDone
    BY <1>10 DEF AbortDone, Release
  <1>11. CASE CancelRun
    BY <1>11 DEF CancelRun
  <1>12. CASE CancelDone
    BY <1>12 DEF CancelDone, Release
  <1>13. CASE RetryRun
    BY <1>13 DEF RetryRun
  <1>14. CASE RetryDone
    BY <1>14 DEF RetryDone, Release
  <1>15. CASE RejectRun
    BY <1>15 DEF RejectRun
  <1>16. CASE Crash
    BY <1>16 DEF Crash, Release
  <1>17. CASE ResumeSelect
    BY <1>17 DEF ResumeSelect
  <1>18. CASE ResumeReset
    BY <1>18 DEF ResumeReset, ResetInflight
  <1>19. CASE ResumeExecute
    BY <1>19 DEF ResumeExecute, ClaimRun
  <1>20. ASSUME NEW s \in Steps, SkipBlocked(s) PROVE NoNewRunning
    BY <1>20 DEF SkipBlocked
  <1>21. ASSUME NEW s \in Steps, EnterCheckpoint(s) PROVE NoNewRunning
    BY <1>21 DEF EnterCheckpoint
  <1>22. ASSUME NEW s \in Steps, StartStep(s) PROVE NoNewRunning
    BY <1>22 DEF StartStep
  <1>23. ASSUME NEW s \in Steps, AbortRun(s) PROVE NoNewRunning
    BY <1>23 DEF AbortRun, ReportAccepted
  <1>24. ASSUME NEW s \in Steps, AbortSkip(s) PROVE NoNewRunning
    BY <1>24 DEF AbortSkip
  <1>25. ASSUME NEW s \in Steps, CancelStep(s) PROVE NoNewRunning
    BY <1>25 DEF CancelStep
  <1>26. ASSUME NEW s \in Steps, RetryReset(s) PROVE NoNewRunning
    BY <1>26 DEF RetryReset
  <1>27. ASSUME NEW s \in Steps, ApproveStep(s) PROVE NoNewRunning
    BY <1>27 DEF ApproveStep
  <1>28. ASSUME NEW s \in Steps, RejectStep(s) PROVE NoNewRunning
    BY <1>28 DEF RejectStep
  <1>29. ASSUME NEW s \in Steps, RejectDependent(s) PROVE NoNewRunning
    BY <1>29 DEF RejectDependent
  <1>30. ASSUME NEW s \in Steps, NEW result \in Outcomes \ {"stop"}, CompleteStep(s, result)
         PROVE  NoNewRunning
    BY <1>30, EnvAssumption DEF CompleteStep
  <1>31. ASSUME NEW s \in Steps, NEW request \in {"approve", "reject"}, RequireAwaiting(request, s)
         PROVE  NoNewRunning
    BY <1>31 DEF RequireAwaiting
  <1>32. CASE UNCHANGED vars
    BY <1>32 DEF vars
  <1>33. QED
    BY
       <1>1, <1>2, <1>3, <1>4, <1>5, <1>6, <1>7, <1>8, <1>9, <1>10, <1>11,
       <1>12, <1>13, <1>14, <1>15, <1>16, <1>17, <1>18, <1>19, <1>20, <1>21,
       <1>22, <1>23, <1>24, <1>25, <1>26, <1>27, <1>28, <1>29, <1>30, <1>31,
       <1>32
    DEF Next, Worker, Scheduler, Manager, Startup, User, Wait

\* A set of steps is finite, so its cardinality is a number.
LEMMA StepSetsFinite ==
    ASSUME NEW S \in SUBSET Steps
    PROVE  IsFiniteSet(S) /\ Cardinality(S) \in Nat
  BY StepsAssumption, FS_Subset, FS_CardinalityType

\* The accounting bounds the running rows: a union is no larger than the sum.
LEMMA AccountingBoundsRows ==
    ASSUME NEW A \in SUBSET Steps, NEW B \in SUBSET Steps, NEW R \in SUBSET Steps,
           R \subseteq A \cup B,
           Cardinality(A) + Cardinality(B) <= ConcurrencyLimit
    PROVE  Cardinality(R) <= ConcurrencyLimit
  <1>1. /\ IsFiniteSet(A) /\ IsFiniteSet(B)
        /\ Cardinality(A) \in Nat /\ Cardinality(B) \in Nat
        /\ Cardinality(R) \in Nat
    BY StepSetsFinite
  <1>2. A \cup B \in SUBSET Steps /\ A \cap B \in SUBSET Steps
    OBVIOUS
  <1>3. /\ IsFiniteSet(A \cup B) /\ Cardinality(A \cup B) \in Nat
        /\ Cardinality(A \cap B) \in Nat
    BY <1>2, StepSetsFinite
  <1>4. Cardinality(A \cup B) = Cardinality(A) + Cardinality(B) - Cardinality(A \cap B)
    BY <1>1, FS_Union
  <1>5. Cardinality(R) <= Cardinality(A \cup B)
    BY <1>3, FS_Subset
  <1>6. QED
    BY <1>1, <1>3, <1>4, <1>5, LimitAssumption

\* Dispatching, entering the dispatch loop and every other step keep the
\* running rows accounted for and within the limit (_schedule_ready).
LEMMA NextWithinLimit ==
    TypeOK /\ RowsWithinLimit /\ DispatchAccounting /\ [Next]_vars
        => (RowsWithinLimit /\ DispatchAccounting)'
  <1> SUFFICES ASSUME TypeOK, RowsWithinLimit, DispatchAccounting, [Next]_vars
               PROVE  (RowsWithinLimit /\ DispatchAccounting)'
    OBVIOUS
  <1> DEFINE Occupied(st) == InState(st, {"running"})
  <1>0. /\ \A st, S : InState(st, S) \in SUBSET Steps
        /\ \A st : ReadySteps(st) \in SUBSET Steps
    BY DEF InState, ReadySteps, Pending
  <1>1. ASSUME NEW s \in Steps, Dispatch(s)
        PROVE  (RowsWithinLimit /\ DispatchAccounting)'
    <2> DEFINE A == Occupied(seen)
               B == ReadySteps(seen) \ todo
    <2>1. /\ pc = "dispatch" /\ pc' = "dispatch" /\ seen' = seen
          /\ s \in todo /\ todo' = todo \ {s}
          /\ ConcurrencyLimit - Cardinality(A) - Cardinality(B) > 0
          /\ stepState' = [stepState EXCEPT ![s] = "running"]
          /\ ctx' = ctx
      BY <1>1 DEF Dispatch, Available
    <2>2. /\ todo \subseteq ReadySteps(seen)
          /\ Occupied(stepState) \subseteq A \cup B
      BY <2>1 DEF DispatchAccounting
    <2>3. ReadySteps(seen) \ todo' = B \cup {s} /\ s \notin B
      BY <2>1, <2>2
    <2>4. Occupied(stepState') \subseteq A \cup (B \cup {s})
      BY <2>1, <2>2 DEF InState, TypeOK
    <2>5. A \in SUBSET Steps /\ B \in SUBSET Steps /\ B \cup {s} \in SUBSET Steps
      BY <1>0
    <2>6. /\ IsFiniteSet(B) /\ Cardinality(A) \in Nat /\ Cardinality(B) \in Nat
      BY <2>5, StepSetsFinite
    <2>7. Cardinality(B \cup {s}) = Cardinality(B) + 1
      BY <2>3, <2>6, FS_AddElement
    <2>8. Cardinality(A) + Cardinality(B \cup {s}) <= ConcurrencyLimit
      BY <2>1, <2>6, <2>7, LimitAssumption
    <2>9. Cardinality(Occupied(stepState')) <= ConcurrencyLimit
      BY <1>0, <2>4, <2>5, <2>8, AccountingBoundsRows
    <2>10. /\ todo' \subseteq ReadySteps(seen')
           /\ Occupied(stepState') \subseteq Occupied(seen') \cup (ReadySteps(seen') \ todo')
           /\ Cardinality(Occupied(seen')) + Cardinality(ReadySteps(seen') \ todo')
                <= ConcurrencyLimit
      BY <2>1, <2>2, <2>3, <2>4, <2>8
    <2>11. DispatchAccounting'
      BY <2>1, <2>10 DEF DispatchAccounting, ReadySteps, Pending, InState
    <2>12. QED
      BY <2>9, <2>11 DEF RowsWithinLimit, InState
  <1>2. CASE EntersDispatch
    <2>1. RowsWithinLimit'
      BY <1>2 DEF EntersDispatch, RowsWithinLimit, InState
    <2>2. ReadySteps(stepState) \ ReadySteps(stepState) = {}
      OBVIOUS
    <2>3. Cardinality(Occupied(stepState)) + Cardinality({}) <= ConcurrencyLimit
      BY <1>0, FS_EmptySet, StepSetsFinite, LimitAssumption DEF RowsWithinLimit
    <2>4. /\ seen' = stepState /\ stepState' = stepState
          /\ ReadySteps(seen') = ReadySteps(stepState)
          /\ todo' = ReadySteps(stepState)
      BY <1>2 DEF EntersDispatch
    <2>5. /\ todo' \subseteq ReadySteps(seen')
          /\ Occupied(stepState') \subseteq Occupied(seen') \cup (ReadySteps(seen') \ todo')
          /\ Cardinality(Occupied(seen')) + Cardinality(ReadySteps(seen') \ todo')
                <= ConcurrencyLimit
      BY <2>2, <2>3, <2>4
    <2>6. DispatchAccounting'
      BY <1>2, <2>5 DEF EntersDispatch, DispatchAccounting, ReadySteps, Pending, InState
    <2>7. QED
      BY <2>1, <2>6
  <1>3. CASE NoNewRunning
    <2>1. Occupied(stepState') \subseteq Occupied(stepState)
      BY <1>3 DEF NoNewRunning, RunningRows, InState
    <2>2. Cardinality(Occupied(stepState')) <= Cardinality(Occupied(stepState))
      BY <1>0, <2>1, FS_Subset, StepSetsFinite
    <2>3. RowsWithinLimit'
      BY <1>0, <2>2, StepSetsFinite, LimitAssumption DEF RowsWithinLimit, InState
    <2>4. DispatchAccounting'
      BY <1>3, <2>1 DEF NoNewRunning, DispatchAccounting, ReadySteps, Pending, InState
    <2>5. QED
      BY <2>3, <2>4
  <1>4. QED
    BY <1>1, <1>2, <1>3, EffectOnRows

-----------------------------------------------------------------------------
\* No handler decides the run without dropping the context, and none drops the
\* context in mid-handler (execute_run, cancel_run, retry_run, _abort_run).
LEMMA NextLiveRun ==
    TypeOK /\ LiveRunUndecided /\ HandlerOwnsContext /\ [Next]_vars
        => (LiveRunUndecided /\ HandlerOwnsContext)'
  <1> DEFINE Inv == LiveRunUndecided /\ HandlerOwnsContext
  <1> SUFFICES ASSUME TypeOK, LiveRunUndecided, HandlerOwnsContext, [Next]_vars
               PROVE  Inv'
    OBVIOUS
  <1> USE DEF TypeOK, LiveRunUndecided, HandlerOwnsContext, Live, LockFree,
              db, handler
  <1>1. CASE StartRun
    BY <1>1 DEF StartRun
  <1>2. CASE InsertSteps
    BY <1>2 DEF InsertSteps
  <1>3. CASE ExecuteRun
    BY <1>3 DEF ExecuteRun, ClaimRun
  <1>4. CASE ScheduleReady
    BY <1>4 DEF ScheduleReady, AfterSkip
  <1>5. CASE SkipBlockedDone
    BY <1>5 DEF SkipBlockedDone, AfterSkip
  <1>6. CASE Finish
    BY <1>6 DEF Finish, Release, DropContext
  <1>7. CASE ParkRun
    BY <1>7 DEF ParkRun
  <1>8. CASE CheckpointsDone
    BY <1>8 DEF CheckpointsDone
  <1>9. CASE DispatchDone
    BY <1>9 DEF DispatchDone, Release, DropContext
  <1>10. CASE AbortDone
    BY <1>10 DEF AbortDone, Release, DropContext
  <1>11. CASE CancelRun
    BY <1>11 DEF CancelRun
  <1>12. CASE CancelDone
    BY <1>12 DEF CancelDone, Release, DropContext
  <1>13. CASE RetryRun
    BY <1>13 DEF RetryRun, Retryable
  <1>14. CASE RetryDone
    BY <1>14 DEF RetryDone, Release
  <1>15. CASE RejectRun
    BY <1>15 DEF RejectRun
  <1>16. CASE Crash
    BY <1>16 DEF Crash, Release, DropContext
  <1>17. CASE ResumeSelect
    BY <1>17 DEF ResumeSelect
  <1>18. CASE ResumeReset
    BY <1>18 DEF ResumeReset
  <1>19. CASE ResumeExecute
    BY <1>19 DEF ResumeExecute, ClaimRun
  <1>20. ASSUME NEW s \in Steps, SkipBlocked(s) PROVE Inv'
    BY <1>20 DEF SkipBlocked
  <1>21. ASSUME NEW s \in Steps, EnterCheckpoint(s) PROVE Inv'
    BY <1>21 DEF EnterCheckpoint
  <1>22. ASSUME NEW s \in Steps, Dispatch(s) PROVE Inv'
    BY <1>22 DEF Dispatch
  <1>23. ASSUME NEW s \in Steps, StartStep(s) PROVE Inv'
    BY <1>23 DEF StartStep
  <1>24. ASSUME NEW s \in Steps, AbortRun(s) PROVE Inv'
    BY <1>24 DEF AbortRun, ReportAccepted
  <1>25. ASSUME NEW s \in Steps, AbortSkip(s) PROVE Inv'
    BY <1>25 DEF AbortSkip
  <1>26. ASSUME NEW s \in Steps, CancelStep(s) PROVE Inv'
    BY <1>26 DEF CancelStep
  <1>27. ASSUME NEW s \in Steps, RetryReset(s) PROVE Inv'
    BY <1>27 DEF RetryReset
  <1>28. ASSUME NEW s \in Steps, ApproveStep(s) PROVE Inv'
    BY <1>28 DEF ApproveStep
  <1>29. ASSUME NEW s \in Steps, RejectStep(s) PROVE Inv'
    BY <1>29 DEF RejectStep
  <1>30. ASSUME NEW s \in Steps, RejectDependent(s) PROVE Inv'
    BY <1>30 DEF RejectDependent
  <1>31. ASSUME NEW s \in Steps, NEW result \in Outcomes \ {"stop"}, CompleteStep(s, result)
         PROVE  Inv'
    BY <1>31 DEF CompleteStep
  <1>32. ASSUME NEW s \in Steps, NEW request \in {"approve", "reject"}, RequireAwaiting(request, s)
         PROVE  Inv'
    BY <1>32 DEF RequireAwaiting
  <1>33. CASE UNCHANGED vars
    BY <1>33 DEF vars
  <1>34. QED
    BY
       <1>1, <1>2, <1>3, <1>4, <1>5, <1>6, <1>7, <1>8, <1>9, <1>10, <1>11,
       <1>12, <1>13, <1>14, <1>15, <1>16, <1>17, <1>18, <1>19, <1>20, <1>21,
       <1>22, <1>23, <1>24, <1>25, <1>26, <1>27, <1>28, <1>29, <1>30, <1>31,
       <1>32, <1>33
    DEF Next, Worker, Scheduler, Manager, Startup, User, Wait

-----------------------------------------------------------------------------
\* A fresh database satisfies the invariant (no rows, no context).
LEMMA InitExecutorInvariant == Init => ExecutorInvariant
  <1> SUFFICES ASSUME Init PROVE ExecutorInvariant
    OBVIOUS
  <1>1. InState(stepState, {"running"}) = {}
    BY DEF Init, InState, NoRows
  <1>2. RowsWithinLimit
    BY <1>1, FS_EmptySet, LimitAssumption DEF RowsWithinLimit
  <1>3. DispatchAccounting /\ LiveRunUndecided /\ HandlerOwnsContext
    BY DEF Init, DispatchAccounting, LiveRunUndecided, HandlerOwnsContext, Live
  <1>4. QED
    BY <1>2, <1>3, InitTypeOK DEF ExecutorInvariant

\* The executor's inductive invariant holds in every reachable state, whatever
\* requests, worker results, crashes and startup recovery interleave.
THEOREM ExecutorSafe == Spec => []ExecutorInvariant
  <1>1. Init => ExecutorInvariant
    BY InitExecutorInvariant
  <1>2. ExecutorInvariant /\ [Next]_vars => ExecutorInvariant'
    BY NextTypeOK, NextWithinLimit, NextLiveRun DEF ExecutorInvariant
  <1>3. QED
    BY <1>1, <1>2, PTL DEF Spec

\* Every variable keeps its type.
THEOREM TypeCorrect == Spec => []TypeOK
  <1>1. ExecutorInvariant => TypeOK
    BY DEF ExecutorInvariant
  <1>2. QED
    BY <1>1, ExecutorSafe, PTL

\* The persisted rows of a run never show more running steps than its
\* concurrency limit: _schedule_ready counts rows under its lock, and nothing
\* that writes without that lock makes a row running.
THEOREM RowsRespectLimit == Spec => []RowsWithinLimit
  <1>1. ExecutorInvariant => RowsWithinLimit
    BY DEF ExecutorInvariant
  <1>2. QED
    BY <1>1, ExecutorSafe, PTL

\* A run that has a context is not completed, failed or cancelled: every
\* handler that decides a run drops its context under the same lock.
THEOREM LiveRunsUndecided == Spec => []LiveRunUndecided
  <1>1. ExecutorInvariant => LiveRunUndecided
    BY DEF ExecutorInvariant
  <1>2. QED
    BY <1>1, ExecutorSafe, PTL
-----------------------------------------------------------------------------
(***************************************************************************)
(* Orderly operation: users who wait for startup recovery, and no retry of  *)
(* a run that a hard stop aborted under its workers.  Checkpoints and their *)
(* decisions, cancellation, failures, retries and crashes at any write      *)
(* stay.  Plain work is the case without checkpoints.                       *)
(***************************************************************************)
Orderly ==
    /\ QuietStartup
    /\ "stop" \in Outcomes => MaxRetries = 0

\* The steps that have a task, queued or executing.
Busy == {s \in Steps : queued[s] + running[s] > 0}

\* The steps that wait for a dependency.
Unmet == {t \in Steps : \E d \in DependsOn[t] : stepState[d] /= "completed"}

\* The checkpoint that approve or reject has looked up and not yet written.
UnderDecision == IF mgrOp \in {"approve", "reject"} THEN mgrTodo ELSE {}

\* The steps somebody has taken up: a worker, the manager or a user.
Taken ==
    InState(stepState, {"running", "awaiting_approval", "completed", "failed"})
        \cup Busy \cup UnderDecision

\* Nobody takes up a step that waits for a dependency.
TakenInOrder == Taken \cap Unmet = {}

\* A run that no scheduler looks at again.
Closed ==
    /\ ~Live /\ pc /= "retry"
    /\ \/ runState \in {"cancelled", "rejected"}
       \/ runState = "failed" /\ MaxRetries = 0

\* The run is closed or _abort_run or cancel_run is about to close it.
GivenUp == pc \in {"abort", "cancel"} \/ Closed

\* What _schedule_ready knows of the rows under the executor's lock, although
\* the manager writes them without that lock.
SchedulingInStep ==
    /\ pc \in {"checkpoint", "park", "dispatch"} =>
        \A s \in todo : stepState[s] = "pending" /\ s \notin Unmet
    /\ pc = "skip" => \A s \in Steps :
        seen[s] = "pending" => stepState[s] \in {"pending", "skipped"}
    /\ pc = "finish" => AllTerminal(stepState)

\* What _abort_run and cancel_run know of the rows: what depends on a step they
\* are about to skip or cancel has not been taken up.
TeardownInStep ==
    /\ pc \in {"abort", "cancel"} =>
        \A s \in todo : Successors(DependsOn, s) \cap Taken = {}
    /\ pc = "abort" => "stop" \in Outcomes

\* What retry_run knows: nothing runs or is parked, and what it resets is failed
\* or waits for a dependency.
RetryInStep ==
    pc = "retry" =>
        /\ MaxRetries > 0 /\ runState \in {"failed", "rejected"}
        /\ Busy = {} /\ UnderDecision = {}
        /\ InState(stepState, {"running", "awaiting_approval"}) = {}
        /\ \A s \in todo : /\ stepState[s] /= "completed"
                           /\ stepState[s] = "failed" \/ s \in Unmet

\* The steps a handler is about to write have rows.
TodoHasRows == \A s \in todo : stepState[s] /= "absent"

\* A failed run that may be retried has nothing running or parked.
FailedRunQuiet ==
    runState = "failed" /\ ~Live /\ MaxRetries > 0 =>
        Busy = {} /\ InState(stepState, {"running", "awaiting_approval"}) = {}

\* Before recovery has been handed over the process does nothing else, and
\* between the two inserts of start_run nobody executes the run.
StartupAlone ==
    /\ boot /= "done" =>
        /\ LockFree /\ ~Live /\ Busy = {} /\ starter = "idle"
        /\ execCalls = 0 /\ schedCalls = 0
    /\ boot \in {"reset", "execute"} => runState \in {"pending", "running"}
    /\ starter = "inserting" =>
        /\ stepState = NoRows /\ ~Live /\ Busy = {} /\ execCalls = 0
        /\ runState \in {"pending", "cancelling", "cancelled"}
        /\ pc \in {"idle", "cancel"} /\ todo = {}
    /\ runState = "absent" =>
        /\ stepState = NoRows /\ ~Live /\ Busy = {} /\ starter = "idle"
        /\ LockFree /\ todo = {} /\ execCalls = 0

\* The rows of the steps appear together, and a context knows them or none.
RowsTogether ==
    /\ stepState = NoRows \/ \A s \in Steps : stepState[s] /= "absent"
    /\ ctx = "empty" => stepState = NoRows
    /\ ctx = "live" => \A s \in Steps : stepState[s] /= "absent"

\* A step has one task, known to the context and running in the rows; tasks
\* outlive their context only under a closed run.
TasksAccounted ==
    /\ \A s \in Steps : queued[s] + running[s] <= 1
    /\ Live /\ pc \notin {"abort", "cancel"} =>
        inFlight = Busy /\ Busy \subseteq InState(stepState, {"running"})
    /\ ~Live /\ Busy /= {} => Closed

\* Threads, not only rows, respect the concurrency limit.
TasksWithinLimit == Cardinality(Busy) <= ConcurrencyLimit

\* What approve and reject know of the checkpoint they have looked up, although
\* the executor writes rows without the manager's lock: it is as they found it
\* unless the run is given up.
DecisionInStep ==
    /\ boot /= "done" => mgrOp = "idle"
    /\ \A s \in UnderDecision :
        /\ stepState[s] \in {"awaiting_approval", "cancelled", "skipped"}
        /\ stepState[s] /= "awaiting_approval" => GivenUp

\* What reject knows while it skips dependents: the checkpoint it rejected stays
\* rejected and, unless the run is given up, no retry can reach it.
RejectionInStep ==
    mgrOp = "dependents" => \E s \in Steps :
        /\ stepState[s] \in {"cancelled", "skipped"}
        /\ mgrTodo \subseteq DependentsOf(DependsOn, s)
        /\ s \notin Unmet \/ GivenUp

\* The inductive invariant of orderly operation.
OrderInvariant ==
    /\ ExecutorInvariant
    /\ StartupAlone
    /\ RowsTogether
    /\ TakenInOrder
    /\ TodoHasRows
    /\ SchedulingInStep
    /\ TeardownInStep
    /\ RetryInStep
    /\ FailedRunQuiet
    /\ TasksAccounted
    /\ TasksWithinLimit
    /\ DecisionInStep
    /\ RejectionInStep

\* What lies downstream of a step that is not completed waits for a dependency.
LEMMA DownstreamWaits ==
    ASSUME TypeOK, TakenInOrder, NEW s \in Steps, stepState[s] /= "completed"
    PROVE  DependentsOf(DependsOn, s) \subseteq Unmet
  <1>1. DOMAIN DependsOn = Steps /\ \A t \in Steps : DependsOn[t] \subseteq Steps
    BY GraphAssumption DEF Graphs
  <1>2. \A t \in Steps : stepState[t] /= "completed" => Successors(DependsOn, t) \subseteq Unmet
    BY <1>1 DEF Successors, Predecessors, Unmet
  <1>3. \A t \in Unmet : t \in Steps /\ stepState[t] /= "completed"
    BY DEF Unmet, TakenInOrder, Taken, InState
  <1>4. DownwardClosed(DependsOn, Unmet)
    BY <1>2, <1>3 DEF DownwardClosed
  <1>5. Unmet \in SUBSET DOMAIN DependsOn
    BY <1>1 DEF Unmet
  <1>6. QED
    BY <1>2, <1>4, <1>5, DependentsLeast

\* A request at work in the manager's lock is about rows that exist; the
\* dependents it skips were not taken up.
LEMMA DecisionKnowsRows ==
    ASSUME TypeOK, TakenInOrder, RowsTogether, DecisionInStep, RejectionInStep
    PROVE  /\ UnderDecision /= {} \/ mgrOp = "dependents" =>
                \A s \in Steps : stepState[s] /= "absent"
           /\ mgrOp = "dependents" =>
                mgrTodo \subseteq Unmet /\ mgrTodo \cap Taken = {}
  <1>1. UnderDecision /= {} => \A s \in Steps : stepState[s] /= "absent"
    BY DEF DecisionInStep, RowsTogether, NoRows, UnderDecision, TypeOK
  <1>2. ASSUME mgrOp = "dependents"
        PROVE  /\ \A s \in Steps : stepState[s] /= "absent"
               /\ mgrTodo \subseteq Unmet /\ mgrTodo \cap Taken = {}
    <2>1. PICK s \in Steps : /\ stepState[s] \in {"cancelled", "skipped"}
                             /\ mgrTodo \subseteq DependentsOf(DependsOn, s)
      BY <1>2 DEF RejectionInStep
    <2>2. mgrTodo \subseteq Unmet
      BY <2>1, DownstreamWaits
    <2>3. QED
      BY <2>1, <2>2 DEF RowsTogether, NoRows, TakenInOrder
  <1>3. QED
    BY <1>1, <1>2

\* What retry_run resets is failed or waits for a dependency.
LEMMA ClosureWaits ==
    ASSUME TypeOK, TakenInOrder
    PROVE  \A s \in ErrorClosure(stepState) : stepState[s] = "failed" \/ s \in Unmet
  <1>1. \A s \in InState(stepState, {"failed"}) : DependentsOf(DependsOn, s) \subseteq Unmet
    BY DownstreamWaits DEF InState
  <1>2. QED
    BY <1>1 DEF ErrorClosure, InState

\* What a step does to completed rows.
CompletedKept ==
    \A d \in Steps : stepState[d] = "completed" /\ stepState'[d] /= "completed" =>
        pc \in {"abort", "cancel"} /\ d \in todo

\* A completed step stays completed, but for the teardown of a run that
\* _abort_run or cancel_run closes.
LEMMA CompletedStays ==
    Orderly /\ OrderInvariant /\ [Next]_vars => CompletedKept
  <1> SUFFICES ASSUME Orderly, OrderInvariant, [Next]_vars PROVE CompletedKept
    OBVIOUS
  <1> USE DEF LockFree, Live, db, tasks, calls, handler, mgr, proc, OrderInvariant,
              ExecutorInvariant, TypeOK, CompletedKept, SchedulingInStep, RetryInStep,
              DecisionInStep, StartupAlone, InState
  <1>1. CASE StartRun
    BY <1>1 DEF StartRun, UserMayAct
  <1>2. CASE InsertSteps
    BY <1>2 DEF InsertSteps, NoRows
  <1>3. CASE ExecuteRun
    BY <1>3 DEF ExecuteRun, ClaimRun
  <1>4. CASE ScheduleReady
    BY <1>4 DEF ScheduleReady, AfterSkip
  <1>5. CASE SkipBlockedDone
    BY <1>5 DEF SkipBlockedDone, AfterSkip
  <1>6. CASE Finish
    BY <1>6 DEF Finish, DropContext, Release
  <1>7. CASE ParkRun
    BY <1>7 DEF ParkRun
  <1>8. CASE CheckpointsDone
    BY <1>8 DEF CheckpointsDone
  <1>9. CASE DispatchDone
    BY <1>9 DEF DispatchDone, MustPause, DropContext, Release
  <1>10. CASE AbortDone
    BY <1>10 DEF AbortDone, DropContext, Release
  <1>11. CASE CancelRun
    BY <1>11 DEF CancelRun, UserMayAct
  <1>12. CASE CancelDone
    BY <1>12 DEF CancelDone, DropContext, Release
  <1>13. CASE RetryRun
    BY <1>13 DEF RetryRun, Retryable, UserMayAct
  <1>14. CASE RetryDone
    BY <1>14 DEF RetryDone, Release
  <1>15. CASE RejectRun
    BY <1>15 DEF RejectRun
  <1>16. CASE Crash
    BY <1>16 DEF Crash, DropContext, Release
  <1>17. CASE ResumeSelect
    BY <1>17 DEF ResumeSelect
  <1>18. CASE ResumeReset
    BY <1>18 DEF ResumeReset, ResetInflight
  <1>19. CASE ResumeExecute
    BY <1>19 DEF ResumeExecute, ClaimRun
  <1>20. ASSUME NEW s \in Steps, SkipBlocked(s) PROVE CompletedKept
    BY <1>20 DEF SkipBlocked, Blocked, Pending
  <1>21. ASSUME NEW s \in Steps, EnterCheckpoint(s) PROVE CompletedKept
    BY <1>21 DEF EnterCheckpoint
  <1>22. ASSUME NEW s \in Steps, Dispatch(s) PROVE CompletedKept
    BY <1>22 DEF Dispatch
  <1>23. ASSUME NEW s \in Steps, StartStep(s) PROVE CompletedKept
    BY <1>23 DEF StartStep
  <1>24. ASSUME NEW s \in Steps, "stop" \in Outcomes, AbortRun(s) PROVE CompletedKept
    BY <1>24 DEF AbortRun, ReportAccepted, TasksAccounted, Busy
  <1>25. ASSUME NEW s \in Steps, AbortSkip(s) PROVE CompletedKept
    BY <1>25 DEF AbortSkip
  <1>26. ASSUME NEW s \in Steps, CancelStep(s) PROVE CompletedKept
    BY <1>26 DEF CancelStep
  <1>27. ASSUME NEW s \in Steps, RetryReset(s) PROVE CompletedKept
    BY <1>27 DEF RetryReset
  <1>28. ASSUME NEW s \in Steps, ApproveStep(s) PROVE CompletedKept
    BY <1>28 DEF ApproveStep, UnderDecision
  <1>29. ASSUME NEW s \in Steps, RejectStep(s) PROVE CompletedKept
    BY <1>29 DEF RejectStep, UnderDecision
  <1>30. ASSUME NEW s \in Steps, RejectDependent(s) PROVE CompletedKept
    BY <1>30, DecisionKnowsRows DEF RejectDependent, Taken
  <1>31. ASSUME NEW s \in Steps, NEW result \in Outcomes \ {"stop"}, CompleteStep(s, result)
         PROVE  CompletedKept
    BY <1>31 DEF CompleteStep, ReportAccepted, TasksAccounted, Busy
  <1>32. ASSUME NEW s \in Steps, NEW request \in {"approve", "reject"}, RequireAwaiting(request, s)
         PROVE  CompletedKept
    BY <1>32 DEF RequireAwaiting, UserMayAct, ManagerLockFree, IsAwaiting
  <1>33. CASE UNCHANGED vars
    BY <1>33 DEF vars
  <1>34. QED
    BY <1>1, <1>2, <1>3, <1>4, <1>5, <1>6, <1>7, <1>8, <1>9, <1>10, <1>11, <1>12,
       <1>13, <1>14, <1>15, <1>16, <1>17, <1>18, <1>19, <1>20, <1>21, <1>22, <1>23,
       <1>24, <1>25, <1>26, <1>27, <1>28, <1>29, <1>30, <1>31, <1>32, <1>33
    DEF Next, Worker, Scheduler, Manager, Startup, User, Wait

\* A run that is given up stays so until the process dies.
GivenUpKept == GivenUp => GivenUp' \/ (crashes' /= crashes /\ mgrOp' = "idle")

\* A run that is given up stays so until the process dies: nobody claims or
\* retries a closed run.
LEMMA GivenUpStays ==
    Orderly /\ OrderInvariant /\ [Next]_vars => GivenUpKept
  <1> SUFFICES ASSUME Orderly, OrderInvariant, [Next]_vars PROVE GivenUpKept
    OBVIOUS
  <1> USE DEF LockFree, Live, db, tasks, calls, handler, mgr, proc, OrderInvariant,
              ExecutorInvariant, TypeOK, GivenUpKept, GivenUp, Closed,
              HandlerOwnsContext
  <1>1. CASE StartRun
    BY <1>1 DEF StartRun, UserMayAct
  <1>2. CASE InsertSteps
    BY <1>2 DEF InsertSteps
  <1>3. CASE ExecuteRun
    BY <1>3 DEF ExecuteRun, ClaimRun, TerminalRunStates
  <1>4. CASE ScheduleReady
    BY <1>4 DEF ScheduleReady, AfterSkip
  <1>5. CASE SkipBlockedDone
    BY <1>5 DEF SkipBlockedDone, AfterSkip
  <1>6. CASE Finish
    BY <1>6 DEF Finish, DropContext, Release
  <1>7. CASE ParkRun
    BY <1>7 DEF ParkRun
  <1>8. CASE CheckpointsDone
    BY <1>8 DEF CheckpointsDone
  <1>9. CASE DispatchDone
    BY <1>9 DEF DispatchDone, MustPause, DropContext, Release
  <1>10. CASE AbortDone
    BY <1>10 DEF AbortDone, DropContext, Release, TeardownInStep, Orderly
  <1>11. CASE CancelRun
    BY <1>11 DEF CancelRun, UserMayAct, TerminalRunStates
  <1>12. CASE CancelDone
    BY <1>12 DEF CancelDone, DropContext, Release
  <1>13. CASE RetryRun
    BY <1>13, BoundsAssumption DEF RetryRun, Retryable, UserMayAct
  <1>14. CASE RetryDone
    BY <1>14 DEF RetryDone, Release
  <1>15. CASE RejectRun
    BY <1>15 DEF RejectRun
  <1>16. CASE Crash
    BY <1>16 DEF Crash, DropContext, Release
  <1>17. CASE ResumeSelect
    BY <1>17 DEF ResumeSelect
  <1>18. CASE ResumeReset
    BY <1>18 DEF ResumeReset, ResetInflight
  <1>19. CASE ResumeExecute
    BY <1>19 DEF ResumeExecute, ClaimRun, TerminalRunStates
  <1>20. ASSUME NEW s \in Steps, SkipBlocked(s) PROVE GivenUpKept
    BY <1>20 DEF SkipBlocked
  <1>21. ASSUME NEW s \in Steps, EnterCheckpoint(s) PROVE GivenUpKept
    BY <1>21 DEF EnterCheckpoint
  <1>22. ASSUME NEW s \in Steps, Dispatch(s) PROVE GivenUpKept
    BY <1>22 DEF Dispatch
  <1>23. ASSUME NEW s \in Steps, StartStep(s) PROVE GivenUpKept
    BY <1>23 DEF StartStep
  <1>24. ASSUME NEW s \in Steps, "stop" \in Outcomes, AbortRun(s) PROVE GivenUpKept
    BY <1>24 DEF AbortRun, ReportAccepted
  <1>25. ASSUME NEW s \in Steps, AbortSkip(s) PROVE GivenUpKept
    BY <1>25 DEF AbortSkip
  <1>26. ASSUME NEW s \in Steps, CancelStep(s) PROVE GivenUpKept
    BY <1>26 DEF CancelStep
  <1>27. ASSUME NEW s \in Steps, RetryReset(s) PROVE GivenUpKept
    BY <1>27 DEF RetryReset
  <1>28. ASSUME NEW s \in Steps, ApproveStep(s) PROVE GivenUpKept
    BY <1>28 DEF ApproveStep
  <1>29. ASSUME NEW s \in Steps, RejectStep(s) PROVE GivenUpKept
    BY <1>29 DEF RejectStep
  <1>30. ASSUME NEW s \in Steps, RejectDependent(s) PROVE GivenUpKept
    BY <1>30 DEF RejectDependent
  <1>31. ASSUME NEW s \in Steps, NEW result \in Outcomes \ {"stop"}, CompleteStep(s, result)
         PROVE  GivenUpKept
    BY <1>31 DEF CompleteStep, ReportAccepted
  <1>32. ASSUME NEW s \in Steps, NEW request \in {"approve", "reject"}, RequireAwaiting(request, s)
         PROVE  GivenUpKept
    BY <1>32 DEF RequireAwaiting, UserMayAct, ManagerLockFree, IsAwaiting
  <1>33. CASE UNCHANGED vars
    BY <1>33 DEF vars
  <1>34. QED
    BY <1>1, <1>2, <1>3, <1>4, <1>5, <1>6, <1>7, <1>8, <1>9, <1>10, <1>11, <1>12,
       <1>13, <1>14, <1>15, <1>16, <1>17, <1>18, <1>19, <1>20, <1>21, <1>22, <1>23,
       <1>24, <1>25, <1>26, <1>27, <1>28, <1>29, <1>30, <1>31, <1>32, <1>33
    DEF Next, Worker, Scheduler, Manager, Startup, User, Wait

\* Recovery is handed over before users act, and start_run is alone with its
\* run until its second insert; the manager has nothing to decide by then.
LEMMA OrderStartup ==
    Orderly /\ OrderInvariant /\ [Next]_vars => StartupAlone'
  <1> SUFFICES ASSUME Orderly, OrderInvariant, [Next]_vars PROVE StartupAlone'
    OBVIOUS
  <1> USE DEF LockFree, Live, db, tasks, calls, handler, mgr, proc, OrderInvariant,
              ExecutorInvariant, TypeOK, StartupAlone, Busy, HandlerOwnsContext,
              LiveRunUndecided, Orderly
  <1>1. CASE StartRun
    BY <1>1 DEF StartRun, UserMayAct
  <1>2. CASE InsertSteps
    BY <1>2 DEF InsertSteps
  <1>3. CASE ExecuteRun
    BY <1>3 DEF ExecuteRun, ClaimRun
  <1>4. CASE ScheduleReady
    BY <1>4 DEF ScheduleReady, AfterSkip
  <1>5. CASE SkipBlockedDone
    BY <1>5 DEF SkipBlockedDone, AfterSkip
  <1>6. CASE Finish
    BY <1>6 DEF Finish, DropContext, Release, DeriveOutcome
  <1>7. CASE ParkRun
    BY <1>7 DEF ParkRun
  <1>8. CASE CheckpointsDone
    BY <1>8 DEF CheckpointsDone
  <1>9. CASE DispatchDone
    BY <1>9 DEF DispatchDone, MustPause, DropContext, Release
  <1>10. CASE AbortDone
    BY <1>10 DEF AbortDone, DropContext, Release
  <1>11. CASE CancelRun
    BY <1>11 DEF CancelRun, UserMayAct, NonTerminal, InState, NoRows
  <1>12. CASE CancelDone
    BY <1>12 DEF CancelDone, DropContext, Release
  <1>13. CASE RetryRun
    BY <1>13 DEF RetryRun, Retryable, UserMayAct
  <1>14. CASE RetryDone
    BY <1>14 DEF RetryDone, Release
  <1>15. CASE RejectRun
    BY <1>15, DecisionKnowsRows DEF RejectRun, NoRows, DecisionInStep, RejectionInStep
  <1>16. CASE Crash
    BY <1>16 DEF Crash, DropContext, Release
  <1>17. CASE ResumeSelect
    BY <1>17 DEF ResumeSelect
  <1>18. CASE ResumeReset
    BY <1>18 DEF ResumeReset, ResetInflight
  <1>19. CASE ResumeExecute
    BY <1>19 DEF ResumeExecute, ClaimRun
  <1>20. ASSUME NEW s \in Steps, SkipBlocked(s) PROVE StartupAlone'
    BY <1>20 DEF SkipBlocked
  <1>21. ASSUME NEW s \in Steps, EnterCheckpoint(s) PROVE StartupAlone'
    BY <1>21 DEF EnterCheckpoint
  <1>22. ASSUME NEW s \in Steps, Dispatch(s) PROVE StartupAlone'
    BY <1>22 DEF Dispatch
  <1>23. ASSUME NEW s \in Steps, StartStep(s) PROVE StartupAlone'
    BY <1>23 DEF StartStep
  <1>24. ASSUME NEW s \in Steps, "stop" \in Outcomes, AbortRun(s) PROVE StartupAlone'
    BY <1>24 DEF AbortRun, ReportAccepted
  <1>25. ASSUME NEW s \in Steps, AbortSkip(s) PROVE StartupAlone'
    BY <1>25 DEF AbortSkip
  <1>26. ASSUME NEW s \in Steps, CancelStep(s) PROVE StartupAlone'
    BY <1>26 DEF CancelStep
  <1>27. ASSUME NEW s \in Steps, RetryReset(s) PROVE StartupAlone'
    BY <1>27 DEF RetryReset, NoRows, TodoHasRows
  <1>28. ASSUME NEW s \in Steps, ApproveStep(s) PROVE StartupAlone'
    BY <1>28, DecisionKnowsRows DEF ApproveStep, NoRows, UnderDecision, DecisionInStep
  <1>29. ASSUME NEW s \in Steps, RejectStep(s) PROVE StartupAlone'
    BY <1>29, DecisionKnowsRows DEF RejectStep, NoRows, UnderDecision
  <1>30. ASSUME NEW s \in Steps, RejectDependent(s) PROVE StartupAlone'
    BY <1>30, DecisionKnowsRows DEF RejectDependent, NoRows
  <1>31. ASSUME NEW s \in Steps, NEW result \in Outcomes \ {"stop"}, CompleteStep(s, result)
         PROVE  StartupAlone'
    BY <1>31 DEF CompleteStep, ReportAccepted
  <1>32. ASSUME NEW s \in Steps, NEW request \in {"approve", "reject"}, RequireAwaiting(request, s)
         PROVE  StartupAlone'
    BY <1>32 DEF RequireAwaiting, UserMayAct, ManagerLockFree, IsAwaiting
  <1>33. CASE UNCHANGED vars
    BY <1>33 DEF vars
  <1>34. QED
    BY <1>1, <1>2, <1>3, <1>4, <1>5, <1>6, <1>7, <1>8, <1>9, <1>10, <1>11, <1>12,
       <1>13, <1>14, <1>15, <1>16, <1>17, <1>18, <1>19, <1>20, <1>21, <1>22, <1>23,
       <1>24, <1>25, <1>26, <1>27, <1>28, <1>29, <1>30, <1>31, <1>32, <1>33
    DEF Next, Worker, Scheduler, Manager, Startup, User, Wait

\* The step rows appear in one executemany and never disappear; a context
\* registered before that moment knows no steps.
LEMMA OrderRows ==
    Orderly /\ OrderInvariant /\ [Next]_vars => RowsTogether'
  <1> SUFFICES ASSUME Orderly, OrderInvariant, [Next]_vars PROVE RowsTogether'
    OBVIOUS
  <1> USE DEF LockFree, Live, db, tasks, calls, handler, mgr, proc, OrderInvariant,
              ExecutorInvariant, TypeOK, RowsTogether, StartupAlone, NoRows,
              HandlerOwnsContext
  <1>1. CASE StartRun
    BY <1>1 DEF StartRun, UserMayAct
  <1>2. CASE InsertSteps
    BY <1>2 DEF InsertSteps
  <1>3. CASE ExecuteRun
    BY <1>3 DEF ExecuteRun, ClaimRun
  <1>4. CASE ScheduleReady
    BY <1>4 DEF ScheduleReady, AfterSkip
  <1>5. CASE SkipBlockedDone
    BY <1>5 DEF SkipBlockedDone, AfterSkip
  <1>6. CASE Finish
    BY <1>6 DEF Finish, DropContext, Release
  <1>7. CASE ParkRun
    BY <1>7 DEF ParkRun
  <1>8. CASE CheckpointsDone
    BY <1>8 DEF CheckpointsDone
  <1>9. CASE DispatchDone
    BY <1>9 DEF DispatchDone, MustPause, DropContext, Release
  <1>10. CASE AbortDone
    BY <1>10 DEF AbortDone, DropContext, Release
  <1>11. CASE CancelRun
    BY <1>11 DEF CancelRun, UserMayAct
  <1>12. CASE CancelDone
    BY <1>12 DEF CancelDone, DropContext, Release
  <1>13. CASE RetryRun
    BY <1>13 DEF RetryRun, Retryable, UserMayAct
  <1>14. CASE RetryDone
    BY <1>14 DEF RetryDone, Release
  <1>15. CASE RejectRun
    BY <1>15 DEF RejectRun
  <1>16. CASE Crash
    BY <1>16 DEF Crash, DropContext, Release
  <1>17. CASE ResumeSelect
    BY <1>17 DEF ResumeSelect
  <1>18. CASE ResumeReset
    BY <1>18 DEF ResumeReset, ResetInflight
  <1>19. CASE ResumeExecute
    BY <1>19 DEF ResumeExecute, ClaimRun
  <1>20. ASSUME NEW s \in Steps, SkipBlocked(s) PROVE RowsTogether'
    BY <1>20 DEF SkipBlocked, Blocked, Pending, InState, SchedulingInStep
  <1>21. ASSUME NEW s \in Steps, EnterCheckpoint(s) PROVE RowsTogether'
    BY <1>21 DEF EnterCheckpoint, SchedulingInStep
  <1>22. ASSUME NEW s \in Steps, Dispatch(s) PROVE RowsTogether'
    BY <1>22 DEF Dispatch, SchedulingInStep
  <1>23. ASSUME NEW s \in Steps, StartStep(s) PROVE RowsTogether'
    BY <1>23 DEF StartStep
  <1>24. ASSUME NEW s \in Steps, "stop" \in Outcomes, AbortRun(s) PROVE RowsTogether'
    BY <1>24 DEF AbortRun, ReportAccepted, TasksAccounted, Busy, InState
  <1>25. ASSUME NEW s \in Steps, AbortSkip(s) PROVE RowsTogether'
    BY <1>25 DEF AbortSkip, TodoHasRows
  <1>26. ASSUME NEW s \in Steps, CancelStep(s) PROVE RowsTogether'
    BY <1>26 DEF CancelStep, TodoHasRows
  <1>27. ASSUME NEW s \in Steps, RetryReset(s) PROVE RowsTogether'
    BY <1>27 DEF RetryReset, TodoHasRows
  <1>28. ASSUME NEW s \in Steps, ApproveStep(s) PROVE RowsTogether'
    BY <1>28, DecisionKnowsRows DEF ApproveStep, UnderDecision
  <1>29. ASSUME NEW s \in Steps, RejectStep(s) PROVE RowsTogether'
    BY <1>29, DecisionKnowsRows DEF RejectStep, UnderDecision
  <1>30. ASSUME NEW s \in Steps, RejectDependent(s) PROVE RowsTogether'
    BY <1>30, DecisionKnowsRows DEF RejectDependent
  <1>31. ASSUME NEW s \in Steps, NEW result \in Outcomes \ {"stop"}, CompleteStep(s, result)
         PROVE  RowsTogether'
    BY <1>31, EnvAssumption DEF CompleteStep, ReportAccepted, TasksAccounted, Busy, InState
  <1>32. ASSUME NEW s \in Steps, NEW request \in {"approve", "reject"}, RequireAwaiting(request, s)
         PROVE  RowsTogether'
    BY <1>32 DEF RequireAwaiting, UserMayAct, ManagerLockFree, IsAwaiting
  <1>33. CASE UNCHANGED vars
    BY <1>33 DEF vars
  <1>34. QED
    BY <1>1, <1>2, <1>3, <1>4, <1>5, <1>6, <1>7, <1>8, <1>9, <1>10, <1>11, <1>12,
       <1>13, <1>14, <1>15, <1>16, <1>17, <1>18, <1>19, <1>20, <1>21, <1>22, <1>23,
       <1>24, <1>25, <1>26, <1>27, <1>28, <1>29, <1>30, <1>31, <1>32, <1>33
    DEF Next, Worker, Scheduler, Manager, Startup, User, Wait

\* Tasks, in-flight set and running rows move together: _schedule_ready makes
\* them, _on_step_complete and _abort_run undo them; the manager's writes fall
\* on other rows.
LEMMA OrderTasks ==
    Orderly /\ OrderInvariant /\ [Next]_vars => TasksAccounted'
  <1> SUFFICES ASSUME Orderly, OrderInvariant, [Next]_vars PROVE TasksAccounted'
    OBVIOUS
  <1> USE DEF LockFree, Live, db, tasks, calls, handler, mgr, proc, OrderInvariant,
              ExecutorInvariant, TypeOK, TasksAccounted, Busy, InState, StartupAlone,
              HandlerOwnsContext, LiveRunUndecided, Closed
  <1>1. CASE StartRun
    BY <1>1 DEF StartRun, UserMayAct
  <1>2. CASE InsertSteps
    BY <1>2 DEF InsertSteps, NoRows
  <1>3. CASE ExecuteRun
    BY <1>3 DEF ExecuteRun, ClaimRun, TerminalRunStates, RowsTogether
  <1>4. CASE ScheduleReady
    BY <1>4 DEF ScheduleReady, AfterSkip
  <1>5. CASE SkipBlockedDone
    BY <1>5 DEF SkipBlockedDone, AfterSkip
  <1>6. CASE Finish
    BY <1>6
    DEF Finish, DropContext, Release, SchedulingInStep, DeriveOutcome, AllTerminal,
        NonTerminal
  <1>7. CASE ParkRun
    BY <1>7 DEF ParkRun
  <1>8. CASE CheckpointsDone
    BY <1>8 DEF CheckpointsDone
  <1>9. CASE DispatchDone
    BY <1>9 DEF DispatchDone, MustPause, DropContext, Release
  <1>10. CASE AbortDone
    BY <1>10 DEF AbortDone, DropContext, Release, TeardownInStep, Orderly
  <1>11. CASE CancelRun
    BY <1>11 DEF CancelRun, UserMayAct, TerminalRunStates
  <1>12. CASE CancelDone
    BY <1>12 DEF CancelDone, DropContext, Release
  <1>13. CASE RetryRun
    BY <1>13, BoundsAssumption DEF RetryRun, Retryable, UserMayAct, FailedRunQuiet
  <1>14. CASE RetryDone
    BY <1>14 DEF RetryDone, Release, RetryInStep
  <1>15. CASE RejectRun
    BY <1>15 DEF RejectRun
  <1>16. CASE Crash
    BY <1>16 DEF Crash, DropContext, Release
  <1>17. CASE ResumeSelect
    BY <1>17 DEF ResumeSelect
  <1>18. CASE ResumeReset
    BY <1>18 DEF ResumeReset, ResetInflight
  <1>19. CASE ResumeExecute
    BY <1>19 DEF ResumeExecute, ClaimRun, TerminalRunStates, RowsTogether
  <1>20. ASSUME NEW s \in Steps, SkipBlocked(s) PROVE TasksAccounted'
    BY <1>20 DEF SkipBlocked, Blocked, Pending, SchedulingInStep
  <1>21. ASSUME NEW s \in Steps, EnterCheckpoint(s) PROVE TasksAccounted'
    BY <1>21 DEF EnterCheckpoint, SchedulingInStep
  <1>22. ASSUME NEW s \in Steps, Dispatch(s) PROVE TasksAccounted'
    BY <1>22 DEF Dispatch, SchedulingInStep
  <1>23. ASSUME NEW s \in Steps, StartStep(s) PROVE TasksAccounted'
    BY <1>23 DEF StartStep
  <1>24. ASSUME NEW s \in Steps, "stop" \in Outcomes, AbortRun(s) PROVE TasksAccounted'
    BY <1>24 DEF AbortRun, ReportAccepted
  <1>25. ASSUME NEW s \in Steps, AbortSkip(s) PROVE TasksAccounted'
    BY <1>25 DEF AbortSkip
  <1>26. ASSUME NEW s \in Steps, CancelStep(s) PROVE TasksAccounted'
    BY <1>26 DEF CancelStep
  <1>27. ASSUME NEW s \in Steps, RetryReset(s) PROVE TasksAccounted'
    BY <1>27 DEF RetryReset, RetryInStep
  <1>28. ASSUME NEW s \in Steps, ApproveStep(s) PROVE TasksAccounted'
    BY <1>28 DEF ApproveStep, UnderDecision, DecisionInStep
  <1>29. ASSUME NEW s \in Steps, RejectStep(s) PROVE TasksAccounted'
    BY <1>29 DEF RejectStep, UnderDecision, DecisionInStep
  <1>30. ASSUME NEW s \in Steps, RejectDependent(s) PROVE TasksAccounted'
    BY <1>30, DecisionKnowsRows DEF RejectDependent, Taken
  <1>31. ASSUME NEW s \in Steps, NEW result \in Outcomes \ {"stop"}, CompleteStep(s, result)
         PROVE  TasksAccounted'
    BY <1>31, EnvAssumption DEF CompleteStep, ReportAccepted
  <1>32. ASSUME NEW s \in Steps, NEW request \in {"approve", "reject"}, RequireAwaiting(request, s)
         PROVE  TasksAccounted'
    BY <1>32 DEF RequireAwaiting, UserMayAct, ManagerLockFree, IsAwaiting
  <1>33. CASE UNCHANGED vars
    BY <1>33 DEF vars
  <1>34. QED
    BY <1>1, <1>2, <1>3, <1>4, <1>5, <1>6, <1>7, <1>8, <1>9, <1>10, <1>11, <1>12,
       <1>13, <1>14, <1>15, <1>16, <1>17, <1>18, <1>19, <1>20, <1>21, <1>22, <1>23,
       <1>24, <1>25, <1>26, <1>27, <1>28, <1>29, <1>30, <1>31, <1>32, <1>33
    DEF Next, Worker, Scheduler, Manager, Startup, User, Wait

\* A run is failed by _finish_run once no row is open, or by an abort, after
\* which orderly users do not retry.
LEMMA OrderFailed ==
    Orderly /\ OrderInvariant /\ [Next]_vars => FailedRunQuiet'
  <1> SUFFICES ASSUME Orderly, OrderInvariant, [Next]_vars PROVE FailedRunQuiet'
    OBVIOUS
  <1> USE DEF LockFree, Live, db, tasks, calls, handler, mgr, proc, OrderInvariant,
              ExecutorInvariant, TypeOK, FailedRunQuiet, Busy, InState, StartupAlone,
              HandlerOwnsContext, LiveRunUndecided
  <1>1. CASE StartRun
    BY <1>1 DEF StartRun, UserMayAct
  <1>2. CASE InsertSteps
    BY <1>2 DEF InsertSteps, NoRows
  <1>3. CASE ExecuteRun
    BY <1>3 DEF ExecuteRun, ClaimRun, TerminalRunStates
  <1>4. CASE ScheduleReady
    BY <1>4 DEF ScheduleReady, AfterSkip
  <1>5. CASE SkipBlockedDone
    BY <1>5 DEF SkipBlockedDone, AfterSkip
  <1>6. CASE Finish
    BY <1>6
    DEF Finish, DropContext, Release, SchedulingInStep, TasksAccounted, DeriveOutcome,
        AllTerminal, NonTerminal
  <1>7. CASE ParkRun
    BY <1>7 DEF ParkRun
  <1>8. CASE CheckpointsDone
    BY <1>8 DEF CheckpointsDone
  <1>9. CASE DispatchDone
    BY <1>9 DEF DispatchDone, MustPause, DropContext, Release
  <1>10. CASE AbortDone
    BY <1>10 DEF AbortDone, DropContext, Release, TeardownInStep, Orderly
  <1>11. CASE CancelRun
    BY <1>11 DEF CancelRun, UserMayAct
  <1>12. CASE CancelDone
    BY <1>12 DEF CancelDone, DropContext, Release
  <1>13. CASE RetryRun
    BY <1>13 DEF RetryRun, Retryable, UserMayAct
  <1>14. CASE RetryDone
    BY <1>14 DEF RetryDone, Release
  <1>15. CASE RejectRun
    BY <1>15 DEF RejectRun
  <1>16. CASE Crash
    BY <1>16 DEF Crash, DropContext, Release
  <1>17. CASE ResumeSelect
    BY <1>17 DEF ResumeSelect
  <1>18. CASE ResumeReset
    BY <1>18 DEF ResumeReset, ResetInflight
  <1>19. CASE ResumeExecute
    BY <1>19 DEF ResumeExecute, ClaimRun, TerminalRunStates
  <1>20. ASSUME NEW s \in Steps, SkipBlocked(s) PROVE FailedRunQuiet'
    BY <1>20 DEF SkipBlocked, Blocked, Pending
  <1>21. ASSUME NEW s \in Steps, EnterCheckpoint(s) PROVE FailedRunQuiet'
    BY <1>21 DEF EnterCheckpoint
  <1>22. ASSUME NEW s \in Steps, Dispatch(s) PROVE FailedRunQuiet'
    BY <1>22 DEF Dispatch
  <1>23. ASSUME NEW s \in Steps, StartStep(s) PROVE FailedRunQuiet'
    BY <1>23 DEF StartStep
  <1>24. ASSUME NEW s \in Steps, "stop" \in Outcomes, AbortRun(s) PROVE FailedRunQuiet'
    BY <1>24 DEF AbortRun, ReportAccepted
  <1>25. ASSUME NEW s \in Steps, AbortSkip(s) PROVE FailedRunQuiet'
    BY <1>25 DEF AbortSkip
  <1>26. ASSUME NEW s \in Steps, CancelStep(s) PROVE FailedRunQuiet'
    BY <1>26 DEF CancelStep
  <1>27. ASSUME NEW s \in Steps, RetryReset(s) PROVE FailedRunQuiet'
    BY <1>27 DEF RetryReset, RetryInStep
  <1>28. ASSUME NEW s \in Steps, ApproveStep(s) PROVE FailedRunQuiet'
    BY <1>28 DEF ApproveStep, UnderDecision
  <1>29. ASSUME NEW s \in Steps, RejectStep(s) PROVE FailedRunQuiet'
    BY <1>29 DEF RejectStep, UnderDecision
  <1>30. ASSUME NEW s \in Steps, RejectDependent(s) PROVE FailedRunQuiet'
    BY <1>30 DEF RejectDependent
  <1>31. ASSUME NEW s \in Steps, NEW result \in Outcomes \ {"stop"}, CompleteStep(s, result)
         PROVE  FailedRunQuiet'
    BY <1>31, EnvAssumption DEF CompleteStep, ReportAccepted
  <1>32. ASSUME NEW s \in Steps, NEW request \in {"approve", "reject"}, RequireAwaiting(request, s)
         PROVE  FailedRunQuiet'
    BY <1>32 DEF RequireAwaiting, UserMayAct, ManagerLockFree, IsAwaiting
  <1>33. CASE UNCHANGED vars
    BY <1>33 DEF vars
  <1>34. QED
    BY <1>1, <1>2, <1>3, <1>4, <1>5, <1>6, <1>7, <1>8, <1>9, <1>10, <1>11, <1>12,
       <1>13, <1>14, <1>15, <1>16, <1>17, <1>18, <1>19, <1>20, <1>21, <1>22, <1>23,
       <1>24, <1>25, <1>26, <1>27, <1>28, <1>29, <1>30, <1>31, <1>32, <1>33
    DEF Next, Worker, Scheduler, Manager, Startup, User, Wait

\* Outside such a teardown no step that was ready waits again.
LEMMA WaitingEnds ==
    Orderly /\ OrderInvariant /\ [Next]_vars /\ pc \notin {"abort", "cancel"} =>
        Unmet' \subseteq Unmet
  <1> SUFFICES ASSUME Orderly, OrderInvariant, [Next]_vars, pc \notin {"abort", "cancel"}
               PROVE  Unmet' \subseteq Unmet
    OBVIOUS
  <1>1. CompletedKept
    BY CompletedStays
  <1>2. \A t \in Steps : DependsOn[t] \subseteq Steps
    BY GraphAssumption DEF Graphs
  <1>3. QED
    BY <1>1, <1>2 DEF Unmet, CompletedKept

\* A step is taken up when its dependencies are completed, and no dependency of
\* a taken step is taken back.
LEMMA OrderTaken ==
    Orderly /\ OrderInvariant /\ [Next]_vars => TakenInOrder'
  <1> SUFFICES ASSUME Orderly, OrderInvariant, [Next]_vars PROVE TakenInOrder'
    OBVIOUS
  <1> USE DEF LockFree, Live, db, tasks, calls, handler, mgr, proc, OrderInvariant,
              ExecutorInvariant, TypeOK, TakenInOrder
  <1>1. CASE StartRun
    BY <1>1, WaitingEnds
    DEF StartRun, UserMayAct, Taken, InState, Busy, UnderDecision, Unmet
  <1>2. CASE InsertSteps
    BY <1>2, WaitingEnds
    DEF InsertSteps, Taken, InState, Busy, UnderDecision, StartupAlone, NoRows,
        DecisionInStep
  <1>3. CASE ExecuteRun
    BY <1>3, WaitingEnds DEF ExecuteRun, ClaimRun, Taken, InState, Busy, UnderDecision
  <1>4. CASE ScheduleReady
    BY <1>4, WaitingEnds DEF ScheduleReady, AfterSkip, Taken, InState, Busy, UnderDecision
  <1>5. CASE SkipBlockedDone
    BY <1>5, WaitingEnds DEF SkipBlockedDone, AfterSkip, Taken, InState, Busy, UnderDecision
  <1>6. CASE Finish
    BY <1>6, WaitingEnds
    DEF Finish, DropContext, Release, Taken, InState, Busy, UnderDecision
  <1>7. CASE ParkRun
    BY <1>7, WaitingEnds DEF ParkRun, Taken, InState, Busy, UnderDecision
  <1>8. CASE CheckpointsDone
    BY <1>8, WaitingEnds DEF CheckpointsDone, Taken, InState, Busy, UnderDecision
  <1>9. CASE DispatchDone
    BY <1>9, WaitingEnds
    DEF DispatchDone, MustPause, DropContext, Release, Taken, InState, Busy,
        UnderDecision
  <1>10. CASE AbortDone
    BY <1>10, WaitingEnds
    DEF AbortDone, DropContext, Release, Taken, InState, Busy, UnderDecision, Unmet
  <1>11. CASE CancelRun
    BY <1>11, WaitingEnds DEF CancelRun, UserMayAct, Taken, InState, Busy, UnderDecision
  <1>12. CASE CancelDone
    BY <1>12, WaitingEnds
    DEF CancelDone, DropContext, Release, Taken, InState, Busy, UnderDecision, Unmet
  <1>13. CASE RetryRun
    BY <1>13, WaitingEnds
    DEF RetryRun, Retryable, UserMayAct, Taken, InState, Busy, UnderDecision
  <1>14. CASE RetryDone
    BY <1>14, WaitingEnds DEF RetryDone, Release, Taken, InState, Busy, UnderDecision
  <1>15. CASE RejectRun
    BY <1>15, WaitingEnds DEF RejectRun, Taken, InState, Busy, UnderDecision, Unmet
  <1>16. CASE Crash
    BY <1>16, WaitingEnds
    DEF Crash, DropContext, Release, Taken, InState, Busy, UnderDecision, Unmet
  <1>17. CASE ResumeSelect
    BY <1>17, WaitingEnds DEF ResumeSelect, Taken, InState, Busy, UnderDecision, Unmet
  <1>18. CASE ResumeReset
    BY <1>18, WaitingEnds
    DEF ResumeReset, ResetInflight, Taken, InState, Busy, UnderDecision, StartupAlone
  <1>19. CASE ResumeExecute
    BY <1>19, WaitingEnds DEF ResumeExecute, ClaimRun, Taken, InState, Busy, UnderDecision
  <1>20. ASSUME NEW s \in Steps, SkipBlocked(s) PROVE TakenInOrder'
    BY <1>20, WaitingEnds DEF SkipBlocked, Taken, InState, Busy, UnderDecision
  <1>21. ASSUME NEW s \in Steps, EnterCheckpoint(s) PROVE TakenInOrder'
    <2>1. Taken' \subseteq Taken \cup {s} /\ s \notin Unmet
      BY <1>21 DEF EnterCheckpoint, SchedulingInStep, Taken, InState, Busy, UnderDecision
    <2>2. Unmet' \subseteq Unmet
      BY <1>21, WaitingEnds DEF EnterCheckpoint
    <2>3. QED
      BY <2>1, <2>2 DEF TakenInOrder
  <1>22. ASSUME NEW s \in Steps, Dispatch(s) PROVE TakenInOrder'
    <2>1. Taken' \subseteq Taken \cup {s} /\ s \notin Unmet
      BY <1>22 DEF Dispatch, SchedulingInStep, Taken, InState, Busy, UnderDecision
    <2>2. Unmet' \subseteq Unmet
      BY <1>22, WaitingEnds DEF Dispatch
    <2>3. QED
      BY <2>1, <2>2 DEF TakenInOrder
  <1>23. ASSUME NEW s \in Steps, StartStep(s) PROVE TakenInOrder'
    BY <1>23, WaitingEnds DEF StartStep, Taken, InState, Busy, UnderDecision, Unmet
  <1>24. ASSUME NEW s \in Steps, "stop" \in Outcomes, AbortRun(s) PROVE TakenInOrder'
    BY <1>24, WaitingEnds
    DEF AbortRun, ReportAccepted, Taken, InState, Busy, UnderDecision, TasksAccounted
  <1>25. ASSUME NEW s \in Steps, AbortSkip(s) PROVE TakenInOrder'
    <2>1. Taken' \subseteq Taken
      BY <1>25
      DEF AbortSkip, Taken, InState, Busy, UnderDecision, mgr, tasks, OrderInvariant,
          ExecutorInvariant, TypeOK
    <2>2. Unmet' \subseteq Unmet \cup Successors(DependsOn, s)
      <3>1. DOMAIN DependsOn = Steps /\ \A t \in Steps : DependsOn[t] \subseteq Steps
        BY GraphAssumption DEF Graphs
      <3>2. QED
        BY <1>25, <3>1
        DEF AbortSkip, Unmet, Successors, Predecessors, OrderInvariant, ExecutorInvariant,
            TypeOK
    <2>3. Successors(DependsOn, s) \cap Taken = {}
      BY <1>25 DEF AbortSkip, TeardownInStep, OrderInvariant
    <2>4. QED
      BY <2>1, <2>2, <2>3 DEF TakenInOrder, OrderInvariant
  <1>26. ASSUME NEW s \in Steps, CancelStep(s) PROVE TakenInOrder'
    <2>1. Taken' \subseteq Taken
      BY <1>26
      DEF CancelStep, Taken, InState, Busy, UnderDecision, mgr, tasks, OrderInvariant,
          ExecutorInvariant, TypeOK
    <2>2. Unmet' \subseteq Unmet \cup Successors(DependsOn, s)
      <3>1. DOMAIN DependsOn = Steps /\ \A t \in Steps : DependsOn[t] \subseteq Steps
        BY GraphAssumption DEF Graphs
      <3>2. QED
        BY <1>26, <3>1
        DEF CancelStep, Unmet, Successors, Predecessors, OrderInvariant, ExecutorInvariant,
            TypeOK
    <2>3. Successors(DependsOn, s) \cap Taken = {}
      BY <1>26 DEF CancelStep, TeardownInStep, OrderInvariant
    <2>4. QED
      BY <2>1, <2>2, <2>3 DEF TakenInOrder, OrderInvariant
  <1>27. ASSUME NEW s \in Steps, RetryReset(s) PROVE TakenInOrder'
    BY <1>27, WaitingEnds DEF RetryReset, Taken, InState, Busy, UnderDecision
  <1>28. ASSUME NEW s \in Steps, ApproveStep(s) PROVE TakenInOrder'
    <2>1. Taken' \subseteq Taken
      BY <1>28
      DEF ApproveStep, Taken, InState, Busy, UnderDecision
    <2>2. Unmet' \subseteq Unmet
      <3>1. \A t \in Steps : DependsOn[t] \subseteq Steps
        BY GraphAssumption DEF Graphs
      <3>2. \A d \in Steps : stepState[d] = "completed" => stepState'[d] = "completed"
        BY <1>28 DEF ApproveStep
      <3>3. QED
        BY <3>1, <3>2 DEF Unmet
    <2>3. QED
      BY <2>1, <2>2
  <1>29. ASSUME NEW s \in Steps, RejectStep(s) PROVE TakenInOrder'
    <2>1. Taken' \subseteq Taken
      BY <1>29
      DEF RejectStep, Taken, InState, Busy, UnderDecision
    <2>2. Unmet' \subseteq Unmet
      <3>1. \A t \in Steps : DependsOn[t] \subseteq Steps
        BY GraphAssumption DEF Graphs
      <3>2. \A d \in Steps : stepState[d] = "completed" => stepState'[d] = "completed"
        BY <1>29 DEF RejectStep, DecisionInStep, UnderDecision
      <3>3. QED
        BY <3>1, <3>2 DEF Unmet
    <2>3. QED
      BY <2>1, <2>2
  <1>30. ASSUME NEW s \in Steps, RejectDependent(s) PROVE TakenInOrder'
    <2>1. Taken' \subseteq Taken
      BY <1>30
      DEF RejectDependent, Taken, InState, Busy, UnderDecision
    <2>2. Unmet' \subseteq Unmet
      <3>1. \A t \in Steps : DependsOn[t] \subseteq Steps
        BY GraphAssumption DEF Graphs
      <3>2. \A d \in Steps : stepState[d] = "completed" => stepState'[d] = "completed"
        BY <1>30, DecisionKnowsRows DEF RejectDependent, Taken, InState
      <3>3. QED
        BY <3>1, <3>2 DEF Unmet
    <2>3. QED
      BY <2>1, <2>2
  <1>31. ASSUME NEW s \in Steps, NEW result \in Outcomes \ {"stop"}, CompleteStep(s, result)
         PROVE  TakenInOrder'
    BY <1>31, WaitingEnds, EnvAssumption
    DEF CompleteStep, ReportAccepted, Taken, InState, Busy, UnderDecision,
        TasksAccounted
  <1>32. ASSUME NEW s \in Steps, NEW request \in {"approve", "reject"}, RequireAwaiting(request, s)
         PROVE  TakenInOrder'
    BY <1>32, WaitingEnds
    DEF RequireAwaiting, UserMayAct, ManagerLockFree, IsAwaiting, Taken, InState, Busy,
        UnderDecision, Unmet
  <1>33. CASE UNCHANGED vars
    BY <1>33, WaitingEnds DEF vars, Taken, InState, Busy, UnderDecision, Unmet
  <1>34. QED
    BY <1>1, <1>2, <1>3, <1>4, <1>5, <1>6, <1>7, <1>8, <1>9, <1>10, <1>11, <1>12,
       <1>13, <1>14, <1>15, <1>16, <1>17, <1>18, <1>19, <1>20, <1>21, <1>22, <1>23,
       <1>24, <1>25, <1>26, <1>27, <1>28, <1>29, <1>30, <1>31, <1>32, <1>33
    DEF Next, Worker, Scheduler, Manager, Startup, User, Wait

\* A handler writes steps it has read from the rows.
LEMMA OrderTodo ==
    Orderly /\ OrderInvariant /\ [Next]_vars => TodoHasRows'
  <1> SUFFICES ASSUME Orderly, OrderInvariant, [Next]_vars PROVE TodoHasRows'
    OBVIOUS
  <1> USE DEF LockFree, Live, db, tasks, calls, handler, mgr, proc, OrderInvariant,
              ExecutorInvariant, TypeOK, TodoHasRows, RowsTogether, NoRows
  <1>1. CASE StartRun
    BY <1>1 DEF StartRun, UserMayAct
  <1>2. CASE InsertSteps
    BY <1>2 DEF InsertSteps
  <1>3. CASE ExecuteRun
    BY <1>3 DEF ExecuteRun, ClaimRun
  <1>4. CASE ScheduleReady
    BY <1>4 DEF ScheduleReady, AfterSkip, ReadySteps, ReadyCheckpoints, Pending, InState
  <1>5. CASE SkipBlockedDone
    BY <1>5 DEF SkipBlockedDone, AfterSkip, ReadySteps, ReadyCheckpoints, Pending, InState
  <1>6. CASE Finish
    BY <1>6 DEF Finish, DropContext, Release
  <1>7. CASE ParkRun
    BY <1>7 DEF ParkRun
  <1>8. CASE CheckpointsDone
    BY <1>8 DEF CheckpointsDone, ReadySteps, Pending, InState
  <1>9. CASE DispatchDone
    BY <1>9 DEF DispatchDone, MustPause, DropContext, Release
  <1>10. CASE AbortDone
    BY <1>10 DEF AbortDone, DropContext, Release
  <1>11. CASE CancelRun
    BY <1>11 DEF CancelRun, UserMayAct, NonTerminal, InState
  <1>12. CASE CancelDone
    BY <1>12 DEF CancelDone, DropContext, Release
  <1>13. CASE RetryRun
    BY <1>13, ClosuresAreSteps DEF RetryRun, Retryable, UserMayAct, ErrorClosure, InState
  <1>14. CASE RetryDone
    BY <1>14 DEF RetryDone, Release
  <1>15. CASE RejectRun
    BY <1>15 DEF RejectRun
  <1>16. CASE Crash
    BY <1>16 DEF Crash, DropContext, Release
  <1>17. CASE ResumeSelect
    BY <1>17 DEF ResumeSelect
  <1>18. CASE ResumeReset
    BY <1>18 DEF ResumeReset, ResetInflight
  <1>19. CASE ResumeExecute
    BY <1>19 DEF ResumeExecute, ClaimRun
  <1>20. ASSUME NEW s \in Steps, SkipBlocked(s) PROVE TodoHasRows'
    BY <1>20 DEF SkipBlocked
  <1>21. ASSUME NEW s \in Steps, EnterCheckpoint(s) PROVE TodoHasRows'
    BY <1>21 DEF EnterCheckpoint
  <1>22. ASSUME NEW s \in Steps, Dispatch(s) PROVE TodoHasRows'
    BY <1>22 DEF Dispatch
  <1>23. ASSUME NEW s \in Steps, StartStep(s) PROVE TodoHasRows'
    BY <1>23 DEF StartStep
  <1>24. ASSUME NEW s \in Steps, "stop" \in Outcomes, AbortRun(s) PROVE TodoHasRows'
    BY <1>24 DEF AbortRun, ReportAccepted, NonTerminal, InState
  <1>25. ASSUME NEW s \in Steps, AbortSkip(s) PROVE TodoHasRows'
    BY <1>25 DEF AbortSkip
  <1>26. ASSUME NEW s \in Steps, CancelStep(s) PROVE TodoHasRows'
    BY <1>26 DEF CancelStep
  <1>27. ASSUME NEW s \in Steps, RetryReset(s) PROVE TodoHasRows'
    BY <1>27 DEF RetryReset
  <1>28. ASSUME NEW s \in Steps, ApproveStep(s) PROVE TodoHasRows'
    BY <1>28 DEF ApproveStep
  <1>29. ASSUME NEW s \in Steps, RejectStep(s) PROVE TodoHasRows'
    BY <1>29 DEF RejectStep
  <1>30. ASSUME NEW s \in Steps, RejectDependent(s) PROVE TodoHasRows'
    BY <1>30 DEF RejectDependent
  <1>31. ASSUME NEW s \in Steps, NEW result \in Outcomes \ {"stop"}, CompleteStep(s, result)
         PROVE  TodoHasRows'
    BY <1>31, EnvAssumption DEF CompleteStep, ReportAccepted
  <1>32. ASSUME NEW s \in Steps, NEW request \in {"approve", "reject"}, RequireAwaiting(request, s)
         PROVE  TodoHasRows'
    BY <1>32 DEF RequireAwaiting, UserMayAct, ManagerLockFree, IsAwaiting
  <1>33. CASE UNCHANGED vars
    BY <1>33 DEF vars
  <1>34. QED
    BY <1>1, <1>2, <1>3, <1>4, <1>5, <1>6, <1>7, <1>8, <1>9, <1>10, <1>11, <1>12,
       <1>13, <1>14, <1>15, <1>16, <1>17, <1>18, <1>19, <1>20, <1>21, <1>22, <1>23,
       <1>24, <1>25, <1>26, <1>27, <1>28, <1>29, <1>30, <1>31, <1>32, <1>33
    DEF Next, Worker, Scheduler, Manager, Startup, User, Wait

\* _schedule_ready decides on a snapshot; the manager's writes that may fall
\* after it change neither a ready step nor its dependencies.
LEMMA OrderScheduling ==
    Orderly /\ OrderInvariant /\ [Next]_vars => SchedulingInStep'
  <1> SUFFICES ASSUME Orderly, OrderInvariant, [Next]_vars PROVE SchedulingInStep'
    OBVIOUS
  <1> USE DEF LockFree, Live, db, tasks, calls, handler, mgr, proc, OrderInvariant,
              ExecutorInvariant, TypeOK, SchedulingInStep, InState
  <1>1. CASE StartRun
    BY <1>1, WaitingEnds DEF StartRun, UserMayAct
  <1>2. CASE InsertSteps
    BY <1>2, WaitingEnds DEF InsertSteps, StartupAlone
  <1>3. CASE ExecuteRun
    BY <1>3, WaitingEnds DEF ExecuteRun, ClaimRun
  <1>4. CASE ScheduleReady
    BY <1>4, WaitingEnds
    DEF ScheduleReady, AfterSkip, ReadySteps, ReadyCheckpoints, Pending, Unmet
  <1>5. CASE SkipBlockedDone
    BY <1>5, WaitingEnds
    DEF SkipBlockedDone, AfterSkip, ReadySteps, ReadyCheckpoints, Pending, Unmet
  <1>6. CASE Finish
    BY <1>6, WaitingEnds DEF Finish, DropContext, Release
  <1>7. CASE ParkRun
    BY <1>7, WaitingEnds DEF ParkRun
  <1>8. CASE CheckpointsDone
    BY <1>8, WaitingEnds DEF CheckpointsDone, ReadySteps, Pending, Unmet
  <1>9. CASE DispatchDone
    BY <1>9, WaitingEnds DEF DispatchDone, MustPause, DropContext, Release
  <1>10. CASE AbortDone
    BY <1>10, WaitingEnds DEF AbortDone, DropContext, Release
  <1>11. CASE CancelRun
    BY <1>11, WaitingEnds DEF CancelRun, UserMayAct
  <1>12. CASE CancelDone
    BY <1>12, WaitingEnds DEF CancelDone, DropContext, Release
  <1>13. CASE RetryRun
    BY <1>13, WaitingEnds DEF RetryRun, Retryable, UserMayAct
  <1>14. CASE RetryDone
    BY <1>14, WaitingEnds DEF RetryDone, Release
  <1>15. CASE RejectRun
    BY <1>15, WaitingEnds DEF RejectRun
  <1>16. CASE Crash
    BY <1>16, WaitingEnds DEF Crash, DropContext, Release
  <1>17. CASE ResumeSelect
    BY <1>17, WaitingEnds DEF ResumeSelect
  <1>18. CASE ResumeReset
    BY <1>18, WaitingEnds DEF ResumeReset, ResetInflight, StartupAlone
  <1>19. CASE ResumeExecute
    BY <1>19, WaitingEnds DEF ResumeExecute, ClaimRun
  <1>20. ASSUME NEW s \in Steps, SkipBlocked(s) PROVE SchedulingInStep'
    BY <1>20, WaitingEnds DEF SkipBlocked, Blocked, Pending, AllTerminal
  <1>21. ASSUME NEW s \in Steps, EnterCheckpoint(s) PROVE SchedulingInStep'
    BY <1>21, WaitingEnds DEF EnterCheckpoint
  <1>22. ASSUME NEW s \in Steps, Dispatch(s) PROVE SchedulingInStep'
    BY <1>22, WaitingEnds DEF Dispatch
  <1>23. ASSUME NEW s \in Steps, StartStep(s) PROVE SchedulingInStep'
    BY <1>23, WaitingEnds DEF StartStep
  <1>24. ASSUME NEW s \in Steps, "stop" \in Outcomes, AbortRun(s) PROVE SchedulingInStep'
    BY <1>24, WaitingEnds DEF AbortRun, ReportAccepted
  <1>25. ASSUME NEW s \in Steps, AbortSkip(s) PROVE SchedulingInStep'
    BY <1>25, WaitingEnds DEF AbortSkip
  <1>26. ASSUME NEW s \in Steps, CancelStep(s) PROVE SchedulingInStep'
    BY <1>26, WaitingEnds DEF CancelStep
  <1>27. ASSUME NEW s \in Steps, RetryReset(s) PROVE SchedulingInStep'
    BY <1>27, WaitingEnds DEF RetryReset
  <1>28. ASSUME NEW s \in Steps, ApproveStep(s) PROVE SchedulingInStep'
    BY <1>28, WaitingEnds
    DEF ApproveStep, UnderDecision, DecisionInStep, GivenUp, Closed,
        HandlerOwnsContext, AllTerminal, NonTerminal
  <1>29. ASSUME NEW s \in Steps, RejectStep(s) PROVE SchedulingInStep'
    BY <1>29, WaitingEnds
    DEF RejectStep, UnderDecision, DecisionInStep, GivenUp, Closed, HandlerOwnsContext,
        AllTerminal, NonTerminal
  <1>30. ASSUME NEW s \in Steps, RejectDependent(s) PROVE SchedulingInStep'
    BY <1>30, WaitingEnds, DecisionKnowsRows
    DEF RejectDependent, Taken, AllTerminal, NonTerminal
  <1>31. ASSUME NEW s \in Steps, NEW result \in Outcomes \ {"stop"}, CompleteStep(s, result)
         PROVE  SchedulingInStep'
    BY <1>31, WaitingEnds DEF CompleteStep, ReportAccepted
  <1>32. ASSUME NEW s \in Steps, NEW request \in {"approve", "reject"}, RequireAwaiting(request, s)
         PROVE  SchedulingInStep'
    BY <1>32, WaitingEnds DEF RequireAwaiting, UserMayAct, ManagerLockFree, IsAwaiting
  <1>33. CASE UNCHANGED vars
    BY <1>33, WaitingEnds DEF vars
  <1>34. QED
    BY <1>1, <1>2, <1>3, <1>4, <1>5, <1>6, <1>7, <1>8, <1>9, <1>10, <1>11, <1>12,
       <1>13, <1>14, <1>15, <1>16, <1>17, <1>18, <1>19, <1>20, <1>21, <1>22, <1>23,
       <1>24, <1>25, <1>26, <1>27, <1>28, <1>29, <1>30, <1>31, <1>32, <1>33
    DEF Next, Worker, Scheduler, Manager, Startup, User, Wait

\* Nobody takes up a step while _abort_run or cancel_run works through the rows.
LEMMA OrderTeardown ==
    Orderly /\ OrderInvariant /\ [Next]_vars => TeardownInStep'
  <1> SUFFICES ASSUME Orderly, OrderInvariant, [Next]_vars PROVE TeardownInStep'
    OBVIOUS
  <1> USE DEF LockFree, Live, db, tasks, calls, handler, mgr, proc, OrderInvariant,
              ExecutorInvariant, TypeOK, TeardownInStep
  <1>1. CASE StartRun
    BY <1>1 DEF StartRun, UserMayAct, Taken, InState, Busy, UnderDecision
  <1>2. CASE InsertSteps
    BY <1>2
    DEF InsertSteps, StartupAlone, Taken, InState, Busy, UnderDecision, DecisionInStep,
        NoRows
  <1>3. CASE ExecuteRun
    BY <1>3 DEF ExecuteRun, ClaimRun
  <1>4. CASE ScheduleReady
    BY <1>4 DEF ScheduleReady, AfterSkip
  <1>5. CASE SkipBlockedDone
    BY <1>5 DEF SkipBlockedDone, AfterSkip
  <1>6. CASE Finish
    BY <1>6 DEF Finish, DropContext, Release
  <1>7. CASE ParkRun
    BY <1>7 DEF ParkRun
  <1>8. CASE CheckpointsDone
    BY <1>8 DEF CheckpointsDone
  <1>9. CASE DispatchDone
    BY <1>9 DEF DispatchDone, MustPause, DropContext, Release
  <1>10. CASE AbortDone
    BY <1>10 DEF AbortDone, DropContext, Release
  <1>11. CASE CancelRun
    <2>1. \A t \in Steps : stepState'[t] /= "completed" => Successors(DependsOn, t) \subseteq Unmet'
      <3>1. DOMAIN DependsOn = Steps
        BY GraphAssumption DEF Graphs
      <3>2. QED
        BY <3>1 DEF Successors, Predecessors, Unmet
    <2>2. Taken' \cap Unmet' = {}
      BY OrderTaken DEF TakenInOrder
    <2>3. pc' \in {"abort", "cancel"} => \A t \in todo' : t \in Steps /\ stepState'[t] /= "completed"
      BY <1>11 DEF CancelRun, NonTerminal, InState
    <2>4. QED
      BY <1>11, <2>1, <2>2, <2>3 DEF CancelRun
  <1>12. CASE CancelDone
    BY <1>12 DEF CancelDone, DropContext, Release
  <1>13. CASE RetryRun
    BY <1>13 DEF RetryRun, Retryable, UserMayAct
  <1>14. CASE RetryDone
    BY <1>14 DEF RetryDone, Release
  <1>15. CASE RejectRun
    BY <1>15 DEF RejectRun, Taken, InState, Busy, UnderDecision
  <1>16. CASE Crash
    BY <1>16 DEF Crash, DropContext, Release
  <1>17. CASE ResumeSelect
    BY <1>17 DEF ResumeSelect, Taken, InState, Busy, UnderDecision
  <1>18. CASE ResumeReset
    BY <1>18 DEF ResumeReset, ResetInflight, StartupAlone
  <1>19. CASE ResumeExecute
    BY <1>19 DEF ResumeExecute, ClaimRun
  <1>20. ASSUME NEW s \in Steps, SkipBlocked(s) PROVE TeardownInStep'
    BY <1>20 DEF SkipBlocked
  <1>21. ASSUME NEW s \in Steps, EnterCheckpoint(s) PROVE TeardownInStep'
    BY <1>21 DEF EnterCheckpoint
  <1>22. ASSUME NEW s \in Steps, Dispatch(s) PROVE TeardownInStep'
    BY <1>22 DEF Dispatch
  <1>23. ASSUME NEW s \in Steps, StartStep(s) PROVE TeardownInStep'
    BY <1>23 DEF StartStep, Taken, InState, Busy, UnderDecision
  <1>24. ASSUME NEW s \in Steps, "stop" \in Outcomes, AbortRun(s) PROVE TeardownInStep'
    <2>1. \A t \in Steps : stepState'[t] /= "completed" => Successors(DependsOn, t) \subseteq Unmet'
      <3>1. DOMAIN DependsOn = Steps
        BY GraphAssumption DEF Graphs
      <3>2. QED
        BY <3>1 DEF Successors, Predecessors, Unmet
    <2>2. Taken' \cap Unmet' = {}
      BY OrderTaken DEF TakenInOrder
    <2>3. pc' \in {"abort", "cancel"} => \A t \in todo' : t \in Steps /\ stepState'[t] /= "completed"
      BY <1>24 DEF AbortRun, NonTerminal, InState
    <2>4. QED
      BY <1>24, <2>1, <2>2, <2>3 DEF AbortRun
  <1>25. ASSUME NEW s \in Steps, AbortSkip(s) PROVE TeardownInStep'
    BY <1>25 DEF AbortSkip, Taken, InState, Busy, UnderDecision
  <1>26. ASSUME NEW s \in Steps, CancelStep(s) PROVE TeardownInStep'
    BY <1>26 DEF CancelStep, Taken, InState, Busy, UnderDecision
  <1>27. ASSUME NEW s \in Steps, RetryReset(s) PROVE TeardownInStep'
    BY <1>27 DEF RetryReset
  <1>28. ASSUME NEW s \in Steps, ApproveStep(s) PROVE TeardownInStep'
    BY <1>28 DEF ApproveStep, Taken, InState, Busy, UnderDecision
  <1>29. ASSUME NEW s \in Steps, RejectStep(s) PROVE TeardownInStep'
    BY <1>29 DEF RejectStep, Taken, InState, Busy, UnderDecision
  <1>30. ASSUME NEW s \in Steps, RejectDependent(s) PROVE TeardownInStep'
    BY <1>30 DEF RejectDependent, Taken, InState, Busy, UnderDecision
  <1>31. ASSUME NEW s \in Steps, NEW result \in Outcomes \ {"stop"}, CompleteStep(s, result)
         PROVE  TeardownInStep'
    BY <1>31 DEF CompleteStep, ReportAccepted
  <1>32. ASSUME NEW s \in Steps, NEW request \in {"approve", "reject"}, RequireAwaiting(request, s)
         PROVE  TeardownInStep'
    BY <1>32
    DEF RequireAwaiting, UserMayAct, ManagerLockFree, IsAwaiting, Taken, InState, Busy,
        UnderDecision
  <1>33. CASE UNCHANGED vars
    BY <1>33 DEF vars, Taken, InState, Busy, UnderDecision
  <1>34. QED
    BY <1>1, <1>2, <1>3, <1>4, <1>5, <1>6, <1>7, <1>8, <1>9, <1>10, <1>11, <1>12,
       <1>13, <1>14, <1>15, <1>16, <1>17, <1>18, <1>19, <1>20, <1>21, <1>22, <1>23,
       <1>24, <1>25, <1>26, <1>27, <1>28, <1>29, <1>30, <1>31, <1>32, <1>33
    DEF Next, Worker, Scheduler, Manager, Startup, User, Wait

\* retry_run finds nothing running or parked and no decision under way, and the
\* manager's writes that may fall into it leave the steps it resets waiting.
LEMMA OrderRetry ==
    Orderly /\ OrderInvariant /\ [Next]_vars => RetryInStep'
  <1> SUFFICES ASSUME Orderly, OrderInvariant, [Next]_vars PROVE RetryInStep'
    OBVIOUS
  <1> USE DEF LockFree, Live, db, tasks, calls, handler, mgr, proc, OrderInvariant,
              ExecutorInvariant, TypeOK, RetryInStep, InState, Busy, UnderDecision
  <1>1. CASE StartRun
    BY <1>1 DEF StartRun, UserMayAct, Unmet
  <1>2. CASE InsertSteps
    BY <1>2 DEF InsertSteps, StartupAlone, NoRows
  <1>3. CASE ExecuteRun
    BY <1>3 DEF ExecuteRun, ClaimRun
  <1>4. CASE ScheduleReady
    BY <1>4 DEF ScheduleReady, AfterSkip
  <1>5. CASE SkipBlockedDone
    BY <1>5 DEF SkipBlockedDone, AfterSkip
  <1>6. CASE Finish
    BY <1>6 DEF Finish, DropContext, Release
  <1>7. CASE ParkRun
    BY <1>7 DEF ParkRun
  <1>8. CASE CheckpointsDone
    BY <1>8 DEF CheckpointsDone
  <1>9. CASE DispatchDone
    BY <1>9 DEF DispatchDone, MustPause, DropContext, Release
  <1>10. CASE AbortDone
    BY <1>10 DEF AbortDone, DropContext, Release
  <1>11. CASE CancelRun
    BY <1>11 DEF CancelRun, UserMayAct
  <1>12. CASE CancelDone
    BY <1>12 DEF CancelDone, DropContext, Release
  <1>13. CASE RetryRun
    <2>1. MaxRetries > 0 /\ runState = "failed" /\ ~Live /\ pc = "idle"
      BY <1>13, BoundsAssumption DEF RetryRun, Retryable
    <2>2. Busy = {} /\ InState(stepState, {"running", "awaiting_approval"}) = {}
      BY <2>1 DEF FailedRunQuiet
    <2>3. UnderDecision = {}
      BY <2>1, <2>2 DEF DecisionInStep, GivenUp, Closed
    <2>4. \A s \in ErrorClosure(stepState) : stepState[s] = "failed" \/ s \in Unmet
      BY ClosureWaits
    <2>5. \A s \in Unmet : stepState[s] /= "completed"
      BY DEF TakenInOrder, Taken, Unmet
    <2>6. /\ UNCHANGED <<runState, stepState, queued, running, mgrOp, mgrTodo>>
          /\ todo' = ErrorClosure(stepState)
      BY <1>13 DEF RetryRun
    <2>7. Busy' = Busy /\ Unmet' = Unmet /\ UnderDecision' = UnderDecision
      BY <2>6 DEF Unmet
    <2>8. QED
      BY <2>1, <2>2, <2>3, <2>4, <2>5, <2>6, <2>7
  <1>14. CASE RetryDone
    BY <1>14 DEF RetryDone, Release
  <1>15. CASE RejectRun
    BY <1>15 DEF RejectRun, Unmet
  <1>16. CASE Crash
    BY <1>16 DEF Crash, DropContext, Release
  <1>17. CASE ResumeSelect
    BY <1>17 DEF ResumeSelect, Unmet
  <1>18. CASE ResumeReset
    BY <1>18 DEF ResumeReset, ResetInflight, StartupAlone
  <1>19. CASE ResumeExecute
    BY <1>19 DEF ResumeExecute, ClaimRun
  <1>20. ASSUME NEW s \in Steps, SkipBlocked(s) PROVE RetryInStep'
    BY <1>20 DEF SkipBlocked
  <1>21. ASSUME NEW s \in Steps, EnterCheckpoint(s) PROVE RetryInStep'
    BY <1>21 DEF EnterCheckpoint
  <1>22. ASSUME NEW s \in Steps, Dispatch(s) PROVE RetryInStep'
    BY <1>22 DEF Dispatch
  <1>23. ASSUME NEW s \in Steps, StartStep(s) PROVE RetryInStep'
    BY <1>23 DEF StartStep, Unmet
  <1>24. ASSUME NEW s \in Steps, "stop" \in Outcomes, AbortRun(s) PROVE RetryInStep'
    BY <1>24 DEF AbortRun, ReportAccepted
  <1>25. ASSUME NEW s \in Steps, AbortSkip(s) PROVE RetryInStep'
    BY <1>25 DEF AbortSkip
  <1>26. ASSUME NEW s \in Steps, CancelStep(s) PROVE RetryInStep'
    BY <1>26 DEF CancelStep
  <1>27. ASSUME NEW s \in Steps, RetryReset(s) PROVE RetryInStep'
    <2>1. /\ pc = "retry" /\ todo' = todo \ {s}
          /\ stepState' = [stepState EXCEPT ![s] = "pending"]
          /\ UNCHANGED <<runState, queued, running, mgrOp, mgrTodo>>
      BY <1>27 DEF RetryReset
    <2>2. Unmet \subseteq Unmet'
      BY <1>27, <2>1 DEF Unmet
    <2>3. QED
      BY <2>1, <2>2
  <1>28. ASSUME NEW s \in Steps, ApproveStep(s) PROVE RetryInStep'
    BY <1>28 DEF ApproveStep
  <1>29. ASSUME NEW s \in Steps, RejectStep(s) PROVE RetryInStep'
    BY <1>29 DEF RejectStep
  <1>30. ASSUME NEW s \in Steps, RejectDependent(s) PROVE RetryInStep'
    BY <1>30, DecisionKnowsRows DEF RejectDependent, Taken, Unmet
  <1>31. ASSUME NEW s \in Steps, NEW result \in Outcomes \ {"stop"}, CompleteStep(s, result)
         PROVE  RetryInStep'
    BY <1>31 DEF CompleteStep, ReportAccepted
  <1>32. ASSUME NEW s \in Steps, NEW request \in {"approve", "reject"}, RequireAwaiting(request, s)
         PROVE  RetryInStep'
    BY <1>32 DEF RequireAwaiting, UserMayAct, ManagerLockFree, IsAwaiting, Unmet
  <1>33. CASE UNCHANGED vars
    BY <1>33 DEF vars, Unmet
  <1>34. QED
    BY <1>1, <1>2, <1>3, <1>4, <1>5, <1>6, <1>7, <1>8, <1>9, <1>10, <1>11, <1>12,
       <1>13, <1>14, <1>15, <1>16, <1>17, <1>18, <1>19, <1>20, <1>21, <1>22, <1>23,
       <1>24, <1>25, <1>26, <1>27, <1>28, <1>29, <1>30, <1>31, <1>32, <1>33
    DEF Next, Worker, Scheduler, Manager, Startup, User, Wait

\* Between a request's look at its checkpoint and its write, only the teardown
\* of the run changes the checkpoint.
LEMMA OrderDecision ==
    Orderly /\ OrderInvariant /\ [Next]_vars => DecisionInStep'
  <1> SUFFICES ASSUME Orderly, OrderInvariant, [Next]_vars PROVE DecisionInStep'
    OBVIOUS
  <1> USE DEF LockFree, Live, db, tasks, calls, handler, mgr, proc, OrderInvariant,
              ExecutorInvariant, TypeOK, DecisionInStep, UnderDecision, GivenUpKept
  <1>1. CASE StartRun
    BY <1>1, GivenUpStays DEF StartRun, UserMayAct
  <1>2. CASE InsertSteps
    BY <1>2, GivenUpStays DEF InsertSteps, NoRows, StartupAlone
  <1>3. CASE ExecuteRun
    BY <1>3, GivenUpStays DEF ExecuteRun, ClaimRun
  <1>4. CASE ScheduleReady
    BY <1>4, GivenUpStays DEF ScheduleReady, AfterSkip
  <1>5. CASE SkipBlockedDone
    BY <1>5, GivenUpStays DEF SkipBlockedDone, AfterSkip
  <1>6. CASE Finish
    BY <1>6, GivenUpStays DEF Finish, DropContext, Release
  <1>7. CASE ParkRun
    BY <1>7, GivenUpStays DEF ParkRun
  <1>8. CASE CheckpointsDone
    BY <1>8, GivenUpStays DEF CheckpointsDone
  <1>9. CASE DispatchDone
    BY <1>9, GivenUpStays DEF DispatchDone, MustPause, DropContext, Release
  <1>10. CASE AbortDone
    BY <1>10, GivenUpStays DEF AbortDone, DropContext, Release
  <1>11. CASE CancelRun
    BY <1>11, GivenUpStays DEF CancelRun, UserMayAct
  <1>12. CASE CancelDone
    BY <1>12, GivenUpStays DEF CancelDone, DropContext, Release
  <1>13. CASE RetryRun
    BY <1>13, GivenUpStays DEF RetryRun, Retryable, UserMayAct
  <1>14. CASE RetryDone
    BY <1>14, GivenUpStays DEF RetryDone, Release
  <1>15. CASE RejectRun
    BY <1>15, GivenUpStays DEF RejectRun
  <1>16. CASE Crash
    BY <1>16, GivenUpStays DEF Crash, DropContext, Release
  <1>17. CASE ResumeSelect
    BY <1>17, GivenUpStays DEF ResumeSelect
  <1>18. CASE ResumeReset
    BY <1>18, GivenUpStays DEF ResumeReset, ResetInflight, StartupAlone
  <1>19. CASE ResumeExecute
    BY <1>19, GivenUpStays DEF ResumeExecute, ClaimRun
  <1>20. ASSUME NEW s \in Steps, SkipBlocked(s) PROVE DecisionInStep'
    BY <1>20, GivenUpStays DEF SkipBlocked, Blocked, Pending, InState, SchedulingInStep
  <1>21. ASSUME NEW s \in Steps, EnterCheckpoint(s) PROVE DecisionInStep'
    BY <1>21, GivenUpStays DEF EnterCheckpoint, SchedulingInStep
  <1>22. ASSUME NEW s \in Steps, Dispatch(s) PROVE DecisionInStep'
    BY <1>22, GivenUpStays DEF Dispatch, SchedulingInStep
  <1>23. ASSUME NEW s \in Steps, StartStep(s) PROVE DecisionInStep'
    BY <1>23, GivenUpStays DEF StartStep
  <1>24. ASSUME NEW s \in Steps, "stop" \in Outcomes, AbortRun(s) PROVE DecisionInStep'
    BY <1>24, GivenUpStays
    DEF AbortRun, ReportAccepted, TasksAccounted, Busy, InState, GivenUp, Closed
  <1>25. ASSUME NEW s \in Steps, AbortSkip(s) PROVE DecisionInStep'
    BY <1>25, GivenUpStays DEF AbortSkip, GivenUp
  <1>26. ASSUME NEW s \in Steps, CancelStep(s) PROVE DecisionInStep'
    BY <1>26, GivenUpStays DEF CancelStep, GivenUp
  <1>27. ASSUME NEW s \in Steps, RetryReset(s) PROVE DecisionInStep'
    BY <1>27, GivenUpStays DEF RetryReset, RetryInStep
  <1>28. ASSUME NEW s \in Steps, ApproveStep(s) PROVE DecisionInStep'
    BY <1>28, GivenUpStays DEF ApproveStep
  <1>29. ASSUME NEW s \in Steps, RejectStep(s) PROVE DecisionInStep'
    BY <1>29, GivenUpStays DEF RejectStep
  <1>30. ASSUME NEW s \in Steps, RejectDependent(s) PROVE DecisionInStep'
    BY <1>30, GivenUpStays DEF RejectDependent
  <1>31. ASSUME NEW s \in Steps, NEW result \in Outcomes \ {"stop"}, CompleteStep(s, result)
         PROVE  DecisionInStep'
    BY <1>31, GivenUpStays
    DEF CompleteStep, ReportAccepted, TasksAccounted, Busy, InState, GivenUp, Closed
  <1>32. ASSUME NEW s \in Steps, NEW request \in {"approve", "reject"}, RequireAwaiting(request, s)
         PROVE  DecisionInStep'
    BY <1>32, GivenUpStays
    DEF RequireAwaiting, UserMayAct, ManagerLockFree, IsAwaiting, Orderly
  <1>33. CASE UNCHANGED vars
    BY <1>33, GivenUpStays DEF vars
  <1>34. QED
    BY <1>1, <1>2, <1>3, <1>4, <1>5, <1>6, <1>7, <1>8, <1>9, <1>10, <1>11, <1>12,
       <1>13, <1>14, <1>15, <1>16, <1>17, <1>18, <1>19, <1>20, <1>21, <1>22, <1>23,
       <1>24, <1>25, <1>26, <1>27, <1>28, <1>29, <1>30, <1>31, <1>32, <1>33
    DEF Next, Worker, Scheduler, Manager, Startup, User, Wait

\* The checkpoint that reject has cancelled is not rewritten while its
\* dependents are skipped.
LEMMA OrderRejection ==
    Orderly /\ OrderInvariant /\ [Next]_vars => RejectionInStep'
  <1> SUFFICES ASSUME Orderly, OrderInvariant, [Next]_vars PROVE RejectionInStep'
    OBVIOUS
  <1> USE DEF LockFree, Live, db, tasks, calls, handler, mgr, proc, OrderInvariant,
              ExecutorInvariant, TypeOK
  <1> DEFINE Rejected(r) == stepState[r] \in {"cancelled", "skipped"}
             Safe(r) == r \notin Unmet \/ GivenUp
             Kept == /\ mgrOp' = "dependents" => mgrOp = "dependents" /\ mgrTodo' \subseteq mgrTodo
                     /\ \A r \in Steps : mgrOp = "dependents" /\ Rejected(r) /\ Safe(r) => Rejected(r)'
  <1>a. \A r \in Steps : Safe(r) /\ mgrOp' = "dependents" => Safe(r)'
    BY GivenUpStays, WaitingEnds DEF GivenUpKept, GivenUp
  <1>b. Kept => RejectionInStep'
    <2> SUFFICES ASSUME Kept, mgrOp' = "dependents" PROVE RejectionInStep'
      BY DEF RejectionInStep
    <2>1. PICK r \in Steps : Rejected(r) /\ mgrTodo \subseteq DependentsOf(DependsOn, r) /\ Safe(r)
      BY DEF RejectionInStep
    <2>2. Rejected(r)' /\ mgrTodo' \subseteq DependentsOf(DependsOn, r) /\ Safe(r)'
      BY <1>a, <2>1
    <2>3. QED
      BY <2>2 DEF RejectionInStep
  <1>1. CASE StartRun
    BY <1>1, <1>b DEF StartRun, UserMayAct
  <1>2. CASE InsertSteps
    BY <1>2, <1>b DEF InsertSteps, NoRows, StartupAlone
  <1>3. CASE ExecuteRun
    BY <1>3, <1>b DEF ExecuteRun, ClaimRun
  <1>4. CASE ScheduleReady
    BY <1>4, <1>b DEF ScheduleReady, AfterSkip
  <1>5. CASE SkipBlockedDone
    BY <1>5, <1>b DEF SkipBlockedDone, AfterSkip
  <1>6. CASE Finish
    BY <1>6, <1>b DEF Finish, DropContext, Release
  <1>7. CASE ParkRun
    BY <1>7, <1>b DEF ParkRun
  <1>8. CASE CheckpointsDone
    BY <1>8, <1>b DEF CheckpointsDone
  <1>9. CASE DispatchDone
    BY <1>9, <1>b DEF DispatchDone, MustPause, DropContext, Release
  <1>10. CASE AbortDone
    BY <1>10, <1>b DEF AbortDone, DropContext, Release
  <1>11. CASE CancelRun
    BY <1>11, <1>b DEF CancelRun, UserMayAct
  <1>12. CASE CancelDone
    BY <1>12, <1>b DEF CancelDone, DropContext, Release
  <1>13. CASE RetryRun
    BY <1>13, <1>b DEF RetryRun, Retryable, UserMayAct
  <1>14. CASE RetryDone
    BY <1>14, <1>b DEF RetryDone, Release
  <1>15. CASE RejectRun
    BY <1>15, <1>b DEF RejectRun
  <1>16. CASE Crash
    BY <1>16, <1>b DEF Crash, DropContext, Release
  <1>17. CASE ResumeSelect
    BY <1>17, <1>b DEF ResumeSelect
  <1>18. CASE ResumeReset
    BY <1>18, <1>b DEF ResumeReset, ResetInflight
  <1>19. CASE ResumeExecute
    BY <1>19, <1>b DEF ResumeExecute, ClaimRun
  <1>20. ASSUME NEW s \in Steps, SkipBlocked(s) PROVE RejectionInStep'
    BY <1>20, <1>b DEF SkipBlocked, Blocked, Pending, InState
  <1>21. ASSUME NEW s \in Steps, EnterCheckpoint(s) PROVE RejectionInStep'
    BY <1>21, <1>b DEF EnterCheckpoint, SchedulingInStep
  <1>22. ASSUME NEW s \in Steps, Dispatch(s) PROVE RejectionInStep'
    BY <1>22, <1>b DEF Dispatch, SchedulingInStep
  <1>23. ASSUME NEW s \in Steps, StartStep(s) PROVE RejectionInStep'
    BY <1>23, <1>b DEF StartStep
  <1>24. ASSUME NEW s \in Steps, "stop" \in Outcomes, AbortRun(s) PROVE RejectionInStep'
    BY <1>24, <1>b DEF AbortRun, ReportAccepted, TasksAccounted, Busy, InState
  <1>25. ASSUME NEW s \in Steps, AbortSkip(s) PROVE RejectionInStep'
    BY <1>25, <1>b DEF AbortSkip
  <1>26. ASSUME NEW s \in Steps, CancelStep(s) PROVE RejectionInStep'
    BY <1>26, <1>b DEF CancelStep
  <1>27. ASSUME NEW s \in Steps, RetryReset(s) PROVE RejectionInStep'
    BY <1>27, <1>b DEF RetryReset, RetryInStep, GivenUp, Closed
  <1>28. ASSUME NEW s \in Steps, ApproveStep(s) PROVE RejectionInStep'
    BY <1>28, <1>b DEF ApproveStep
  <1>29. ASSUME NEW s \in Steps, RejectStep(s) PROVE RejectionInStep'
    <2>1. s \in Taken
      BY <1>29 DEF RejectStep, Taken, UnderDecision
    <2>2. s \notin Unmet
      BY <2>1 DEF TakenInOrder
    <2>3. s \notin Unmet'
      BY <1>29, <2>2 DEF RejectStep, Unmet, DecisionInStep, UnderDecision
    <2>4. stepState'[s] = "cancelled" /\ mgrTodo' \subseteq DependentsOf(DependsOn, s)
      BY <1>29 DEF RejectStep
    <2>5. QED
      BY <2>3, <2>4 DEF RejectionInStep
  <1>30. ASSUME NEW s \in Steps, RejectDependent(s) PROVE RejectionInStep'
    BY <1>30, <1>b DEF RejectDependent
  <1>31. ASSUME NEW s \in Steps, NEW result \in Outcomes \ {"stop"}, CompleteStep(s, result)
         PROVE  RejectionInStep'
    BY <1>31, <1>b DEF CompleteStep, ReportAccepted, TasksAccounted, Busy, InState
  <1>32. ASSUME NEW s \in Steps, NEW request \in {"approve", "reject"}, RequireAwaiting(request, s)
         PROVE  RejectionInStep'
    BY <1>32, <1>b DEF RequireAwaiting, UserMayAct, ManagerLockFree, IsAwaiting
  <1>33. CASE UNCHANGED vars
    BY <1>33, <1>b DEF vars
  <1>34. QED
    BY <1>1, <1>2, <1>3, <1>4, <1>5, <1>6, <1>7, <1>8, <1>9, <1>10, <1>11, <1>12,
       <1>13, <1>14, <1>15, <1>16, <1>17, <1>18, <1>19, <1>20, <1>21, <1>22, <1>23,
       <1>24, <1>25, <1>26, <1>27, <1>28, <1>29, <1>30, <1>31, <1>32, <1>33
    DEF Next, Worker, Scheduler, Manager, Startup, User, Wait

\* Only a dispatch gives a step a task.
LEMMA NoNewTasks ==
    TypeOK /\ [Next]_vars /\ ~(\E s \in Steps : Dispatch(s)) => Busy' \subseteq Busy
  <1> SUFFICES ASSUME TypeOK, [Next]_vars, ~\E s \in Steps : Dispatch(s)
               PROVE  Busy' \subseteq Busy
    OBVIOUS
  <1> USE DEF Busy, TypeOK, tasks
  <1>1. CASE UNCHANGED tasks
    BY <1>1
  <1>2. CASE Crash
    BY <1>2 DEF Crash
  <1>3. ASSUME NEW s \in Steps, StartStep(s) PROVE Busy' \subseteq Busy
    BY <1>3 DEF StartStep
  <1>4. ASSUME NEW s \in Steps, AbortRun(s) PROVE Busy' \subseteq Busy
    BY <1>4 DEF AbortRun
  <1>5. ASSUME NEW s \in Steps, NEW result \in Outcomes \ {"stop"}, CompleteStep(s, result)
        PROVE  Busy' \subseteq Busy
    BY <1>5 DEF CompleteStep
  <1>6. QED
    BY <1>1, <1>2, <1>3, <1>4, <1>5
    DEF Next, Worker, Scheduler, Manager, Startup, User, Wait, vars, StartRun, InsertSteps,
        ExecuteRun, ClaimRun, ScheduleReady, SkipBlockedDone, Finish, ParkRun,
        CheckpointsDone, DispatchDone, AbortDone, CancelRun, CancelDone, RetryRun,
        RetryDone, ResumeSelect, ResumeReset, ResumeExecute, SkipBlocked,
        EnterCheckpoint, AbortSkip, CancelStep, RetryReset, ApproveStep, RejectStep,
        RejectDependent, RejectRun, RequireAwaiting

\* Only a dispatch adds a task; then the tasks are running rows, which
\* RowsWithinLimit bounds.
LEMMA OrderLimit ==
    Orderly /\ OrderInvariant /\ [Next]_vars => TasksWithinLimit'
  <1> SUFFICES ASSUME Orderly, OrderInvariant, [Next]_vars PROVE TasksWithinLimit'
    OBVIOUS
  <1>1. TasksAccounted' /\ RowsWithinLimit' /\ TypeOK'
    BY OrderTasks, NextWithinLimit, NextTypeOK DEF OrderInvariant, ExecutorInvariant
  <1>2. Busy \in SUBSET Steps /\ Busy' \in SUBSET Steps
    BY DEF Busy
  <1>3. ASSUME NEW s \in Steps, Dispatch(s) PROVE TasksWithinLimit'
    <2>1. Live' /\ pc' = "dispatch"
      BY <1>3 DEF Dispatch, OrderInvariant, ExecutorInvariant, HandlerOwnsContext, Live
    <2>2. Busy' \subseteq InState(stepState, {"running"})'
      BY <1>1, <2>1 DEF TasksAccounted
    <2>3. InState(stepState, {"running"})' \in SUBSET Steps
      BY DEF InState
    <2>4. Cardinality(Busy') <= Cardinality(InState(stepState, {"running"})')
      BY <1>2, <2>2, <2>3, StepSetsFinite, FS_Subset
    <2>5. QED
      BY <1>1, <1>2, <2>3, <2>4, StepSetsFinite, LimitAssumption
      DEF TasksWithinLimit, RowsWithinLimit
  <1>4. CASE ~\E s \in Steps : Dispatch(s)
    <2>1. Busy' \subseteq Busy
      BY <1>4, NoNewTasks DEF OrderInvariant, ExecutorInvariant
    <2>2. Cardinality(Busy') <= Cardinality(Busy)
      BY <1>2, <2>1, StepSetsFinite, FS_Subset
    <2>3. QED
      BY <1>2, <2>2, StepSetsFinite, LimitAssumption DEF TasksWithinLimit, OrderInvariant
  <1>5. QED
    BY <1>3, <1>4

\* A fresh database and an empty process satisfy the invariant.
LEMMA InitOrder == Init => OrderInvariant
  <1> SUFFICES ASSUME Init PROVE OrderInvariant
    OBVIOUS
  <1>1. ExecutorInvariant
    BY InitExecutorInvariant
  <1>2. Busy = {} /\ UnderDecision = {} /\ InState(stepState, StepStates \ {"absent"}) = {}
    BY DEF Init, Busy, UnderDecision, InState, NoRows
  <1>3. Taken = {}
    BY <1>2 DEF Taken, InState, StepStates, TerminalStepStates, UnsuccessfulStates
  <1>4. TasksWithinLimit
    BY <1>2, FS_EmptySet, LimitAssumption DEF TasksWithinLimit
  <1>5. QED
    BY <1>1, <1>2, <1>3, <1>4
    DEF Init, OrderInvariant, StartupAlone, RowsTogether, TakenInOrder, TodoHasRows,
        SchedulingInStep, TeardownInStep, RetryInStep, FailedRunQuiet, TasksAccounted,
        DecisionInStep, RejectionInStep, NoRows, LockFree, Live

\* The invariant of orderly operation is inductive, for every graph, every set
\* of checkpoints, every limit and bound and choice of requests and outcomes.
THEOREM OrderSafe == Orderly => (Spec => []OrderInvariant)
  <1> SUFFICES ASSUME Orderly PROVE Spec => []OrderInvariant
    OBVIOUS
  <1>1. Init => OrderInvariant
    BY InitOrder
  <1>2. OrderInvariant /\ [Next]_vars => OrderInvariant'
    <2> SUFFICES ASSUME OrderInvariant, [Next]_vars PROVE OrderInvariant'
      OBVIOUS
    <2>1. ExecutorInvariant'
      BY NextTypeOK, NextWithinLimit, NextLiveRun DEF OrderInvariant, ExecutorInvariant
    <2>2. QED
      BY <2>1, OrderStartup, OrderRows, OrderTaken, OrderTodo, OrderScheduling, OrderTeardown,
         OrderRetry, OrderFailed, OrderTasks, OrderLimit, OrderDecision, OrderRejection
      DEF OrderInvariant
  <1>3. QED
    BY <1>1, <1>2, PTL DEF Spec

\* A rejected checkpoint's dependents, direct or not, neither run nor have run:
\* whatever workers report, users decide, cancel or retry and wherever the
\* process dies (ApprovalManager.reject against the executor's lock).
THEOREM RejectionsHold == Orderly => (Spec => []RejectionHolds)
  <1>1. OrderInvariant => RejectionHolds
    <2> SUFFICES ASSUME OrderInvariant, NEW s \in ApprovalSteps, stepState[s] = "cancelled",
                        NEW t \in DependentsOf(DependsOn, s)
                 PROVE  running[t] = 0 /\ stepState[t] \in {"pending", "skipped", "cancelled"}
      BY DEF RejectionHolds
    <2>1. TypeOK /\ s \in Steps /\ t \in Steps
      BY ApprovalAssumption, ClosuresAreSteps DEF OrderInvariant, ExecutorInvariant
    <2>2. t \notin Taken
      BY <2>1, DownstreamWaits DEF OrderInvariant, TakenInOrder
    <2>3. stepState[t] /= "absent"
      BY <2>1 DEF OrderInvariant, RowsTogether, NoRows
    <2>4. queued[t] \in Nat /\ running[t] \in Nat /\ stepState[t] \in StepStates
      BY <2>1 DEF TypeOK
    <2>5. running[t] = 0
      BY <2>1, <2>2, <2>4 DEF Taken, Busy
    <2>6. QED
      BY <2>1, <2>2, <2>3, <2>4, <2>5
      DEF Taken, InState, StepStates, TerminalStepStates, UnsuccessfulStates
  <1>2. QED
    BY <1>1, OrderSafe, PTL

\* The rows that say running, parked or completed are steps taken up.
LEMMA OrderedDependencies == OrderInvariant => DependencyOrder
  BY GraphAssumption
  DEF OrderInvariant, TakenInOrder, Taken, Unmet, DependencyOrder, InState, Graphs

\* No step is dispatched, parked or completed before all its dependencies are
\* completed, although decisions, crashes, recovery, cancellation and retries
\* rewrite the rows in between.
THEOREM DependenciesRespected == Orderly => (Spec => []DependencyOrder)
  BY OrderedDependencies, OrderSafe, PTL

\* The limit holds of threads: no step has two runners, and no more runners
\* execute than the limit allows, across decisions, crashes and retries.
THEOREM RunnersRespectLimit == Orderly => (Spec => []RunnersWithinLimit)
  <1>1. OrderInvariant => RunnersWithinLimit
    <2> SUFFICES ASSUME OrderInvariant PROVE RunnersWithinLimit
      OBVIOUS
    <2> DEFINE R == {s \in Steps : running[s] > 0}
    <2>1. queued \in [Steps -> Nat] /\ running \in [Steps -> Nat]
      BY DEF OrderInvariant, ExecutorInvariant, TypeOK
    <2>2. R \subseteq Busy /\ Busy \in SUBSET Steps /\ R \in SUBSET Steps
      BY <2>1 DEF Busy
    <2>3. Cardinality(R) <= Cardinality(Busy)
      BY <2>2, StepSetsFinite, FS_Subset
    <2>4. Cardinality(R) <= ConcurrencyLimit
      BY <2>2, <2>3, StepSetsFinite, LimitAssumption DEF OrderInvariant, TasksWithinLimit
    <2>5. \A s \in Steps : running[s] <= 1
      BY <2>1 DEF OrderInvariant, TasksAccounted
    <2>6. QED
      BY <2>4, <2>5 DEF RunnersWithinLimit
  <1>2. QED
    BY <1>1, OrderSafe, PTL

-----------------------------------------------------------------------------
(***************************************************************************)
(* Orderly operation of a workflow with at most one checkpoint, in one life *)
(* of the process, where the checkpoint is approved or the run cancelled.   *)
(* With a second checkpoint, a rejection or a crash, execute_run or reject  *)
(* rewrites the row of a parked run, and the run is paused in another state *)
(* than awaiting_approval (README).                                         *)
(***************************************************************************)
SingleReview ==
    /\ Orderly
    /\ MaxCrashes = 0
    /\ "reject" \notin UserRequests
    /\ \A s, t \in ApprovalSteps : s = t

\* The process never restarts, so recovery finds no run, nobody rejects and a
\* cancellation is not left half done.
NoRestart ==
    /\ crashes = 0
    /\ boot \in {"select", "done"} /\ (boot = "select" => runState = "absent")
    /\ mgrOp \in {"idle", "approve"}
    /\ runState = "cancelling" => pc = "cancel"

\* Only steps of type approval are parked.
ReviewRows ==
    /\ InState(stepState, {"awaiting_approval"}) \subseteq ApprovalSteps
    /\ InState(seen, {"awaiting_approval"}) \subseteq ApprovalSteps
    /\ pc \in {"checkpoint", "park"} => todo \subseteq ApprovalSteps

\* Until the checkpoint is approved nobody calls execute_run but start_run and
\* retry_run, whose call finds the run pending and claims it.
CallsCounted ==
    \A s \in ApprovalSteps : stepState[s] /= "completed" /\ ~GivenUp =>
        \/ execCalls = 0
        \/ execCalls = 1 /\ ~Live /\ pc /= "retry" /\ runState = "pending"

\* The run's row says what the checkpoint's row says, from the second write of
\* enter_checkpoint on, and the snapshot of the dispatch loop agrees with it.
ParkedInRow ==
    /\ \A s \in Steps : stepState[s] = "awaiting_approval" /\ pc /= "park" /\ ~GivenUp =>
          runState = "awaiting_approval"
    /\ \A s \in Steps : pc = "dispatch" /\ seen[s] = "awaiting_approval" =>
          runState = "awaiting_approval"

\* What PausedRunIsParked needs on top of the invariant of orderly operation.
ReviewInvariant == NoRestart /\ ReviewRows /\ CallsCounted /\ ParkedInRow

\* Nothing in this environment restarts the process or rejects.
LEMMA ReviewNoRestart ==
    SingleReview /\ OrderInvariant /\ ReviewInvariant /\ [Next]_vars => NoRestart'
  <1> SUFFICES ASSUME SingleReview, OrderInvariant, ReviewInvariant, [Next]_vars
               PROVE  NoRestart'
    OBVIOUS
  <1> USE DEF LockFree, Live, db, tasks, calls, handler, mgr, proc, OrderInvariant,
              ExecutorInvariant, TypeOK, ReviewInvariant, SingleReview, NoRestart,
              StartupAlone
  <1>1. CASE StartRun
    BY <1>1 DEF StartRun, UserMayAct, Orderly
  <1>2. CASE InsertSteps
    BY <1>2 DEF InsertSteps
  <1>3. CASE ExecuteRun
    BY <1>3 DEF ExecuteRun, ClaimRun
  <1>4. CASE ScheduleReady
    BY <1>4 DEF ScheduleReady, AfterSkip
  <1>5. CASE SkipBlockedDone
    BY <1>5 DEF SkipBlockedDone, AfterSkip
  <1>6. CASE Finish
    BY <1>6 DEF Finish, DropContext, Release, DeriveOutcome
  <1>7. CASE ParkRun
    BY <1>7 DEF ParkRun
  <1>8. CASE CheckpointsDone
    BY <1>8 DEF CheckpointsDone
  <1>9. CASE DispatchDone
    BY <1>9 DEF DispatchDone, MustPause, DropContext, Release
  <1>10. CASE AbortDone
    BY <1>10 DEF AbortDone, DropContext, Release
  <1>11. CASE CancelRun
    BY <1>11 DEF CancelRun, UserMayAct
  <1>12. CASE CancelDone
    BY <1>12 DEF CancelDone, DropContext, Release
  <1>13. CASE RetryRun
    BY <1>13 DEF RetryRun, Retryable, UserMayAct
  <1>14. CASE RetryDone
    BY <1>14 DEF RetryDone, Release
  <1>15. CASE RejectRun
    BY <1>15 DEF RejectRun
  <1>16. CASE Crash
    BY <1>16, BoundsAssumption DEF Crash, DropContext, Release
  <1>17. CASE ResumeSelect
    BY <1>17 DEF ResumeSelect
  <1>18. CASE ResumeReset
    BY <1>18 DEF ResumeReset, ResetInflight
  <1>19. CASE ResumeExecute
    BY <1>19 DEF ResumeExecute, ClaimRun
  <1>20. ASSUME NEW s \in Steps, SkipBlocked(s) PROVE NoRestart'
    BY <1>20 DEF SkipBlocked
  <1>21. ASSUME NEW s \in Steps, EnterCheckpoint(s) PROVE NoRestart'
    BY <1>21 DEF EnterCheckpoint
  <1>22. ASSUME NEW s \in Steps, Dispatch(s) PROVE NoRestart'
    BY <1>22 DEF Dispatch
  <1>23. ASSUME NEW s \in Steps, StartStep(s) PROVE NoRestart'
    BY <1>23 DEF StartStep
  <1>24. ASSUME NEW s \in Steps, "stop" \in Outcomes, AbortRun(s) PROVE NoRestart'
    BY <1>24 DEF AbortRun, ReportAccepted
  <1>25. ASSUME NEW s \in Steps, AbortSkip(s) PROVE NoRestart'
    BY <1>25 DEF AbortSkip
  <1>26. ASSUME NEW s \in Steps, CancelStep(s) PROVE NoRestart'
    BY <1>26 DEF CancelStep
  <1>27. ASSUME NEW s \in Steps, RetryReset(s) PROVE NoRestart'
    BY <1>27 DEF RetryReset
  <1>28. ASSUME NEW s \in Steps, ApproveStep(s) PROVE NoRestart'
    BY <1>28 DEF ApproveStep
  <1>29. ASSUME NEW s \in Steps, RejectStep(s) PROVE NoRestart'
    BY <1>29 DEF RejectStep
  <1>30. ASSUME NEW s \in Steps, RejectDependent(s) PROVE NoRestart'
    BY <1>30 DEF RejectDependent
  <1>31. ASSUME NEW s \in Steps, NEW result \in Outcomes \ {"stop"}, CompleteStep(s, result)
         PROVE  NoRestart'
    BY <1>31 DEF CompleteStep, ReportAccepted
  <1>32. ASSUME NEW s \in Steps, NEW request \in {"approve", "reject"}, RequireAwaiting(request, s)
         PROVE  NoRestart'
    BY <1>32 DEF RequireAwaiting, UserMayAct, ManagerLockFree, IsAwaiting
  <1>33. CASE UNCHANGED vars
    BY <1>33 DEF vars
  <1>34. QED
    BY <1>1, <1>2, <1>3, <1>4, <1>5, <1>6, <1>7, <1>8, <1>9, <1>10, <1>11, <1>12,
       <1>13, <1>14, <1>15, <1>16, <1>17, <1>18, <1>19, <1>20, <1>21, <1>22, <1>23,
       <1>24, <1>25, <1>26, <1>27, <1>28, <1>29, <1>30, <1>31, <1>32, <1>33
    DEF Next, Worker, Scheduler, Manager, Startup, User, Wait

\* enter_checkpoint is called with ready steps of type approval.
LEMMA ReviewParksReviews ==
    SingleReview /\ OrderInvariant /\ ReviewInvariant /\ [Next]_vars => ReviewRows'
  <1> SUFFICES ASSUME SingleReview, OrderInvariant, ReviewInvariant, [Next]_vars
               PROVE  ReviewRows'
    OBVIOUS
  <1> USE DEF LockFree, Live, db, tasks, calls, handler, mgr, proc, OrderInvariant,
              ExecutorInvariant, TypeOK, ReviewInvariant, SingleReview, ReviewRows,
              InState
  <1>1. CASE StartRun
    BY <1>1 DEF StartRun, UserMayAct
  <1>2. CASE InsertSteps
    BY <1>2 DEF InsertSteps
  <1>3. CASE ExecuteRun
    BY <1>3 DEF ExecuteRun, ClaimRun
  <1>4. CASE ScheduleReady
    BY <1>4 DEF ScheduleReady, AfterSkip, ReadyCheckpoints
  <1>5. CASE SkipBlockedDone
    BY <1>5 DEF SkipBlockedDone, AfterSkip, ReadyCheckpoints
  <1>6. CASE Finish
    BY <1>6 DEF Finish, DropContext, Release, NoRows
  <1>7. CASE ParkRun
    BY <1>7 DEF ParkRun
  <1>8. CASE CheckpointsDone
    BY <1>8 DEF CheckpointsDone
  <1>9. CASE DispatchDone
    BY <1>9 DEF DispatchDone, MustPause, DropContext, Release, NoRows
  <1>10. CASE AbortDone
    BY <1>10 DEF AbortDone, DropContext, Release, NoRows
  <1>11. CASE CancelRun
    BY <1>11 DEF CancelRun, UserMayAct
  <1>12. CASE CancelDone
    BY <1>12 DEF CancelDone, DropContext, Release, NoRows
  <1>13. CASE RetryRun
    BY <1>13 DEF RetryRun, Retryable, UserMayAct
  <1>14. CASE RetryDone
    BY <1>14 DEF RetryDone, Release, NoRows
  <1>15. CASE RejectRun
    BY <1>15 DEF RejectRun
  <1>16. CASE Crash
    BY <1>16 DEF Crash, DropContext, Release, NoRows
  <1>17. CASE ResumeSelect
    BY <1>17 DEF ResumeSelect
  <1>18. CASE ResumeReset
    BY <1>18 DEF ResumeReset, ResetInflight
  <1>19. CASE ResumeExecute
    BY <1>19 DEF ResumeExecute, ClaimRun
  <1>20. ASSUME NEW s \in Steps, SkipBlocked(s) PROVE ReviewRows'
    BY <1>20 DEF SkipBlocked
  <1>21. ASSUME NEW s \in Steps, EnterCheckpoint(s) PROVE ReviewRows'
    BY <1>21 DEF EnterCheckpoint
  <1>22. ASSUME NEW s \in Steps, Dispatch(s) PROVE ReviewRows'
    BY <1>22 DEF Dispatch
  <1>23. ASSUME NEW s \in Steps, StartStep(s) PROVE ReviewRows'
    BY <1>23 DEF StartStep
  <1>24. ASSUME NEW s \in Steps, "stop" \in Outcomes, AbortRun(s) PROVE ReviewRows'
    BY <1>24 DEF AbortRun, ReportAccepted
  <1>25. ASSUME NEW s \in Steps, AbortSkip(s) PROVE ReviewRows'
    BY <1>25 DEF AbortSkip
  <1>26. ASSUME NEW s \in Steps, CancelStep(s) PROVE ReviewRows'
    BY <1>26 DEF CancelStep
  <1>27. ASSUME NEW s \in Steps, RetryReset(s) PROVE ReviewRows'
    BY <1>27 DEF RetryReset
  <1>28. ASSUME NEW s \in Steps, ApproveStep(s) PROVE ReviewRows'
    BY <1>28 DEF ApproveStep
  <1>29. ASSUME NEW s \in Steps, RejectStep(s) PROVE ReviewRows'
    BY <1>29 DEF RejectStep
  <1>30. ASSUME NEW s \in Steps, RejectDependent(s) PROVE ReviewRows'
    BY <1>30 DEF RejectDependent
  <1>31. ASSUME NEW s \in Steps, NEW result \in Outcomes \ {"stop"}, CompleteStep(s, result)
         PROVE  ReviewRows'
    BY <1>31, EnvAssumption DEF CompleteStep, ReportAccepted
  <1>32. ASSUME NEW s \in Steps, NEW request \in {"approve", "reject"}, RequireAwaiting(request, s)
         PROVE  ReviewRows'
    BY <1>32 DEF RequireAwaiting, UserMayAct, ManagerLockFree, IsAwaiting
  <1>33. CASE UNCHANGED vars
    BY <1>33 DEF vars
  <1>34. QED
    BY <1>1, <1>2, <1>3, <1>4, <1>5, <1>6, <1>7, <1>8, <1>9, <1>10, <1>11, <1>12,
       <1>13, <1>14, <1>15, <1>16, <1>17, <1>18, <1>19, <1>20, <1>21, <1>22, <1>23,
       <1>24, <1>25, <1>26, <1>27, <1>28, <1>29, <1>30, <1>31, <1>32, <1>33
    DEF Next, Worker, Scheduler, Manager, Startup, User, Wait

\* A call of execute_run that is under way before the checkpoint is approved is
\* the first one of a started or a retried run.
LEMMA ReviewCalls ==
    SingleReview /\ OrderInvariant /\ ReviewInvariant /\ [Next]_vars => CallsCounted'
  <1> SUFFICES ASSUME SingleReview, OrderInvariant, ReviewInvariant, [Next]_vars
               PROVE  CallsCounted'
    OBVIOUS
  <1> USE DEF LockFree, Live, db, tasks, calls, handler, mgr, proc, OrderInvariant,
              ExecutorInvariant, TypeOK, ReviewInvariant, SingleReview, CallsCounted
  <1>a. \A s \in ApprovalSteps : stepState'[s] /= "completed" /\ ~GivenUp' =>
            stepState[s] /= "completed" /\ ~GivenUp
    BY GivenUpStays, CompletedStays, ReviewNoRestart, ApprovalAssumption
    DEF CompletedKept, GivenUpKept, GivenUp, NoRestart
  <1>1. CASE StartRun
    BY <1>1, <1>a DEF StartRun, UserMayAct
  <1>2. CASE InsertSteps
    BY <1>2, <1>a DEF InsertSteps, StartupAlone, GivenUp, Closed, NoRestart
  <1>3. CASE ExecuteRun
    BY <1>3, <1>a DEF ExecuteRun, ClaimRun
  <1>4. CASE ScheduleReady
    BY <1>4, <1>a DEF ScheduleReady, AfterSkip
  <1>5. CASE SkipBlockedDone
    BY <1>5, <1>a DEF SkipBlockedDone, AfterSkip
  <1>6. CASE Finish
    BY <1>6, <1>a DEF Finish, DropContext, Release, HandlerOwnsContext
  <1>7. CASE ParkRun
    BY <1>7, <1>a DEF ParkRun, HandlerOwnsContext
  <1>8. CASE CheckpointsDone
    BY <1>8, <1>a DEF CheckpointsDone
  <1>9. CASE DispatchDone
    BY <1>9, <1>a DEF DispatchDone, MustPause, DropContext, Release
  <1>10. CASE AbortDone
    BY <1>10, <1>a DEF AbortDone, DropContext, Release, HandlerOwnsContext
  <1>11. CASE CancelRun
    BY <1>11, <1>a DEF CancelRun, UserMayAct, GivenUp
  <1>12. CASE CancelDone
    BY <1>12, <1>a DEF CancelDone, DropContext, Release, GivenUp, Closed
  <1>13. CASE RetryRun
    BY <1>13, <1>a DEF RetryRun, Retryable, UserMayAct
  <1>14. CASE RetryDone
    BY <1>14, <1>a DEF RetryDone, Release, HandlerOwnsContext
  <1>15. CASE RejectRun
    BY <1>15, <1>a DEF RejectRun, NoRestart
  <1>16. CASE Crash
    BY <1>16, <1>a, BoundsAssumption DEF Crash, DropContext, Release, NoRestart
  <1>17. CASE ResumeSelect
    BY <1>17, <1>a DEF ResumeSelect
  <1>18. CASE ResumeReset
    BY <1>18, <1>a DEF ResumeReset, ResetInflight
  <1>19. CASE ResumeExecute
    BY <1>19, <1>a DEF ResumeExecute, ClaimRun, NoRestart
  <1>20. ASSUME NEW s \in Steps, SkipBlocked(s) PROVE CallsCounted'
    BY <1>20, <1>a DEF SkipBlocked
  <1>21. ASSUME NEW s \in Steps, EnterCheckpoint(s) PROVE CallsCounted'
    BY <1>21, <1>a DEF EnterCheckpoint
  <1>22. ASSUME NEW s \in Steps, Dispatch(s) PROVE CallsCounted'
    BY <1>22, <1>a DEF Dispatch
  <1>23. ASSUME NEW s \in Steps, StartStep(s) PROVE CallsCounted'
    BY <1>23, <1>a DEF StartStep
  <1>24. ASSUME NEW s \in Steps, "stop" \in Outcomes, AbortRun(s) PROVE CallsCounted'
    BY <1>24, <1>a DEF AbortRun, ReportAccepted
  <1>25. ASSUME NEW s \in Steps, AbortSkip(s) PROVE CallsCounted'
    BY <1>25, <1>a DEF AbortSkip
  <1>26. ASSUME NEW s \in Steps, CancelStep(s) PROVE CallsCounted'
    BY <1>26, <1>a DEF CancelStep
  <1>27. ASSUME NEW s \in Steps, RetryReset(s) PROVE CallsCounted'
    BY <1>27, <1>a DEF RetryReset
  <1>28. ASSUME NEW s \in Steps, ApproveStep(s) PROVE CallsCounted'
    BY <1>28, <1>a DEF ApproveStep, DecisionInStep, UnderDecision, ReviewRows, InState
  <1>29. ASSUME NEW s \in Steps, RejectStep(s) PROVE CallsCounted'
    BY <1>29, <1>a DEF RejectStep
  <1>30. ASSUME NEW s \in Steps, RejectDependent(s) PROVE CallsCounted'
    BY <1>30, <1>a DEF RejectDependent
  <1>31. ASSUME NEW s \in Steps, NEW result \in Outcomes \ {"stop"}, CompleteStep(s, result)
         PROVE  CallsCounted'
    BY <1>31, <1>a DEF CompleteStep, ReportAccepted
  <1>32. ASSUME NEW s \in Steps, NEW request \in {"approve", "reject"}, RequireAwaiting(request, s)
         PROVE  CallsCounted'
    BY <1>32, <1>a DEF RequireAwaiting, UserMayAct, ManagerLockFree, IsAwaiting
  <1>33. CASE UNCHANGED vars
    BY <1>33, <1>a DEF vars
  <1>34. QED
    BY <1>1, <1>2, <1>3, <1>4, <1>5, <1>6, <1>7, <1>8, <1>9, <1>10, <1>11, <1>12,
       <1>13, <1>14, <1>15, <1>16, <1>17, <1>18, <1>19, <1>20, <1>21, <1>22, <1>23,
       <1>24, <1>25, <1>26, <1>27, <1>28, <1>29, <1>30, <1>31, <1>32, <1>33
    DEF Next, Worker, Scheduler, Manager, Startup, User, Wait

\* Nobody claims a run whose checkpoint is parked.
LEMMA ReviewParked ==
    SingleReview /\ OrderInvariant /\ ReviewInvariant /\ [Next]_vars => ParkedInRow'
  <1> SUFFICES ASSUME SingleReview, OrderInvariant, ReviewInvariant, [Next]_vars
               PROVE  ParkedInRow'
    OBVIOUS
  <1> USE DEF LockFree, Live, db, tasks, calls, handler, mgr, proc, OrderInvariant,
              ExecutorInvariant, TypeOK, ReviewInvariant, SingleReview, ParkedInRow
  <1>a. ~GivenUp' => ~GivenUp
    BY GivenUpStays, ReviewNoRestart DEF GivenUpKept, NoRestart
  <1>1. CASE StartRun
    BY <1>1, <1>a DEF StartRun, UserMayAct
  <1>2. CASE InsertSteps
    BY <1>2, <1>a DEF InsertSteps
  <1>3. CASE ExecuteRun
    BY <1>3, <1>a, ApprovalAssumption
    DEF ExecuteRun, ClaimRun, CallsCounted, ReviewRows, InState
  <1>4. CASE ScheduleReady
    BY <1>4, <1>a DEF ScheduleReady, AfterSkip, GivenUp, Closed
  <1>5. CASE SkipBlockedDone
    BY <1>5, <1>a DEF SkipBlockedDone, AfterSkip, GivenUp, Closed, HandlerOwnsContext
  <1>6. CASE Finish
    BY <1>6, <1>a
    DEF Finish, DropContext, Release, SchedulingInStep, AllTerminal, NonTerminal,
        InState
  <1>7. CASE ParkRun
    BY <1>7, <1>a DEF ParkRun
  <1>8. CASE CheckpointsDone
    BY <1>8, <1>a DEF CheckpointsDone, GivenUp, Closed, HandlerOwnsContext
  <1>9. CASE DispatchDone
    BY <1>9, <1>a DEF DispatchDone, MustPause, DropContext, Release
  <1>10. CASE AbortDone
    BY <1>10, <1>a
    DEF AbortDone, DropContext, Release, GivenUp, Closed, TeardownInStep, Orderly
  <1>11. CASE CancelRun
    BY <1>11, <1>a DEF CancelRun, UserMayAct, GivenUp, Closed
  <1>12. CASE CancelDone
    BY <1>12, <1>a DEF CancelDone, DropContext, Release, GivenUp, Closed
  <1>13. CASE RetryRun
    BY <1>13, <1>a DEF RetryRun, Retryable, UserMayAct
  <1>14. CASE RetryDone
    BY <1>14, <1>a DEF RetryDone, Release, RetryInStep, InState
  <1>15. CASE RejectRun
    BY <1>15, <1>a DEF RejectRun, NoRestart
  <1>16. CASE Crash
    BY <1>16, <1>a DEF Crash, DropContext, Release
  <1>17. CASE ResumeSelect
    BY <1>17, <1>a DEF ResumeSelect
  <1>18. CASE ResumeReset
    BY <1>18, <1>a DEF ResumeReset, ResetInflight
  <1>19. CASE ResumeExecute
    BY <1>19, <1>a DEF ResumeExecute, ClaimRun, NoRestart
  <1>20. ASSUME NEW s \in Steps, SkipBlocked(s) PROVE ParkedInRow'
    BY <1>20, <1>a DEF SkipBlocked
  <1>21. ASSUME NEW s \in Steps, EnterCheckpoint(s) PROVE ParkedInRow'
    BY <1>21, <1>a DEF EnterCheckpoint
  <1>22. ASSUME NEW s \in Steps, Dispatch(s) PROVE ParkedInRow'
    BY <1>22, <1>a DEF Dispatch
  <1>23. ASSUME NEW s \in Steps, StartStep(s) PROVE ParkedInRow'
    BY <1>23, <1>a DEF StartStep
  <1>24. ASSUME NEW s \in Steps, "stop" \in Outcomes, AbortRun(s) PROVE ParkedInRow'
    BY <1>24, <1>a DEF AbortRun, ReportAccepted
  <1>25. ASSUME NEW s \in Steps, AbortSkip(s) PROVE ParkedInRow'
    BY <1>25, <1>a DEF AbortSkip
  <1>26. ASSUME NEW s \in Steps, CancelStep(s) PROVE ParkedInRow'
    BY <1>26, <1>a DEF CancelStep
  <1>27. ASSUME NEW s \in Steps, RetryReset(s) PROVE ParkedInRow'
    BY <1>27, <1>a DEF RetryReset
  <1>28. ASSUME NEW s \in Steps, ApproveStep(s) PROVE ParkedInRow'
    BY <1>28, <1>a DEF ApproveStep
  <1>29. ASSUME NEW s \in Steps, RejectStep(s) PROVE ParkedInRow'
    BY <1>29, <1>a DEF RejectStep
  <1>30. ASSUME NEW s \in Steps, RejectDependent(s) PROVE ParkedInRow'
    BY <1>30, <1>a DEF RejectDependent
  <1>31. ASSUME NEW s \in Steps, NEW result \in Outcomes \ {"stop"}, CompleteStep(s, result)
         PROVE  ParkedInRow'
    BY <1>31, <1>a, EnvAssumption DEF CompleteStep, ReportAccepted
  <1>32. ASSUME NEW s \in Steps, NEW request \in {"approve", "reject"}, RequireAwaiting(request, s)
         PROVE  ParkedInRow'
    BY <1>32, <1>a DEF RequireAwaiting, UserMayAct, ManagerLockFree, IsAwaiting
  <1>33. CASE UNCHANGED vars
    BY <1>33, <1>a DEF vars
  <1>34. QED
    BY <1>1, <1>2, <1>3, <1>4, <1>5, <1>6, <1>7, <1>8, <1>9, <1>10, <1>11, <1>12,
       <1>13, <1>14, <1>15, <1>16, <1>17, <1>18, <1>19, <1>20, <1>21, <1>22, <1>23,
       <1>24, <1>25, <1>26, <1>27, <1>28, <1>29, <1>30, <1>31, <1>32, <1>33
    DEF Next, Worker, Scheduler, Manager, Startup, User, Wait

\* The invariant of a single review holds of every behaviour.
THEOREM ReviewSafe == SingleReview => (Spec => []ReviewInvariant)
  <1> SUFFICES ASSUME SingleReview PROVE Spec => []ReviewInvariant
    OBVIOUS
  <1>1. Init => ReviewInvariant
    BY
    DEF Init, ReviewInvariant, NoRestart, ReviewRows, CallsCounted, ParkedInRow, InState,
        NoRows
  <1>2. OrderInvariant /\ ReviewInvariant /\ [Next]_vars => ReviewInvariant'
    BY ReviewNoRestart, ReviewParksReviews, ReviewCalls, ReviewParked DEF ReviewInvariant
  <1>3. Spec => []OrderInvariant
    BY OrderSafe DEF SingleReview
  <1>4. QED
    BY <1>1, <1>2, <1>3, PTL DEF Spec

\* When _pause_for_approval drops the context, the run's row already says
\* awaiting_approval: recovery and the manager find the run parked.
THEOREM PausedRunsAreParked == SingleReview => (Spec => PausedRunIsParked)
  <1> SUFFICES ASSUME SingleReview PROVE Spec => PausedRunIsParked
    OBVIOUS
  <1>1. ReviewInvariant /\ [Next]_vars =>
            [(pc = "dispatch" /\ Live /\ ~Live' /\ crashes' = crashes)
                => runState = "awaiting_approval"]_vars
    <2> SUFFICES ASSUME ReviewInvariant, [Next]_vars,
                        pc = "dispatch", Live, ~Live', crashes' = crashes
                 PROVE  runState = "awaiting_approval"
      OBVIOUS
    <2>1. DispatchDone
      BY
      DEF Live, LockFree, Next, Worker, Scheduler, Manager, Startup, User, Wait, vars,
          StartRun,
             InsertSteps, ExecuteRun, ClaimRun, ScheduleReady, SkipBlockedDone, Finish, ParkRun,
             CheckpointsDone, AbortDone, CancelRun, CancelDone, RetryRun, RetryDone,
             ResumeSelect, ResumeReset, ResumeExecute, SkipBlocked, EnterCheckpoint, Dispatch,
             StartStep, CompleteStep, AbortRun, AbortSkip, CancelStep, RetryReset, ApproveStep,
             RejectStep, RejectDependent, RejectRun, RequireAwaiting, Crash, db, tasks, calls,
             handler, mgr, proc, ReviewInvariant, NoRestart, Release, DropContext
    <2>2. QED
      BY <2>1 DEF DispatchDone, MustPause, InState, ReviewInvariant, ParkedInRow, Live
  <1>2. QED
    BY <1>1, ReviewSafe, PTL DEF Spec, PausedRunIsParked

-----------------------------------------------------------------------------
(***************************************************************************)
(* Plain work: no checkpoints in the workflow, users who wait for startup   *)
(* recovery, and no retry of a run that a hard stop aborted under its       *)
(* workers.  Cancellation, failures, retries and crashes at any write stay. *)
(* Each excluded case breaks one of the properties below (README).          *)
(***************************************************************************)
PlainWork ==
    /\ ApprovalSteps = {}
    /\ QuietStartup
    /\ "stop" \in Outcomes => MaxRetries = 0

\* Nobody waits for a decision, so the manager has nothing to do.
NoApprovals ==
    /\ mgrOp = "idle" /\ mgrTodo = {}
    /\ InState(stepState, {"awaiting_approval"}) = {}
    /\ runState \notin {"awaiting_approval", "rejected"}
    /\ pc \notin {"checkpoint", "park"}

\* While a handler holds the lock its snapshot is what the rows say, but for
\* what the handler itself has written.
SnapshotFresh ==
    /\ pc \in {"skip", "finish"} => seen = stepState
    /\ pc = "finish" => AllTerminal(seen)
    /\ pc = "dispatch" =>
        /\ todo \subseteq ReadySteps(seen)
        /\ \A s \in Steps : stepState[s] = IF s \in ReadySteps(seen) \ todo
                                           THEN "running" ELSE seen[s]
        /\ ~AllTerminal(seen) /\ Blocked(seen) = {} /\ ctx = "live"
    /\ pc = "abort" => todo = NonTerminal(stepState) /\ "stop" \in Outcomes
    /\ pc = "cancel" =>
        /\ runState = "cancelling"
        /\ \/ todo = NonTerminal(stepState)
           \/ todo = {} /\ \A s \in Steps : stepState[s] = "pending"
    /\ pc = "retry" =>
        /\ runState = "failed" /\ MaxRetries > 0
        /\ todo \cap InState(stepState, {"absent", "running", "completed"}) = {}

\* Every task is a running row of the context and the other way round; tasks
\* outlive their context only under a run that nobody takes up again; rows
\* outlive their tasks only until recovery resets them.
TasksMatchRows ==
    /\ \A s \in Steps : queued[s] + running[s] <= 1
    /\ Live /\ pc \notin {"abort", "cancel"} =>
        inFlight = Busy /\ Busy = InState(stepState, {"running"})
    /\ ~Live /\ Busy /= {} =>
        \/ runState \in {"cancelling", "cancelled"}
        \/ runState = "failed" /\ MaxRetries = 0
    /\ ~Live /\ InState(stepState, {"running"}) /= {} =>
        \/ runState = "cancelling"
        \/ runState = "running" /\ boot \in {"select", "reset"}
    /\ ~Live /\ runState = "running" => boot /= "done"
    /\ runState = "cancelling" =>
        \/ pc = "cancel"
        \/ ~Live /\ Busy = {} /\ execCalls = 0 /\ starter = "idle"

\* The inductive invariant of plain work.
WorkInvariant ==
    /\ ExecutorInvariant
    /\ NoApprovals
    /\ StartupAlone
    /\ RowsTogether
    /\ SnapshotFresh
    /\ TasksMatchRows
    /\ TasksWithinLimit
    /\ DependencyOrder

\* The steps that plain work takes: neither checkpoints nor the manager.
PlainStep ==
    \/ StartRun \/ InsertSteps \/ ExecuteRun \/ ScheduleReady \/ SkipBlockedDone
    \/ Finish \/ DispatchDone \/ AbortDone \/ CancelRun \/ CancelDone
    \/ RetryRun \/ RetryDone \/ Crash \/ ResumeSelect \/ ResumeReset \/ ResumeExecute
    \/ \E s \in Steps : \/ SkipBlocked(s) \/ Dispatch(s) \/ StartStep(s)
                        \/ "stop" \in Outcomes /\ AbortRun(s)
                        \/ AbortSkip(s) \/ CancelStep(s) \/ RetryReset(s)
    \/ \E s \in Steps, result \in Outcomes \ {"stop"} : CompleteStep(s, result)
    \/ UNCHANGED vars

\* In plain work every step of the system is one of these.
LEMMA PlainNext ==
    PlainWork /\ WorkInvariant /\ [Next]_vars => PlainStep
  <1> SUFFICES ASSUME PlainWork, WorkInvariant, [Next]_vars PROVE PlainStep
    OBVIOUS
  <1> USE DEF WorkInvariant, NoApprovals, InState
  <1>1. ASSUME NEW s \in Steps
        PROVE  ~EnterCheckpoint(s) /\ ~ApproveStep(s) /\ ~RejectStep(s) /\ ~RejectDependent(s)
    BY DEF EnterCheckpoint, ApproveStep, RejectStep, RejectDependent
  <1>2. ~ParkRun /\ ~CheckpointsDone /\ ~RejectRun
    BY DEF ParkRun, CheckpointsDone, RejectRun
  <1>3. \A s \in Steps, request \in {"approve", "reject"} : ~RequireAwaiting(request, s)
    BY DEF RequireAwaiting, IsAwaiting
  <1>4. QED
    BY <1>1, <1>2, <1>3
    DEF PlainStep, Next, Worker, Scheduler, Manager, Startup, User, Wait

\* Nothing in plain work parks a step or a run, or calls the ApprovalManager.
LEMMA PlainNoApprovals ==
    PlainWork /\ WorkInvariant /\ PlainStep => NoApprovals'
  <1> SUFFICES ASSUME PlainWork, WorkInvariant, PlainStep PROVE NoApprovals'
    OBVIOUS
  <1> USE DEF LockFree, Live, db, tasks, calls, handler, mgr, proc, WorkInvariant,
              ExecutorInvariant, TypeOK,
              NoApprovals, InState, PlainWork, ReadyCheckpoints, LiveRunUndecided, HandlerOwnsContext
  <1>1. CASE StartRun
    BY <1>1 DEF StartRun, UserMayAct
  <1>2. CASE InsertSteps
    BY <1>2 DEF InsertSteps
  <1>3. CASE ExecuteRun
    BY <1>3 DEF ExecuteRun, ClaimRun
  <1>4. CASE ScheduleReady
    BY <1>4 DEF ScheduleReady, AfterSkip
  <1>5. CASE SkipBlockedDone
    BY <1>5 DEF SkipBlockedDone, AfterSkip
  <1>6. CASE Finish
    BY <1>6 DEF Finish, DropContext, Release, DeriveOutcome
  <1>7. CASE DispatchDone
    BY <1>7 DEF DispatchDone, MustPause, DropContext, Release
  <1>8. CASE AbortDone
    BY <1>8 DEF AbortDone, DropContext, Release
  <1>9. CASE CancelRun
    BY <1>9 DEF CancelRun, UserMayAct
  <1>10. CASE CancelDone
    BY <1>10 DEF CancelDone, DropContext, Release
  <1>11. CASE RetryRun
    BY <1>11 DEF RetryRun, Retryable, UserMayAct
  <1>12. CASE RetryDone
    BY <1>12 DEF RetryDone, Release
  <1>13. CASE Crash
    BY <1>13 DEF Crash, DropContext, Release
  <1>14. CASE ResumeSelect
    BY <1>14 DEF ResumeSelect
  <1>15. CASE ResumeReset
    BY <1>15 DEF ResumeReset, ResetInflight
  <1>16. CASE ResumeExecute
    BY <1>16 DEF ResumeExecute, ClaimRun
  <1>17. ASSUME NEW s \in Steps, SkipBlocked(s) PROVE NoApprovals'
    BY <1>17 DEF SkipBlocked
  <1>18. ASSUME NEW s \in Steps, Dispatch(s) PROVE NoApprovals'
    BY <1>18 DEF Dispatch
  <1>19. ASSUME NEW s \in Steps, StartStep(s) PROVE NoApprovals'
    BY <1>19 DEF StartStep
  <1>20. ASSUME NEW s \in Steps, "stop" \in Outcomes, AbortRun(s) PROVE NoApprovals'
    BY <1>20 DEF AbortRun, ReportAccepted, NonTerminal
  <1>21. ASSUME NEW s \in Steps, AbortSkip(s) PROVE NoApprovals'
    BY <1>21 DEF AbortSkip
  <1>22. ASSUME NEW s \in Steps, CancelStep(s) PROVE NoApprovals'
    BY <1>22 DEF CancelStep
  <1>23. ASSUME NEW s \in Steps, RetryReset(s) PROVE NoApprovals'
    BY <1>23 DEF RetryReset
  <1>24. ASSUME NEW s \in Steps, NEW result \in Outcomes \ {"stop"}, CompleteStep(s, result)
         PROVE  NoApprovals'
    BY <1>24, EnvAssumption DEF CompleteStep, ReportAccepted
  <1>25. CASE UNCHANGED vars
    BY <1>25 DEF vars
  <1>26. QED
    BY <1>1, <1>2, <1>3, <1>4, <1>5, <1>6, <1>7, <1>8, <1>9, <1>10, <1>11, <1>12, <1>13,
       <1>14, <1>15, <1>16, <1>17, <1>18, <1>19, <1>20, <1>21, <1>22, <1>23, <1>24, <1>25
    DEF PlainStep

\* What retry_run resets is neither running nor completed: a step downstream
\* of a failed one was never dispatched.
LEMMA FailedClosureInactive ==
    ASSUME TypeOK, DependencyOrder, RowsTogether
    PROVE  ErrorClosure(stepState) \cap InState(stepState, {"absent", "running", "completed"}) = {}
  <1> DEFINE C == {t \in Steps : stepState[t] \notin {"running", "awaiting_approval", "completed"}}
             failed == InState(stepState, {"failed"})
  <1>1. DOMAIN DependsOn = Steps /\ \A t \in Steps : DependsOn[t] \subseteq Steps
    BY GraphAssumption DEF Graphs
  <1>2. \A t \in C : Successors(DependsOn, t) \subseteq C
    BY <1>1 DEF Successors, Predecessors, DependencyOrder, InState
  <1>3. DownwardClosed(DependsOn, C)
    BY <1>2 DEF DownwardClosed
  <1>4. C \in SUBSET DOMAIN DependsOn
    BY <1>1
  <1>5. \A s \in failed : s \in C /\ DependentsOf(DependsOn, s) \subseteq C
    <2> SUFFICES ASSUME NEW s \in failed
                 PROVE  s \in C /\ DependentsOf(DependsOn, s) \subseteq C
      OBVIOUS
    <2>1. s \in C
      BY DEF InState
    <2>2. Successors(DependsOn, s) \subseteq C
      BY <1>2, <2>1
    <2>3. QED
      BY <1>3, <1>4, <2>1, <2>2, DependentsLeast
  <1>6. ErrorClosure(stepState) \subseteq C
    BY <1>5 DEF ErrorClosure
  <1>7. failed /= {} => \A t \in Steps : stepState[t] /= "absent"
    BY DEF RowsTogether, NoRows, InState
  <1>8. ErrorClosure(stepState) /= {} => failed /= {}
    BY DEF ErrorClosure
  <1>9. QED
    BY <1>6, <1>7, <1>8 DEF InState

\* Under the executor's lock nobody else writes the rows, so the snapshot a
\* handler decides on is what the rows say.
LEMMA PlainSnapshot ==
    PlainWork /\ WorkInvariant /\ PlainStep => SnapshotFresh'
  <1> SUFFICES ASSUME PlainWork, WorkInvariant, PlainStep PROVE SnapshotFresh'
    OBVIOUS
  <1> USE DEF LockFree, Live, db, tasks, calls, handler, mgr, proc, WorkInvariant,
              ExecutorInvariant, TypeOK,
              SnapshotFresh, InState, NonTerminal, AllTerminal, StartupAlone, NoApprovals, HandlerOwnsContext
  <1>1. CASE StartRun
    BY <1>1 DEF StartRun, UserMayAct
  <1>2. CASE InsertSteps
    BY <1>2 DEF InsertSteps, NoRows
  <1>3. CASE ExecuteRun
    BY <1>3 DEF ExecuteRun, ClaimRun
  <1>4. CASE ScheduleReady
    BY <1>4
    DEF ScheduleReady, AfterSkip, PlainWork, ReadyCheckpoints, RowsTogether, Blocked,
        Pending, ReadySteps, NoRows
  <1>5. CASE SkipBlockedDone
    BY <1>5
    DEF SkipBlockedDone, AfterSkip, PlainWork, ReadyCheckpoints, RowsTogether, Blocked,
        Pending, ReadySteps, NoRows
  <1>6. CASE Finish
    BY <1>6 DEF Finish, DropContext, Release
  <1>7. CASE DispatchDone
    BY <1>7 DEF DispatchDone, MustPause, DropContext, Release
  <1>8. CASE AbortDone
    BY <1>8 DEF AbortDone, DropContext, Release
  <1>9. CASE CancelRun
    BY <1>9 DEF CancelRun, UserMayAct
  <1>10. CASE CancelDone
    BY <1>10 DEF CancelDone, DropContext, Release
  <1>11. CASE RetryRun
    BY <1>11, FailedClosureInactive, BoundsAssumption
    DEF RetryRun, Retryable, UserMayAct, PlainWork
  <1>12. CASE RetryDone
    BY <1>12 DEF RetryDone, Release
  <1>13. CASE Crash
    BY <1>13 DEF Crash, DropContext, Release
  <1>14. CASE ResumeSelect
    BY <1>14 DEF ResumeSelect
  <1>15. CASE ResumeReset
    BY <1>15 DEF ResumeReset, ResetInflight
  <1>16. CASE ResumeExecute
    BY <1>16 DEF ResumeExecute, ClaimRun
  <1>17. ASSUME NEW s \in Steps, SkipBlocked(s) PROVE SnapshotFresh'
    BY <1>17 DEF SkipBlocked
  <1>18. ASSUME NEW s \in Steps, Dispatch(s) PROVE SnapshotFresh'
    BY <1>18 DEF Dispatch, ReadySteps, Pending, Blocked
  <1>19. ASSUME NEW s \in Steps, StartStep(s) PROVE SnapshotFresh'
    BY <1>19 DEF StartStep, ReadySteps, Pending, Blocked
  <1>20. ASSUME NEW s \in Steps, "stop" \in Outcomes, AbortRun(s) PROVE SnapshotFresh'
    BY <1>20 DEF AbortRun, ReportAccepted, TasksMatchRows, Busy
  <1>21. ASSUME NEW s \in Steps, AbortSkip(s) PROVE SnapshotFresh'
    BY <1>21 DEF AbortSkip
  <1>22. ASSUME NEW s \in Steps, CancelStep(s) PROVE SnapshotFresh'
    BY <1>22 DEF CancelStep
  <1>23. ASSUME NEW s \in Steps, RetryReset(s) PROVE SnapshotFresh'
    BY <1>23 DEF RetryReset
  <1>24. ASSUME NEW s \in Steps, NEW result \in Outcomes \ {"stop"}, CompleteStep(s, result)
         PROVE  SnapshotFresh'
    BY <1>24, EnvAssumption DEF CompleteStep, ReportAccepted
  <1>25. CASE UNCHANGED vars
    BY <1>25 DEF vars, ReadySteps, Pending, Blocked
  <1>26. QED
    BY <1>1, <1>2, <1>3, <1>4, <1>5, <1>6, <1>7, <1>8, <1>9, <1>10, <1>11, <1>12, <1>13,
       <1>14, <1>15, <1>16, <1>17, <1>18, <1>19, <1>20, <1>21, <1>22, <1>23, <1>24, <1>25
    DEF PlainStep

\* Tasks, in-flight set and running rows move together: _schedule_ready makes
\* them, _on_step_complete and _abort_run undo them.
LEMMA PlainTasks ==
    PlainWork /\ WorkInvariant /\ PlainStep => TasksMatchRows'
  <1> SUFFICES ASSUME PlainWork, WorkInvariant, PlainStep PROVE TasksMatchRows'
    OBVIOUS
  <1> USE DEF LockFree, Live, db, tasks, calls, handler, mgr, proc, WorkInvariant,
              ExecutorInvariant, TypeOK,
              TasksMatchRows, Busy, InState, StartupAlone, HandlerOwnsContext, LiveRunUndecided
  <1>1. CASE StartRun
    BY <1>1 DEF StartRun, UserMayAct
  <1>2. CASE InsertSteps
    BY <1>2 DEF InsertSteps, NoRows
  <1>3. CASE ExecuteRun
    BY <1>3 DEF ExecuteRun, ClaimRun, NoApprovals, TerminalRunStates, RowsTogether
  <1>4. CASE ScheduleReady
    BY <1>4 DEF ScheduleReady, AfterSkip
  <1>5. CASE SkipBlockedDone
    BY <1>5 DEF SkipBlockedDone, AfterSkip
  <1>6. CASE Finish
    BY <1>6
    DEF Finish, DropContext, Release, SnapshotFresh, DeriveOutcome, AllTerminal,
        NonTerminal
  <1>7. CASE DispatchDone
    BY <1>7 DEF DispatchDone, MustPause, DropContext, Release, SnapshotFresh, NoApprovals
  <1>8. CASE AbortDone
    BY <1>8 DEF AbortDone, DropContext, Release, SnapshotFresh, NonTerminal, PlainWork
  <1>9. CASE CancelRun
    BY <1>9 DEF CancelRun, UserMayAct
  <1>10. CASE CancelDone
    BY <1>10 DEF CancelDone, DropContext, Release, SnapshotFresh, NonTerminal
  <1>11. CASE RetryRun
    BY <1>11 DEF RetryRun, Retryable, UserMayAct
  <1>12. CASE RetryDone
    BY <1>12 DEF RetryDone, Release, SnapshotFresh
  <1>13. CASE Crash
    BY <1>13 DEF Crash, DropContext, Release, NoApprovals
  <1>14. CASE ResumeSelect
    BY <1>14 DEF ResumeSelect
  <1>15. CASE ResumeReset
    BY <1>15 DEF ResumeReset, ResetInflight
  <1>16. CASE ResumeExecute
    BY <1>16 DEF ResumeExecute, ClaimRun, NoApprovals, TerminalRunStates, RowsTogether
  <1>17. ASSUME NEW s \in Steps, SkipBlocked(s) PROVE TasksMatchRows'
    BY <1>17 DEF SkipBlocked, SnapshotFresh, Blocked, Pending
  <1>18. ASSUME NEW s \in Steps, Dispatch(s) PROVE TasksMatchRows'
    BY <1>18 DEF Dispatch, SnapshotFresh, ReadySteps, Pending
  <1>19. ASSUME NEW s \in Steps, StartStep(s) PROVE TasksMatchRows'
    BY <1>19 DEF StartStep
  <1>20. ASSUME NEW s \in Steps, "stop" \in Outcomes, AbortRun(s) PROVE TasksMatchRows'
    BY <1>20 DEF AbortRun, ReportAccepted
  <1>21. ASSUME NEW s \in Steps, AbortSkip(s) PROVE TasksMatchRows'
    BY <1>21 DEF AbortSkip
  <1>22. ASSUME NEW s \in Steps, CancelStep(s) PROVE TasksMatchRows'
    BY <1>22 DEF CancelStep
  <1>23. ASSUME NEW s \in Steps, RetryReset(s) PROVE TasksMatchRows'
    BY <1>23 DEF RetryReset
  <1>24. ASSUME NEW s \in Steps, NEW result \in Outcomes \ {"stop"}, CompleteStep(s, result)
         PROVE  TasksMatchRows'
    BY <1>24, EnvAssumption DEF CompleteStep, ReportAccepted
  <1>25. CASE UNCHANGED vars
    BY <1>25 DEF vars
  <1>26. QED
    BY <1>1, <1>2, <1>3, <1>4, <1>5, <1>6, <1>7, <1>8, <1>9, <1>10, <1>11, <1>12, <1>13,
       <1>14, <1>15, <1>16, <1>17, <1>18, <1>19, <1>20, <1>21, <1>22, <1>23, <1>24, <1>25
    DEF PlainStep

\* A fresh database and an empty process satisfy the invariant of plain work.
LEMMA InitWork == Init => WorkInvariant
  <1> SUFFICES ASSUME Init PROVE WorkInvariant
    OBVIOUS
  <1>1. ExecutorInvariant
    BY InitExecutorInvariant
  <1>2. Busy = {}
    BY DEF Init, Busy
  <1>3. TasksWithinLimit
    BY <1>2, FS_EmptySet, LimitAssumption DEF TasksWithinLimit
  <1>4. QED
    BY <1>1, <1>2, <1>3
    DEF Init, WorkInvariant, NoApprovals, StartupAlone, RowsTogether, SnapshotFresh,
        TasksMatchRows, DependencyOrder, InState, NoRows, LockFree, Live

\* The invariant of plain work holds, on top of that of orderly
\* operation, for every graph, limit, bound on crashes and
\* retries and choice of outcomes.
THEOREM WorkSafe == PlainWork => (Spec => []WorkInvariant)
  <1> SUFFICES ASSUME PlainWork PROVE Spec => []WorkInvariant
    OBVIOUS
  <1>1. Init => WorkInvariant
    BY InitWork
  <1>2. WorkInvariant /\ OrderInvariant' /\ [Next]_vars => WorkInvariant'
    <2> SUFFICES ASSUME WorkInvariant, OrderInvariant', [Next]_vars PROVE WorkInvariant'
      OBVIOUS
    <2>1. PlainStep
      BY PlainNext
    <2>2. DependencyOrder'
      BY OrderedDependencies, PTL
    <2>3. ExecutorInvariant' /\ StartupAlone' /\ RowsTogether' /\ TasksWithinLimit'
      BY DEF OrderInvariant
    <2>4. QED
      BY <2>1, <2>2, <2>3, PlainNoApprovals, PlainSnapshot, PlainTasks DEF WorkInvariant
  <1>3. Spec => []OrderInvariant
    BY OrderSafe DEF PlainWork, Orderly
  <1>4. QED
    BY <1>1, <1>2, <1>3, PTL DEF Spec

-----------------------------------------------------------------------------
\* Somebody is responsible for an undecided run: a caller about to execute
\* it, a pending pass of the scheduler, a task, or the cancellation that is
\* under way.
NobodyForgotten ==
    /\ boot = "done" /\ runState = "pending" => starter = "inserting" \/ execCalls > 0
    /\ Live /\ LockFree => schedCalls > 0 \/ Busy /= {}
    /\ runState = "cancelling" => pc = "cancel" /\ "cancel" \in UserRequests

\* A crash in the middle of cancel_run leaves a run that recovery does not
\* select (README), so one of the two is left out.
NoCrashedCancel == "cancel" \notin UserRequests \/ MaxCrashes = 0

\* _schedule_ready never gives the lock back with nothing dispatched and
\* nothing in flight: if no step runs, an acyclic graph has a pending step
\* that is ready or blocked.
LEMMA DispatchLeavesWork ==
    ASSUME WorkInvariant, Acyclic(DependsOn), DispatchDone
    PROVE  Busy /= {}
  <1> SUFFICES ASSUME Busy = {} PROVE FALSE
    OBVIOUS
  <1> DEFINE P == InState(seen, {"pending"})
  <1>1. /\ stepState \in [Steps -> StepStates] /\ seen \in [Steps -> StepStates]
        /\ todo \subseteq Steps
    BY DEF WorkInvariant, ExecutorInvariant, TypeOK
  <1>2. pc = "dispatch" /\ Live /\ ctx = "live"
    BY DEF DispatchDone, WorkInvariant, SnapshotFresh, Live
  <1>3. /\ todo \subseteq ReadySteps(seen)
        /\ \A s \in Steps : stepState[s] = IF s \in ReadySteps(seen) \ todo
                                           THEN "running" ELSE seen[s]
        /\ ~AllTerminal(seen) /\ Blocked(seen) = {}
    BY <1>2 DEF WorkInvariant, SnapshotFresh
  <1>4. \A s \in Steps : stepState[s] \notin {"running", "awaiting_approval", "absent"}
    BY <1>1, <1>2 DEF WorkInvariant, TasksMatchRows, NoApprovals, RowsTogether, InState
  <1>5. ReadySteps(seen) \subseteq Steps
    BY DEF ReadySteps, Pending, InState
  <1>6. /\ ReadySteps(seen) \ todo = {}
        /\ \A s \in Steps : seen[s] \notin {"running", "awaiting_approval", "absent"}
    BY <1>3, <1>4, <1>5
  <1>7. todo = {}
    <2>1. InState(seen, {"running"}) = {}
      BY <1>6 DEF InState
    <2>2. Available = ConcurrencyLimit
      BY <1>6, <2>1, FS_EmptySet, LimitAssumption DEF Available
    <2>3. QED
      BY <2>2, LimitAssumption DEF DispatchDone
  <1>8. ReadySteps(seen) = {}
    BY <1>6, <1>7
  <1>9. P /= {} /\ P \in SUBSET Steps /\ Pending(seen) = P
    BY <1>2, <1>3, <1>6 DEF AllTerminal, NonTerminal, InState, Pending
  <1>10. DOMAIN DependsOn = Steps /\ \A s \in Steps : DependsOn[s] \subseteq Steps
    BY GraphAssumption DEF Graphs
  <1>11. PICK p \in P : DependsOn[p] \cap P = {}
    BY <1>9, <1>10, AcyclicHasFirst, StepsAssumption
  <1>12. \A d \in DependsOn[p] : seen[d] = "completed"
    <2> SUFFICES ASSUME NEW d \in DependsOn[p] PROVE seen[d] = "completed"
      OBVIOUS
    <2>1. d \in Steps /\ d \notin P
      BY <1>9, <1>10, <1>11
    <2>2. seen[d] \notin UnsuccessfulStates
      BY <1>3, <1>9 DEF Blocked
    <2>3. QED
      BY <1>1, <1>6, <2>1, <2>2
      DEF InState, StepStates, TerminalStepStates, UnsuccessfulStates
  <1>13. p \in ReadySteps(seen)
    BY <1>9, <1>12 DEF ReadySteps
  <1>14. QED
    BY <1>8, <1>13

\* Every step keeps somebody responsible for the run.
LEMMA NextRemembers ==
    PlainWork /\ NoCrashedCancel /\ Acyclic(DependsOn)
      /\ WorkInvariant /\ NobodyForgotten /\ PlainStep
        => NobodyForgotten'
  <1> SUFFICES ASSUME PlainWork, NoCrashedCancel, Acyclic(DependsOn),
               WorkInvariant, NobodyForgotten, PlainStep PROVE NobodyForgotten'
    OBVIOUS
  <1> USE DEF LockFree, Live, db, tasks, calls, handler, mgr, proc, WorkInvariant,
              ExecutorInvariant, TypeOK,
              NobodyForgotten, HandlerOwnsContext, LiveRunUndecided, Busy
  <1>1. CASE StartRun
    BY <1>1 DEF StartRun, UserMayAct, StartupAlone, PlainWork
  <1>2. CASE InsertSteps
    BY <1>2 DEF InsertSteps, StartupAlone
  <1>3. CASE ExecuteRun
    BY <1>3 DEF ExecuteRun, ClaimRun, TerminalRunStates
  <1>4. CASE ScheduleReady
    BY <1>4 DEF ScheduleReady, AfterSkip
  <1>5. CASE SkipBlockedDone
    BY <1>5 DEF SkipBlockedDone, AfterSkip
  <1>6. CASE Finish
    BY <1>6 DEF Finish, DropContext, Release, DeriveOutcome
  <1>7. CASE DispatchDone
    BY <1>7, DispatchLeavesWork
    DEF DispatchDone, MustPause, DropContext, Release, NoApprovals
  <1>8. CASE AbortDone
    BY <1>8 DEF AbortDone, DropContext, Release
  <1>9. CASE CancelRun
    BY <1>9 DEF CancelRun, UserMayAct
  <1>10. CASE CancelDone
    BY <1>10 DEF CancelDone, DropContext, Release
  <1>11. CASE RetryRun
    BY <1>11 DEF RetryRun, Retryable, UserMayAct
  <1>12. CASE RetryDone
    BY <1>12 DEF RetryDone, Release, StartupAlone
  <1>13. CASE Crash
    BY <1>13, BoundsAssumption DEF Crash, DropContext, Release, NoCrashedCancel
  <1>14. CASE ResumeSelect
    BY <1>14 DEF ResumeSelect
  <1>15. CASE ResumeReset
    BY <1>15 DEF ResumeReset, ResetInflight
  <1>16. CASE ResumeExecute
    BY <1>16 DEF ResumeExecute, ClaimRun, TerminalRunStates, StartupAlone
  <1>17. ASSUME NEW s \in Steps, SkipBlocked(s) PROVE NobodyForgotten'
    BY <1>17 DEF SkipBlocked
  <1>18. ASSUME NEW s \in Steps, Dispatch(s) PROVE NobodyForgotten'
    BY <1>18 DEF Dispatch
  <1>19. ASSUME NEW s \in Steps, StartStep(s) PROVE NobodyForgotten'
    BY <1>19 DEF StartStep
  <1>20. ASSUME NEW s \in Steps, "stop" \in Outcomes, AbortRun(s) PROVE NobodyForgotten'
    BY <1>20 DEF AbortRun, ReportAccepted
  <1>21. ASSUME NEW s \in Steps, AbortSkip(s) PROVE NobodyForgotten'
    BY <1>21 DEF AbortSkip
  <1>22. ASSUME NEW s \in Steps, CancelStep(s) PROVE NobodyForgotten'
    BY <1>22 DEF CancelStep
  <1>23. ASSUME NEW s \in Steps, RetryReset(s) PROVE NobodyForgotten'
    BY <1>23 DEF RetryReset
  <1>24. ASSUME NEW s \in Steps, NEW result \in Outcomes \ {"stop"}, CompleteStep(s, result)
         PROVE  NobodyForgotten'
    BY <1>24 DEF CompleteStep, ReportAccepted
  <1>25. CASE UNCHANGED vars
    BY <1>25 DEF vars
  <1>26. QED
    BY <1>1, <1>2, <1>3, <1>4, <1>5, <1>6, <1>7, <1>8, <1>9, <1>10, <1>11, <1>12, <1>13,
       <1>14, <1>15, <1>16, <1>17, <1>18, <1>19, <1>20, <1>21, <1>22, <1>23, <1>24, <1>25
    DEF PlainStep

\* A run at rest has been decided: on an acyclic graph no interleaving of
\* failures, hard stops, retries, cancellation or crashes leaves a run
\* undecided with nobody at work.
THEOREM RunsAreNotStranded ==
    PlainWork /\ NoCrashedCancel /\ Acyclic(DependsOn) => (Spec => []NeverStranded)
  <1> SUFFICES ASSUME PlainWork, NoCrashedCancel, Acyclic(DependsOn)
               PROVE  Spec => []NeverStranded
    OBVIOUS
  <1>1. Spec => []WorkInvariant
    BY WorkSafe
  <1>2. Init => NobodyForgotten
    BY DEF Init, NobodyForgotten, Live
  <1>3. WorkInvariant /\ NobodyForgotten /\ [Next]_vars => NobodyForgotten'
    BY PlainNext, NextRemembers
  <1>4. WorkInvariant /\ NobodyForgotten => NeverStranded
    <2> SUFFICES ASSUME WorkInvariant, NobodyForgotten, Quiescent
                 PROVE  runState \in TerminalRunStates \cup {"absent"}
      BY DEF NeverStranded
    <2>1. Busy = {}
      BY DEF Quiescent, Busy
    <2>2. runState /= "running"
      BY <2>1 DEF Quiescent, NobodyForgotten, WorkInvariant, TasksMatchRows
    <2>3. runState \notin {"pending", "cancelling"}
      BY DEF Quiescent, NobodyForgotten, LockFree
    <2>4. QED
      BY <2>2, <2>3 DEF WorkInvariant, ExecutorInvariant, TypeOK, RunStates, NoApprovals
  <1>5. QED
    BY <1>1, <1>2, <1>3, <1>4, PTL DEF Spec

-----------------------------------------------------------------------------
\* Who may overtake whom: the manager's requests, and the handlers that give a
\* run up, write rows under different locks.
NoRejections == "reject" \notin UserRequests
NoDecisions == UserRequests \cap {"approve", "reject"} = {}
NoTeardowns == "cancel" \notin UserRequests /\ "stop" \notin Outcomes

\* A handler is at work only where users ask for it, and a run being cancelled
\* is not decided otherwise, except by a rejection.
HandlersOnRequest ==
    /\ pc = "cancel" =>
        "cancel" \in UserRequests /\ runState \in {"cancelling", "rejected"}
    /\ NoRejections => mgrOp \in {"idle", "approve"} /\ runState /= "rejected"
    /\ NoDecisions => mgrOp = "idle"

\* Without decisions, _abort_run and cancel_run have only undecided steps left
\* to write.
TeardownExact ==
    NoDecisions /\ pc \in {"abort", "cancel"} => todo \subseteq NonTerminal(stepState)

\* Without aborts and cancellations, the checkpoint that approve or reject has
\* looked up is still awaiting, and what reject has to skip is pending or has
\* been skipped by the scheduler.
DecisionExact ==
    NoTeardowns =>
        /\ UnderDecision \subseteq InState(stepState, {"awaiting_approval"})
        /\ mgrOp = "dependents" =>
            mgrTodo \subseteq InState(stepState, {"pending", "skipped"})

\* As long as the process lives, a row says running only while its task is there
\* to report, or a handler is about to close it.
RunningHaveTasks ==
    MaxCrashes = 0 =>
        InState(stepState, {"running"}) \subseteq
            IF pc \in {"abort", "cancel"} THEN todo
            ELSE IF Live THEN Busy ELSE {}

\* What the decisions need on top of the invariant of orderly operation.
DecisionsInvariant ==
    HandlersOnRequest /\ TeardownExact /\ DecisionExact /\ RunningHaveTasks

\* Requests come from users, and the manager decides one at a time.
LEMMA DecisionsOnRequest ==
    Orderly /\ OrderInvariant /\ DecisionsInvariant /\ [Next]_vars => HandlersOnRequest'
  <1> SUFFICES ASSUME Orderly, OrderInvariant, DecisionsInvariant, [Next]_vars
               PROVE  HandlersOnRequest'
    OBVIOUS
  <1> USE DEF LockFree, Live, db, tasks, calls, handler, mgr, proc, OrderInvariant,
              ExecutorInvariant, TypeOK, DecisionsInvariant, HandlersOnRequest,
              NoRejections, NoDecisions
  <1>1. CASE StartRun
    BY <1>1 DEF StartRun, UserMayAct, StartupAlone
  <1>2. CASE InsertSteps
    BY <1>2 DEF InsertSteps
  <1>3. CASE ExecuteRun
    BY <1>3 DEF ExecuteRun, ClaimRun, StartupAlone
  <1>4. CASE ScheduleReady
    BY <1>4 DEF ScheduleReady, AfterSkip
  <1>5. CASE SkipBlockedDone
    BY <1>5 DEF SkipBlockedDone, AfterSkip
  <1>6. CASE Finish
    BY <1>6 DEF Finish, DropContext, Release, DeriveOutcome
  <1>7. CASE ParkRun
    BY <1>7 DEF ParkRun
  <1>8. CASE CheckpointsDone
    BY <1>8 DEF CheckpointsDone
  <1>9. CASE DispatchDone
    BY <1>9 DEF DispatchDone, MustPause, DropContext, Release
  <1>10. CASE AbortDone
    BY <1>10 DEF AbortDone, DropContext, Release
  <1>11. CASE CancelRun
    BY <1>11 DEF CancelRun, UserMayAct
  <1>12. CASE CancelDone
    BY <1>12 DEF CancelDone, DropContext, Release
  <1>13. CASE RetryRun
    BY <1>13 DEF RetryRun, Retryable, UserMayAct
  <1>14. CASE RetryDone
    BY <1>14 DEF RetryDone, Release
  <1>15. CASE RejectRun
    BY <1>15 DEF RejectRun
  <1>16. CASE Crash
    BY <1>16 DEF Crash, DropContext, Release
  <1>17. CASE ResumeSelect
    BY <1>17 DEF ResumeSelect
  <1>18. CASE ResumeReset
    BY <1>18 DEF ResumeReset, ResetInflight
  <1>19. CASE ResumeExecute
    BY <1>19 DEF ResumeExecute, ClaimRun
  <1>20. ASSUME NEW s \in Steps, SkipBlocked(s) PROVE HandlersOnRequest'
    BY <1>20 DEF SkipBlocked
  <1>21. ASSUME NEW s \in Steps, EnterCheckpoint(s) PROVE HandlersOnRequest'
    BY <1>21 DEF EnterCheckpoint
  <1>22. ASSUME NEW s \in Steps, Dispatch(s) PROVE HandlersOnRequest'
    BY <1>22 DEF Dispatch
  <1>23. ASSUME NEW s \in Steps, StartStep(s) PROVE HandlersOnRequest'
    BY <1>23 DEF StartStep
  <1>24. ASSUME NEW s \in Steps, "stop" \in Outcomes, AbortRun(s) PROVE HandlersOnRequest'
    BY <1>24 DEF AbortRun, ReportAccepted
  <1>25. ASSUME NEW s \in Steps, AbortSkip(s) PROVE HandlersOnRequest'
    BY <1>25 DEF AbortSkip
  <1>26. ASSUME NEW s \in Steps, CancelStep(s) PROVE HandlersOnRequest'
    BY <1>26 DEF CancelStep
  <1>27. ASSUME NEW s \in Steps, RetryReset(s) PROVE HandlersOnRequest'
    BY <1>27 DEF RetryReset
  <1>28. ASSUME NEW s \in Steps, ApproveStep(s) PROVE HandlersOnRequest'
    BY <1>28 DEF ApproveStep
  <1>29. ASSUME NEW s \in Steps, RejectStep(s) PROVE HandlersOnRequest'
    BY <1>29 DEF RejectStep
  <1>30. ASSUME NEW s \in Steps, RejectDependent(s) PROVE HandlersOnRequest'
    BY <1>30 DEF RejectDependent
  <1>31. ASSUME NEW s \in Steps, NEW result \in Outcomes \ {"stop"}, CompleteStep(s, result)
         PROVE  HandlersOnRequest'
    BY <1>31 DEF CompleteStep, ReportAccepted
  <1>32. ASSUME NEW s \in Steps, NEW request \in {"approve", "reject"},
                RequireAwaiting(request, s)
         PROVE  HandlersOnRequest'
    BY <1>32 DEF RequireAwaiting, UserMayAct, ManagerLockFree, IsAwaiting
  <1>33. CASE UNCHANGED vars
    BY <1>33 DEF vars
  <1>34. QED
    BY <1>1, <1>2, <1>3, <1>4, <1>5, <1>6, <1>7, <1>8, <1>9, <1>10, <1>11, <1>12, <1>13,
       <1>14, <1>15, <1>16, <1>17, <1>18, <1>19, <1>20, <1>21, <1>22, <1>23, <1>24,
       <1>25, <1>26, <1>27, <1>28, <1>29, <1>30, <1>31, <1>32, <1>33
    DEF Next, Worker, Scheduler, Manager, Startup, User, Wait

\* Without decisions, the handler that gives a run up is the only writer.
LEMMA TeardownStaysExact ==
    Orderly /\ OrderInvariant /\ DecisionsInvariant /\ [Next]_vars => TeardownExact'
  <1> SUFFICES ASSUME Orderly, OrderInvariant, DecisionsInvariant, [Next]_vars
               PROVE  TeardownExact'
    OBVIOUS
  <1> USE DEF LockFree, Live, db, tasks, calls, handler, mgr, proc, OrderInvariant,
              ExecutorInvariant, TypeOK, DecisionsInvariant, TeardownExact,
              HandlersOnRequest, NonTerminal, InState
  <1>1. CASE StartRun
    BY <1>1 DEF StartRun, UserMayAct
  <1>2. CASE InsertSteps
    BY <1>2 DEF InsertSteps, StartupAlone, NoRows
  <1>3. CASE ExecuteRun
    BY <1>3 DEF ExecuteRun, ClaimRun
  <1>4. CASE ScheduleReady
    BY <1>4 DEF ScheduleReady, AfterSkip
  <1>5. CASE SkipBlockedDone
    BY <1>5 DEF SkipBlockedDone, AfterSkip
  <1>6. CASE Finish
    BY <1>6 DEF Finish, DropContext, Release, DeriveOutcome
  <1>7. CASE ParkRun
    BY <1>7 DEF ParkRun
  <1>8. CASE CheckpointsDone
    BY <1>8 DEF CheckpointsDone
  <1>9. CASE DispatchDone
    BY <1>9 DEF DispatchDone, MustPause, DropContext, Release
  <1>10. CASE AbortDone
    BY <1>10 DEF AbortDone, DropContext, Release
  <1>11. CASE CancelRun
    BY <1>11 DEF CancelRun, UserMayAct
  <1>12. CASE CancelDone
    BY <1>12 DEF CancelDone, DropContext, Release
  <1>13. CASE RetryRun
    BY <1>13 DEF RetryRun, Retryable, UserMayAct
  <1>14. CASE RetryDone
    BY <1>14 DEF RetryDone, Release
  <1>15. CASE RejectRun
    BY <1>15 DEF RejectRun
  <1>16. CASE Crash
    BY <1>16 DEF Crash, DropContext, Release
  <1>17. CASE ResumeSelect
    BY <1>17 DEF ResumeSelect
  <1>18. CASE ResumeReset
    BY <1>18 DEF ResumeReset, ResetInflight, StartupAlone
  <1>19. CASE ResumeExecute
    BY <1>19 DEF ResumeExecute, ClaimRun
  <1>20. ASSUME NEW s \in Steps, SkipBlocked(s) PROVE TeardownExact'
    BY <1>20 DEF SkipBlocked
  <1>21. ASSUME NEW s \in Steps, EnterCheckpoint(s) PROVE TeardownExact'
    BY <1>21 DEF EnterCheckpoint
  <1>22. ASSUME NEW s \in Steps, Dispatch(s) PROVE TeardownExact'
    BY <1>22 DEF Dispatch
  <1>23. ASSUME NEW s \in Steps, StartStep(s) PROVE TeardownExact'
    BY <1>23 DEF StartStep
  <1>24. ASSUME NEW s \in Steps, "stop" \in Outcomes, AbortRun(s) PROVE TeardownExact'
    BY <1>24 DEF AbortRun, ReportAccepted
  <1>25. ASSUME NEW s \in Steps, AbortSkip(s) PROVE TeardownExact'
    BY <1>25 DEF AbortSkip
  <1>26. ASSUME NEW s \in Steps, CancelStep(s) PROVE TeardownExact'
    BY <1>26 DEF CancelStep
  <1>27. ASSUME NEW s \in Steps, RetryReset(s) PROVE TeardownExact'
    BY <1>27 DEF RetryReset
  <1>28. ASSUME NEW s \in Steps, ApproveStep(s) PROVE TeardownExact'
    BY <1>28 DEF ApproveStep
  <1>29. ASSUME NEW s \in Steps, RejectStep(s) PROVE TeardownExact'
    BY <1>29 DEF RejectStep
  <1>30. ASSUME NEW s \in Steps, RejectDependent(s) PROVE TeardownExact'
    BY <1>30 DEF RejectDependent
  <1>31. ASSUME NEW s \in Steps, NEW result \in Outcomes \ {"stop"}, CompleteStep(s, result)
         PROVE  TeardownExact'
    BY <1>31 DEF CompleteStep, ReportAccepted
  <1>32. ASSUME NEW s \in Steps, NEW request \in {"approve", "reject"},
                RequireAwaiting(request, s)
         PROVE  TeardownExact'
    BY <1>32 DEF RequireAwaiting, UserMayAct, ManagerLockFree, IsAwaiting, NoDecisions
  <1>33. CASE UNCHANGED vars
    BY <1>33 DEF vars
  <1>34. QED
    BY <1>1, <1>2, <1>3, <1>4, <1>5, <1>6, <1>7, <1>8, <1>9, <1>10, <1>11, <1>12, <1>13,
       <1>14, <1>15, <1>16, <1>17, <1>18, <1>19, <1>20, <1>21, <1>22, <1>23, <1>24,
       <1>25, <1>26, <1>27, <1>28, <1>29, <1>30, <1>31, <1>32, <1>33
    DEF Next, Worker, Scheduler, Manager, Startup, User, Wait

\* Without aborts and cancellations, only the manager decides a parked step or
\* one that waits for it.
LEMMA DecisionStaysExact ==
    Orderly /\ OrderInvariant /\ DecisionsInvariant /\ [Next]_vars => DecisionExact'
  <1> SUFFICES ASSUME Orderly, OrderInvariant, DecisionsInvariant, [Next]_vars
               PROVE  DecisionExact'
    OBVIOUS
  <1> USE DEF LockFree, Live, db, tasks, calls, handler, mgr, proc, OrderInvariant,
              ExecutorInvariant, TypeOK, DecisionsInvariant, DecisionExact,
              HandlersOnRequest, NoTeardowns, UnderDecision, InState, DecisionInStep
  <1>a. mgrOp = "dependents" => mgrTodo \subseteq Unmet
    BY DownstreamWaits DEF RejectionInStep
  <1>b. \A s \in UnderDecision :
            DependentsOf(DependsOn, s) \cap InState(stepState, {"running", "awaiting_approval"}) = {}
    <2>1. ASSUME NEW s \in UnderDecision PROVE s \in Steps /\ DependentsOf(DependsOn, s) \subseteq Unmet
      BY DownstreamWaits
    <2>2. QED
      BY <2>1 DEF TakenInOrder, Taken
  <1>1. CASE StartRun
    BY <1>1 DEF StartRun, UserMayAct
  <1>2. CASE InsertSteps
    BY <1>2 DEF InsertSteps, StartupAlone, NoRows
  <1>3. CASE ExecuteRun
    BY <1>3 DEF ExecuteRun, ClaimRun
  <1>4. CASE ScheduleReady
    BY <1>4 DEF ScheduleReady, AfterSkip
  <1>5. CASE SkipBlockedDone
    BY <1>5 DEF SkipBlockedDone, AfterSkip
  <1>6. CASE Finish
    BY <1>6 DEF Finish, DropContext, Release, DeriveOutcome
  <1>7. CASE ParkRun
    BY <1>7 DEF ParkRun
  <1>8. CASE CheckpointsDone
    BY <1>8 DEF CheckpointsDone
  <1>9. CASE DispatchDone
    BY <1>9 DEF DispatchDone, MustPause, DropContext, Release
  <1>10. CASE AbortDone
    BY <1>10 DEF AbortDone, DropContext, Release
  <1>11. CASE CancelRun
    BY <1>11 DEF CancelRun, UserMayAct
  <1>12. CASE CancelDone
    BY <1>12 DEF CancelDone, DropContext, Release
  <1>13. CASE RetryRun
    BY <1>13 DEF RetryRun, Retryable, UserMayAct
  <1>14. CASE RetryDone
    BY <1>14 DEF RetryDone, Release
  <1>15. CASE RejectRun
    BY <1>15 DEF RejectRun
  <1>16. CASE Crash
    BY <1>16 DEF Crash, DropContext, Release
  <1>17. CASE ResumeSelect
    BY <1>17 DEF ResumeSelect
  <1>18. CASE ResumeReset
    BY <1>18 DEF ResumeReset, ResetInflight, StartupAlone
  <1>19. CASE ResumeExecute
    BY <1>19 DEF ResumeExecute, ClaimRun
  <1>20. ASSUME NEW s \in Steps, SkipBlocked(s) PROVE DecisionExact'
    BY <1>20 DEF SkipBlocked, SchedulingInStep, Blocked, Pending
  <1>21. ASSUME NEW s \in Steps, EnterCheckpoint(s) PROVE DecisionExact'
    BY <1>21 DEF EnterCheckpoint, SchedulingInStep
  <1>22. ASSUME NEW s \in Steps, Dispatch(s) PROVE DecisionExact'
    BY <1>22, <1>a DEF Dispatch, SchedulingInStep
  <1>23. ASSUME NEW s \in Steps, StartStep(s) PROVE DecisionExact'
    BY <1>23 DEF StartStep
  <1>24. ASSUME NEW s \in Steps, "stop" \in Outcomes, AbortRun(s) PROVE DecisionExact'
    BY <1>24 DEF AbortRun, ReportAccepted
  <1>25. ASSUME NEW s \in Steps, AbortSkip(s) PROVE DecisionExact'
    BY <1>25 DEF AbortSkip, TeardownInStep
  <1>26. ASSUME NEW s \in Steps, CancelStep(s) PROVE DecisionExact'
    BY <1>26 DEF CancelStep
  <1>27. ASSUME NEW s \in Steps, RetryReset(s) PROVE DecisionExact'
    BY <1>27 DEF RetryReset, RetryInStep
  <1>28. ASSUME NEW s \in Steps, ApproveStep(s) PROVE DecisionExact'
    BY <1>28 DEF ApproveStep
  <1>29. ASSUME NEW s \in Steps, RejectStep(s) PROVE DecisionExact'
    BY <1>29, <1>b DEF RejectStep, NonTerminal
  <1>30. ASSUME NEW s \in Steps, RejectDependent(s) PROVE DecisionExact'
    BY <1>30 DEF RejectDependent
  <1>31. ASSUME NEW s \in Steps, NEW result \in Outcomes \ {"stop"}, CompleteStep(s, result)
         PROVE  DecisionExact'
    BY <1>31 DEF CompleteStep, ReportAccepted, TasksAccounted, Busy
  <1>32. ASSUME NEW s \in Steps, NEW request \in {"approve", "reject"},
                RequireAwaiting(request, s)
         PROVE  DecisionExact'
    BY <1>32 DEF RequireAwaiting, UserMayAct, ManagerLockFree, IsAwaiting
  <1>33. CASE UNCHANGED vars
    BY <1>33 DEF vars
  <1>34. QED
    BY <1>1, <1>2, <1>3, <1>4, <1>5, <1>6, <1>7, <1>8, <1>9, <1>10, <1>11, <1>12, <1>13,
       <1>14, <1>15, <1>16, <1>17, <1>18, <1>19, <1>20, <1>21, <1>22, <1>23, <1>24,
       <1>25, <1>26, <1>27, <1>28, <1>29, <1>30, <1>31, <1>32, <1>33
    DEF Next, Worker, Scheduler, Manager, Startup, User, Wait

\* Whoever takes a run from its tasks has closed its running rows.
LEMMA RunningKeepTasks ==
    Orderly /\ OrderInvariant /\ DecisionsInvariant /\ [Next]_vars => RunningHaveTasks'
  <1> SUFFICES ASSUME Orderly, OrderInvariant, DecisionsInvariant, [Next]_vars
               PROVE  RunningHaveTasks'
    OBVIOUS
  <1> USE DEF LockFree, Live, db, tasks, calls, handler, mgr, proc, OrderInvariant,
              ExecutorInvariant, TypeOK, DecisionsInvariant, RunningHaveTasks, InState,
              Busy, HandlerOwnsContext
  <1>1. CASE StartRun
    BY <1>1 DEF StartRun, UserMayAct, StartupAlone
  <1>2. CASE InsertSteps
    BY <1>2 DEF InsertSteps
  <1>3. CASE ExecuteRun
    BY <1>3 DEF ExecuteRun, ClaimRun
  <1>4. CASE ScheduleReady
    BY <1>4 DEF ScheduleReady, AfterSkip
  <1>5. CASE SkipBlockedDone
    BY <1>5 DEF SkipBlockedDone, AfterSkip
  <1>6. CASE Finish
    BY <1>6 DEF Finish, DropContext, Release, DeriveOutcome, SchedulingInStep,
       AllTerminal, NonTerminal
  <1>7. CASE ParkRun
    BY <1>7 DEF ParkRun
  <1>8. CASE CheckpointsDone
    BY <1>8 DEF CheckpointsDone
  <1>9. CASE DispatchDone
    BY <1>9 DEF DispatchDone, MustPause, DropContext, Release, TasksAccounted
  <1>10. CASE AbortDone
    BY <1>10 DEF AbortDone, DropContext, Release
  <1>11. CASE CancelRun
    BY <1>11 DEF CancelRun, UserMayAct, NonTerminal
  <1>12. CASE CancelDone
    BY <1>12 DEF CancelDone, DropContext, Release
  <1>13. CASE RetryRun
    BY <1>13 DEF RetryRun, Retryable, UserMayAct
  <1>14. CASE RetryDone
    BY <1>14 DEF RetryDone, Release
  <1>15. CASE RejectRun
    BY <1>15 DEF RejectRun
  <1>16. CASE Crash
    BY <1>16, BoundsAssumption DEF Crash, DropContext, Release
  <1>17. CASE ResumeSelect
    BY <1>17 DEF ResumeSelect
  <1>18. CASE ResumeReset
    BY <1>18 DEF ResumeReset, ResetInflight
  <1>19. CASE ResumeExecute
    BY <1>19 DEF ResumeExecute, ClaimRun
  <1>20. ASSUME NEW s \in Steps, SkipBlocked(s) PROVE RunningHaveTasks'
    BY <1>20 DEF SkipBlocked
  <1>21. ASSUME NEW s \in Steps, EnterCheckpoint(s) PROVE RunningHaveTasks'
    BY <1>21 DEF EnterCheckpoint
  <1>22. ASSUME NEW s \in Steps, Dispatch(s) PROVE RunningHaveTasks'
    BY <1>22 DEF Dispatch, SchedulingInStep
  <1>23. ASSUME NEW s \in Steps, StartStep(s) PROVE RunningHaveTasks'
    BY <1>23 DEF StartStep
  <1>24. ASSUME NEW s \in Steps, "stop" \in Outcomes, AbortRun(s) PROVE RunningHaveTasks'
    BY <1>24 DEF AbortRun, ReportAccepted, NonTerminal
  <1>25. ASSUME NEW s \in Steps, AbortSkip(s) PROVE RunningHaveTasks'
    BY <1>25 DEF AbortSkip
  <1>26. ASSUME NEW s \in Steps, CancelStep(s) PROVE RunningHaveTasks'
    BY <1>26 DEF CancelStep
  <1>27. ASSUME NEW s \in Steps, RetryReset(s) PROVE RunningHaveTasks'
    BY <1>27 DEF RetryReset
  <1>28. ASSUME NEW s \in Steps, ApproveStep(s) PROVE RunningHaveTasks'
    BY <1>28 DEF ApproveStep
  <1>29. ASSUME NEW s \in Steps, RejectStep(s) PROVE RunningHaveTasks'
    BY <1>29 DEF RejectStep
  <1>30. ASSUME NEW s \in Steps, RejectDependent(s) PROVE RunningHaveTasks'
    BY <1>30 DEF RejectDependent
  <1>31. ASSUME NEW s \in Steps, NEW result \in Outcomes \ {"stop"}, CompleteStep(s, result)
         PROVE  RunningHaveTasks'
    BY <1>31, EnvAssumption DEF CompleteStep, ReportAccepted, TasksAccounted
  <1>32. ASSUME NEW s \in Steps, NEW request \in {"approve", "reject"},
                RequireAwaiting(request, s)
         PROVE  RunningHaveTasks'
    BY <1>32 DEF RequireAwaiting, UserMayAct, ManagerLockFree, IsAwaiting
  <1>33. CASE UNCHANGED vars
    BY <1>33 DEF vars
  <1>34. QED
    BY <1>1, <1>2, <1>3, <1>4, <1>5, <1>6, <1>7, <1>8, <1>9, <1>10, <1>11, <1>12, <1>13,
       <1>14, <1>15, <1>16, <1>17, <1>18, <1>19, <1>20, <1>21, <1>22, <1>23, <1>24,
       <1>25, <1>26, <1>27, <1>28, <1>29, <1>30, <1>31, <1>32, <1>33
    DEF Next, Worker, Scheduler, Manager, Startup, User, Wait

\* These facts hold of orderly operation, whatever users ask for.
LEMMA DecisionsSafe == Orderly => (Spec => []DecisionsInvariant)
  <1> SUFFICES ASSUME Orderly PROVE Spec => []DecisionsInvariant
    OBVIOUS
  <1>1. Init => DecisionsInvariant
    BY DEF Init, DecisionsInvariant, HandlersOnRequest, TeardownExact, DecisionExact,
           RunningHaveTasks, UnderDecision, InState, NoRows
  <1>2. OrderInvariant /\ DecisionsInvariant /\ [Next]_vars => DecisionsInvariant'
    BY DecisionsOnRequest, TeardownStaysExact, DecisionStaysExact, RunningKeepTasks
    DEF DecisionsInvariant
  <1>3. Spec => []OrderInvariant
    BY OrderSafe
  <1>4. QED
    BY <1>1, <1>2, <1>3, PTL DEF Spec

\* Whenever the lock is free, the in_flight set that decides on a pause is
\* exactly the set of rows that decides on concurrency, unless a crash orphans a
\* step beside a checkpoint.
THEOREM InFlightIsRunning ==
    Orderly /\ (ApprovalSteps = {} \/ MaxCrashes = 0) => (Spec => []InFlightMatchesRows)
  <1>1. CASE ApprovalSteps = {} /\ Orderly
    <2>1. WorkInvariant => InFlightMatchesRows
      BY DEF WorkInvariant, TasksMatchRows, InFlightMatchesRows, LockFree
    <2>2. Spec => []WorkInvariant
      BY <1>1, WorkSafe DEF PlainWork, Orderly
    <2>3. QED
      BY <2>1, <2>2, PTL
  <1>2. CASE MaxCrashes = 0 /\ Orderly
    <2>1. OrderInvariant /\ DecisionsInvariant => InFlightMatchesRows
      BY <1>2 DEF OrderInvariant, DecisionsInvariant, TasksAccounted, RunningHaveTasks,
         InFlightMatchesRows, LockFree
    <2>2. QED
      BY <1>2, <2>1, OrderSafe, DecisionsSafe, PTL
  <1>3. QED
    BY <1>1, <1>2

\* A terminal step state changes only when retry_run resets the step.
StepKept ==
    \A s \in Steps :
        stepState[s] \in TerminalStepStates /\ stepState'[s] /= stepState[s]
            => pc = "retry" /\ stepState'[s] = "pending"

\* A terminal run state changes only when retry_run reopens a failed run.
RunKept ==
    runState \in TerminalRunStates /\ runState' /= runState
        => runState = "failed" /\ runState' = "pending"

\* A step goes back to pending only when no worker has it.
OrphanReset ==
    \A s \in Steps :
        stepState[s] = "running" /\ stepState'[s] = "pending"
            => queued[s] = 0 /\ running[s] = 0

\* Nobody overwrites the decision on a step: the manager's requests, or the
\* handlers that could overtake them, are left out.
LEMMA StepsKept ==
    (NoDecisions \/ NoTeardowns) /\ OrderInvariant /\ DecisionsInvariant /\ [Next]_vars => StepKept
  <1> SUFFICES ASSUME (NoDecisions \/ NoTeardowns), OrderInvariant, DecisionsInvariant, [Next]_vars
               PROVE  StepKept
    OBVIOUS
  <1> USE DEF LockFree, Live, db, tasks, calls, handler, mgr, proc, OrderInvariant,
              ExecutorInvariant, TypeOK, DecisionsInvariant, StepKept, InState,
              TerminalStepStates, UnsuccessfulStates
  <1>1. CASE StartRun
    BY <1>1 DEF StartRun, UserMayAct
  <1>2. CASE InsertSteps
    BY <1>2 DEF InsertSteps, StartupAlone, NoRows
  <1>3. CASE ExecuteRun
    BY <1>3 DEF ExecuteRun, ClaimRun
  <1>4. CASE ScheduleReady
    BY <1>4 DEF ScheduleReady, AfterSkip
  <1>5. CASE SkipBlockedDone
    BY <1>5 DEF SkipBlockedDone, AfterSkip
  <1>6. CASE Finish
    BY <1>6 DEF Finish, DropContext, Release, DeriveOutcome
  <1>7. CASE ParkRun
    BY <1>7 DEF ParkRun
  <1>8. CASE CheckpointsDone
    BY <1>8 DEF CheckpointsDone
  <1>9. CASE DispatchDone
    BY <1>9 DEF DispatchDone, MustPause, DropContext, Release
  <1>10. CASE AbortDone
    BY <1>10 DEF AbortDone, DropContext, Release
  <1>11. CASE CancelRun
    BY <1>11 DEF CancelRun, UserMayAct
  <1>12. CASE CancelDone
    BY <1>12 DEF CancelDone, DropContext, Release
  <1>13. CASE RetryRun
    BY <1>13 DEF RetryRun, Retryable, UserMayAct
  <1>14. CASE RetryDone
    BY <1>14 DEF RetryDone, Release
  <1>15. CASE RejectRun
    BY <1>15 DEF RejectRun
  <1>16. CASE Crash
    BY <1>16 DEF Crash, DropContext, Release
  <1>17. CASE ResumeSelect
    BY <1>17 DEF ResumeSelect
  <1>18. CASE ResumeReset
    BY <1>18 DEF ResumeReset, ResetInflight
  <1>19. CASE ResumeExecute
    BY <1>19 DEF ResumeExecute, ClaimRun
  <1>20. ASSUME NEW s \in Steps, SkipBlocked(s) PROVE StepKept
    BY <1>20 DEF SkipBlocked, SchedulingInStep, Blocked, Pending
  <1>21. ASSUME NEW s \in Steps, EnterCheckpoint(s) PROVE StepKept
    BY <1>21 DEF EnterCheckpoint, SchedulingInStep
  <1>22. ASSUME NEW s \in Steps, Dispatch(s) PROVE StepKept
    BY <1>22 DEF Dispatch, SchedulingInStep
  <1>23. ASSUME NEW s \in Steps, StartStep(s) PROVE StepKept
    BY <1>23 DEF StartStep
  <1>24. ASSUME NEW s \in Steps, "stop" \in Outcomes, AbortRun(s) PROVE StepKept
    BY <1>24 DEF AbortRun, ReportAccepted, TasksAccounted, Busy
  <1>25. ASSUME NEW s \in Steps, AbortSkip(s) PROVE StepKept
    BY <1>25 DEF AbortSkip, TeardownExact, TeardownInStep, NoTeardowns, NonTerminal
  <1>26. ASSUME NEW s \in Steps, CancelStep(s) PROVE StepKept
    BY <1>26 DEF CancelStep, TeardownExact, HandlersOnRequest, NoTeardowns, NonTerminal
  <1>27. ASSUME NEW s \in Steps, RetryReset(s) PROVE StepKept
    BY <1>27 DEF RetryReset
  <1>28. ASSUME NEW s \in Steps, ApproveStep(s) PROVE StepKept
    BY <1>28 DEF ApproveStep, HandlersOnRequest, DecisionExact, UnderDecision
  <1>29. ASSUME NEW s \in Steps, RejectStep(s) PROVE StepKept
    BY <1>29 DEF RejectStep, HandlersOnRequest, DecisionExact, UnderDecision
  <1>30. ASSUME NEW s \in Steps, RejectDependent(s) PROVE StepKept
    BY <1>30 DEF RejectDependent, HandlersOnRequest, DecisionExact
  <1>31. ASSUME NEW s \in Steps, NEW result \in Outcomes \ {"stop"}, CompleteStep(s, result)
         PROVE  StepKept
    BY <1>31 DEF CompleteStep, ReportAccepted, TasksAccounted, Busy
  <1>32. ASSUME NEW s \in Steps, NEW request \in {"approve", "reject"},
                RequireAwaiting(request, s)
         PROVE  StepKept
    BY <1>32 DEF RequireAwaiting, UserMayAct, ManagerLockFree, IsAwaiting
  <1>33. CASE UNCHANGED vars
    BY <1>33 DEF vars
  <1>34. QED
    BY <1>1, <1>2, <1>3, <1>4, <1>5, <1>6, <1>7, <1>8, <1>9, <1>10, <1>11, <1>12, <1>13,
       <1>14, <1>15, <1>16, <1>17, <1>18, <1>19, <1>20, <1>21, <1>22, <1>23, <1>24,
       <1>25, <1>26, <1>27, <1>28, <1>29, <1>30, <1>31, <1>32, <1>33
    DEF Next, Worker, Scheduler, Manager, Startup, User, Wait

\* A run that has been decided has no context to decide it again.
LEMMA RunsKept ==
    NoRejections /\ OrderInvariant /\ DecisionsInvariant /\ [Next]_vars => RunKept
  <1> SUFFICES ASSUME NoRejections, OrderInvariant, DecisionsInvariant, [Next]_vars
               PROVE  RunKept
    OBVIOUS
  <1> USE DEF LockFree, Live, db, tasks, calls, handler, mgr, proc, OrderInvariant,
              ExecutorInvariant, TypeOK, DecisionsInvariant, RunKept, TerminalRunStates,
              HandlerOwnsContext, LiveRunUndecided, HandlersOnRequest
  <1>1. CASE StartRun
    BY <1>1 DEF StartRun, UserMayAct
  <1>2. CASE InsertSteps
    BY <1>2 DEF InsertSteps
  <1>3. CASE ExecuteRun
    BY <1>3 DEF ExecuteRun, ClaimRun, RunStates
  <1>4. CASE ScheduleReady
    BY <1>4 DEF ScheduleReady, AfterSkip
  <1>5. CASE SkipBlockedDone
    BY <1>5 DEF SkipBlockedDone, AfterSkip
  <1>6. CASE Finish
    BY <1>6 DEF Finish, DropContext, Release, DeriveOutcome
  <1>7. CASE ParkRun
    BY <1>7 DEF ParkRun
  <1>8. CASE CheckpointsDone
    BY <1>8 DEF CheckpointsDone
  <1>9. CASE DispatchDone
    BY <1>9 DEF DispatchDone, MustPause, DropContext, Release
  <1>10. CASE AbortDone
    BY <1>10 DEF AbortDone, DropContext, Release
  <1>11. CASE CancelRun
    BY <1>11 DEF CancelRun, UserMayAct
  <1>12. CASE CancelDone
    BY <1>12 DEF CancelDone, DropContext, Release
  <1>13. CASE RetryRun
    BY <1>13 DEF RetryRun, Retryable, UserMayAct
  <1>14. CASE RetryDone
    BY <1>14 DEF RetryDone, Release, RetryInStep
  <1>15. CASE RejectRun
    BY <1>15 DEF RejectRun
  <1>16. CASE Crash
    BY <1>16 DEF Crash, DropContext, Release
  <1>17. CASE ResumeSelect
    BY <1>17 DEF ResumeSelect
  <1>18. CASE ResumeReset
    BY <1>18 DEF ResumeReset, ResetInflight
  <1>19. CASE ResumeExecute
    BY <1>19 DEF ResumeExecute, ClaimRun
  <1>20. ASSUME NEW s \in Steps, SkipBlocked(s) PROVE RunKept
    BY <1>20 DEF SkipBlocked
  <1>21. ASSUME NEW s \in Steps, EnterCheckpoint(s) PROVE RunKept
    BY <1>21 DEF EnterCheckpoint
  <1>22. ASSUME NEW s \in Steps, Dispatch(s) PROVE RunKept
    BY <1>22 DEF Dispatch
  <1>23. ASSUME NEW s \in Steps, StartStep(s) PROVE RunKept
    BY <1>23 DEF StartStep
  <1>24. ASSUME NEW s \in Steps, "stop" \in Outcomes, AbortRun(s) PROVE RunKept
    BY <1>24 DEF AbortRun, ReportAccepted
  <1>25. ASSUME NEW s \in Steps, AbortSkip(s) PROVE RunKept
    BY <1>25 DEF AbortSkip
  <1>26. ASSUME NEW s \in Steps, CancelStep(s) PROVE RunKept
    BY <1>26 DEF CancelStep
  <1>27. ASSUME NEW s \in Steps, RetryReset(s) PROVE RunKept
    BY <1>27 DEF RetryReset
  <1>28. ASSUME NEW s \in Steps, ApproveStep(s) PROVE RunKept
    BY <1>28 DEF ApproveStep
  <1>29. ASSUME NEW s \in Steps, RejectStep(s) PROVE RunKept
    BY <1>29 DEF RejectStep
  <1>30. ASSUME NEW s \in Steps, RejectDependent(s) PROVE RunKept
    BY <1>30 DEF RejectDependent
  <1>31. ASSUME NEW s \in Steps, NEW result \in Outcomes \ {"stop"}, CompleteStep(s, result)
         PROVE  RunKept
    BY <1>31 DEF CompleteStep, ReportAccepted
  <1>32. ASSUME NEW s \in Steps, NEW request \in {"approve", "reject"},
                RequireAwaiting(request, s)
         PROVE  RunKept
    BY <1>32 DEF RequireAwaiting, UserMayAct, ManagerLockFree, IsAwaiting
  <1>33. CASE UNCHANGED vars
    BY <1>33 DEF vars
  <1>34. QED
    BY <1>1, <1>2, <1>3, <1>4, <1>5, <1>6, <1>7, <1>8, <1>9, <1>10, <1>11, <1>12, <1>13,
       <1>14, <1>15, <1>16, <1>17, <1>18, <1>19, <1>20, <1>21, <1>22, <1>23, <1>24,
       <1>25, <1>26, <1>27, <1>28, <1>29, <1>30, <1>31, <1>32, <1>33
    DEF Next, Worker, Scheduler, Manager, Startup, User, Wait

\* Recovery is over before anybody works, and what retry_run resets is not running.
LEMMA OrphansReset ==
    OrderInvariant /\ [Next]_vars => OrphanReset
  <1> SUFFICES ASSUME OrderInvariant, [Next]_vars
               PROVE  OrphanReset
    OBVIOUS
  <1> USE DEF LockFree, Live, db, tasks, calls, handler, mgr, proc, OrderInvariant,
              ExecutorInvariant, TypeOK, OrphanReset, InState
  <1>1. CASE StartRun
    BY <1>1 DEF StartRun, UserMayAct
  <1>2. CASE InsertSteps
    BY <1>2 DEF InsertSteps, StartupAlone, NoRows
  <1>3. CASE ExecuteRun
    BY <1>3 DEF ExecuteRun, ClaimRun
  <1>4. CASE ScheduleReady
    BY <1>4 DEF ScheduleReady, AfterSkip
  <1>5. CASE SkipBlockedDone
    BY <1>5 DEF SkipBlockedDone, AfterSkip
  <1>6. CASE Finish
    BY <1>6 DEF Finish, DropContext, Release, DeriveOutcome
  <1>7. CASE ParkRun
    BY <1>7 DEF ParkRun
  <1>8. CASE CheckpointsDone
    BY <1>8 DEF CheckpointsDone
  <1>9. CASE DispatchDone
    BY <1>9 DEF DispatchDone, MustPause, DropContext, Release
  <1>10. CASE AbortDone
    BY <1>10 DEF AbortDone, DropContext, Release
  <1>11. CASE CancelRun
    BY <1>11 DEF CancelRun, UserMayAct
  <1>12. CASE CancelDone
    BY <1>12 DEF CancelDone, DropContext, Release
  <1>13. CASE RetryRun
    BY <1>13 DEF RetryRun, Retryable, UserMayAct
  <1>14. CASE RetryDone
    BY <1>14 DEF RetryDone, Release
  <1>15. CASE RejectRun
    BY <1>15 DEF RejectRun
  <1>16. CASE Crash
    BY <1>16 DEF Crash, DropContext, Release
  <1>17. CASE ResumeSelect
    BY <1>17 DEF ResumeSelect
  <1>18. CASE ResumeReset
    BY <1>18 DEF ResumeReset, ResetInflight, StartupAlone, Busy
  <1>19. CASE ResumeExecute
    BY <1>19 DEF ResumeExecute, ClaimRun
  <1>20. ASSUME NEW s \in Steps, SkipBlocked(s) PROVE OrphanReset
    BY <1>20 DEF SkipBlocked
  <1>21. ASSUME NEW s \in Steps, EnterCheckpoint(s) PROVE OrphanReset
    BY <1>21 DEF EnterCheckpoint
  <1>22. ASSUME NEW s \in Steps, Dispatch(s) PROVE OrphanReset
    BY <1>22 DEF Dispatch
  <1>23. ASSUME NEW s \in Steps, StartStep(s) PROVE OrphanReset
    BY <1>23 DEF StartStep
  <1>24. ASSUME NEW s \in Steps, "stop" \in Outcomes, AbortRun(s) PROVE OrphanReset
    BY <1>24 DEF AbortRun, ReportAccepted
  <1>25. ASSUME NEW s \in Steps, AbortSkip(s) PROVE OrphanReset
    BY <1>25 DEF AbortSkip
  <1>26. ASSUME NEW s \in Steps, CancelStep(s) PROVE OrphanReset
    BY <1>26 DEF CancelStep
  <1>27. ASSUME NEW s \in Steps, RetryReset(s) PROVE OrphanReset
    BY <1>27 DEF RetryReset, RetryInStep
  <1>28. ASSUME NEW s \in Steps, ApproveStep(s) PROVE OrphanReset
    BY <1>28 DEF ApproveStep
  <1>29. ASSUME NEW s \in Steps, RejectStep(s) PROVE OrphanReset
    BY <1>29 DEF RejectStep
  <1>30. ASSUME NEW s \in Steps, RejectDependent(s) PROVE OrphanReset
    BY <1>30 DEF RejectDependent
  <1>31. ASSUME NEW s \in Steps, NEW result \in Outcomes \ {"stop"}, CompleteStep(s, result)
         PROVE  OrphanReset
    BY <1>31, EnvAssumption DEF CompleteStep, ReportAccepted
  <1>32. ASSUME NEW s \in Steps, NEW request \in {"approve", "reject"},
                RequireAwaiting(request, s)
         PROVE  OrphanReset
    BY <1>32 DEF RequireAwaiting, UserMayAct, ManagerLockFree, IsAwaiting
  <1>33. CASE UNCHANGED vars
    BY <1>33 DEF vars
  <1>34. QED
    BY <1>1, <1>2, <1>3, <1>4, <1>5, <1>6, <1>7, <1>8, <1>9, <1>10, <1>11, <1>12, <1>13,
       <1>14, <1>15, <1>16, <1>17, <1>18, <1>19, <1>20, <1>21, <1>22, <1>23, <1>24,
       <1>25, <1>26, <1>27, <1>28, <1>29, <1>30, <1>31, <1>32, <1>33
    DEF Next, Worker, Scheduler, Manager, Startup, User, Wait

\* A decision on a step stands, whichever writer comes late, as long as users do
\* not decide checkpoints of a run that can be given up.
THEOREM StepDecisionsAreKept ==
    Orderly /\ (NoDecisions \/ NoTeardowns) => (Spec => StepDecisionsStand)
  <1> SUFFICES ASSUME Orderly, NoDecisions \/ NoTeardowns
               PROVE  Spec => StepDecisionsStand
    OBVIOUS
  <1>1. OrderInvariant /\ DecisionsInvariant /\ [Next]_vars => [StepKept]_vars
    BY StepsKept
  <1>2. [StepKept]_vars => [\A s \in Steps :
            stepState[s] \in TerminalStepStates /\ stepState'[s] /= stepState[s]
                => pc = "retry" /\ stepState'[s] = "pending"]_vars
    BY DEF StepKept
  <1>3. QED
    BY <1>1, <1>2, OrderSafe, DecisionsSafe, PTL DEF Spec, StepDecisionsStand

\* Without rejections, which take no executor lock, a decided run is only ever
\* reopened from failed, by retry_run.
THEOREM RunDecisionsAreKept ==
    Orderly /\ NoRejections => (Spec => RunDecisionsStand)
  <1> SUFFICES ASSUME Orderly, NoRejections PROVE Spec => RunDecisionsStand
    OBVIOUS
  <1>1. OrderInvariant /\ DecisionsInvariant /\ [Next]_vars => [RunKept]_vars
    BY RunsKept
  <1>2. [RunKept]_vars => [(runState \in TerminalRunStates /\ runState' /= runState)
                              => (runState = "failed" /\ runState' = "pending")]_vars
    BY DEF RunKept
  <1>3. QED
    BY <1>1, <1>2, OrderSafe, DecisionsSafe, PTL DEF Spec, RunDecisionsStand

\* Recovery resets no step that a worker still has, in any orderly operation,
\* with checkpoints, decisions, retries and crashes.
THEOREM OrphansAloneAreReset == Orderly => (Spec => OnlyOrphansReset)
  <1> SUFFICES ASSUME Orderly PROVE Spec => OnlyOrphansReset
    OBVIOUS
  <1>1. OrderInvariant /\ [Next]_vars => [OrphanReset]_vars
    BY OrphansReset
  <1>2. [OrphanReset]_vars => [\A s \in Steps :
            stepState[s] = "running" /\ stepState'[s] = "pending"
                => queued[s] = 0 /\ running[s] = 0]_vars
    BY DEF OrphanReset
  <1>3. QED
    BY <1>1, <1>2, OrderSafe, PTL DEF Spec, OnlyOrphansReset

-----------------------------------------------------------------------------
\* Neither crashes nor hard stops: a reset by recovery and an abort that
\* overtakes running steps are changes RunLifecycle does not promise.
Undisturbed == PlainWork /\ MaxCrashes = 0 /\ "stop" \notin Outcomes

\* Recovery finds nothing in a process that never crashed, and whoever
\* executes the run finds its step rows.
ExecutedRunHasRows ==
    /\ boot /= "done" => runState = "absent"
    /\ execCalls > 0 \/ Live => \A s \in Steps : stepState[s] /= "absent"

\* Outside a cancellation no step is cancelled, and a skipped step has a
\* failed one upstream.
UndoneForAReason ==
    runState \notin {"cancelling", "cancelled"} =>
        /\ InState(stepState, {"cancelled"}) = {}
        /\ pc /= "retry" =>
            \A s \in InState(stepState, {"skipped"}) :
                \E f \in InState(stepState, {"failed"}) : s \in DependentsOf(DependsOn, f)

\* A failed run has all its steps decided; while it is reopened, what is not
\* yet reset is still to be reset.
FailedRunSettled ==
    /\ runState = "failed" /\ pc /= "retry" =>
        \A s \in Steps : stepState[s] \in {"completed", "failed", "skipped"}
    /\ pc = "retry" =>
        \A s \in Steps : \/ stepState[s] \in {"completed", "pending"}
                         \/ s \in todo /\ stepState[s] \in {"failed", "skipped"}

\* The inductive invariant of the refinement.
LifeInvariant == WorkInvariant /\ ExecutedRunHasRows /\ UndoneForAReason /\ FailedRunSettled

\* A step that _skip_blocked marks is downstream of a failed step, directly
\* or through steps skipped before.
LEMMA SkippedFollowFailures ==
    ASSUME TypeOK, NEW s \in Blocked(stepState),
           InState(stepState, {"cancelled"}) = {},
           \A t \in InState(stepState, {"skipped"}) :
               \E f \in InState(stepState, {"failed"}) : t \in DependentsOf(DependsOn, f)
    PROVE  \E f \in InState(stepState, {"failed"}) : s \in DependentsOf(DependsOn, f)
  <1>1. DOMAIN DependsOn = Steps /\ \A t \in Steps : DependsOn[t] \subseteq Steps
    BY GraphAssumption DEF Graphs
  <1>2. s \in Steps
    BY DEF Blocked, Pending, InState
  <1>3. PICK d \in DependsOn[s] : stepState[d] \in UnsuccessfulStates
    BY DEF Blocked
  <1>4. d \in Steps /\ s \in Successors(DependsOn, d)
    BY <1>1, <1>2, <1>3 DEF Successors, Predecessors
  <1>5. CASE stepState[d] = "failed"
    BY <1>4, <1>5, DependentsClosed DEF InState
  <1>6. CASE stepState[d] = "skipped"
    <2>1. PICK f \in InState(stepState, {"failed"}) : d \in DependentsOf(DependsOn, f)
      BY <1>4, <1>6 DEF InState
    <2>2. s \in DependentsOf(DependsOn, f)
      BY <1>4, <2>1, DependentsClosed DEF DownwardClosed
    <2>3. QED
      BY <2>1, <2>2
  <1>7. QED
    BY <1>3, <1>4, <1>5, <1>6 DEF InState, UnsuccessfulStates

\* execute_run and its context only ever see a run whose step rows exist.
LEMMA LifeRows ==
    Undisturbed /\ LifeInvariant /\ PlainStep => ExecutedRunHasRows'
  <1> SUFFICES ASSUME Undisturbed, LifeInvariant, PlainStep PROVE ExecutedRunHasRows'
    OBVIOUS
  <1> USE DEF LockFree, Live, db, tasks, calls, handler, mgr, proc, WorkInvariant,
              ExecutorInvariant, TypeOK,
              LifeInvariant, Undisturbed, ExecutedRunHasRows, StartupAlone, PlainWork
  <1>1. CASE StartRun
    BY <1>1 DEF StartRun, UserMayAct
  <1>2. CASE InsertSteps
    BY <1>2 DEF InsertSteps
  <1>3. CASE ExecuteRun
    BY <1>3 DEF ExecuteRun, ClaimRun
  <1>4. CASE ScheduleReady
    BY <1>4 DEF ScheduleReady, AfterSkip
  <1>5. CASE SkipBlockedDone
    BY <1>5 DEF SkipBlockedDone, AfterSkip
  <1>6. CASE Finish
    BY <1>6 DEF Finish, DropContext, Release, DeriveOutcome
  <1>7. CASE DispatchDone
    BY <1>7 DEF DispatchDone, MustPause, DropContext, Release
  <1>8. CASE AbortDone
    BY <1>8 DEF AbortDone, DropContext, Release, SnapshotFresh
  <1>9. CASE CancelRun
    BY <1>9 DEF CancelRun, UserMayAct
  <1>10. CASE CancelDone
    BY <1>10 DEF CancelDone, DropContext, Release
  <1>11. CASE RetryRun
    BY <1>11 DEF RetryRun, Retryable, UserMayAct
  <1>12. CASE RetryDone
    BY <1>12 DEF RetryDone, Release, FailedRunSettled
  <1>13. CASE Crash
    BY <1>13, BoundsAssumption DEF Crash, DropContext, Release
  <1>14. CASE ResumeSelect
    BY <1>14 DEF ResumeSelect
  <1>15. CASE ResumeReset
    BY <1>15 DEF ResumeReset, ResetInflight, StartupAlone, ExecutedRunHasRows
  <1>16. CASE ResumeExecute
    BY <1>16 DEF ResumeExecute, ClaimRun, StartupAlone, ExecutedRunHasRows
  <1>17. ASSUME NEW s \in Steps, SkipBlocked(s) PROVE ExecutedRunHasRows'
    BY <1>17 DEF SkipBlocked
  <1>18. ASSUME NEW s \in Steps, Dispatch(s) PROVE ExecutedRunHasRows'
    BY <1>18 DEF Dispatch
  <1>19. ASSUME NEW s \in Steps, StartStep(s) PROVE ExecutedRunHasRows'
    BY <1>19 DEF StartStep
  <1>20. ASSUME NEW s \in Steps, "stop" \in Outcomes, AbortRun(s) PROVE ExecutedRunHasRows'
    BY <1>20 DEF AbortRun, ReportAccepted
  <1>21. ASSUME NEW s \in Steps, AbortSkip(s) PROVE ExecutedRunHasRows'
    BY <1>21 DEF AbortSkip, SnapshotFresh
  <1>22. ASSUME NEW s \in Steps, CancelStep(s) PROVE ExecutedRunHasRows'
    BY <1>22 DEF CancelStep
  <1>23. ASSUME NEW s \in Steps, RetryReset(s) PROVE ExecutedRunHasRows'
    BY <1>23 DEF RetryReset
  <1>24. ASSUME NEW s \in Steps, NEW result \in Outcomes \ {"stop"}, CompleteStep(s, result)
         PROVE  ExecutedRunHasRows'
    BY <1>24, EnvAssumption DEF CompleteStep, ReportAccepted
  <1>25. CASE UNCHANGED vars
    BY <1>25 DEF vars
  <1>26. QED
    BY <1>1, <1>2, <1>3, <1>4, <1>5, <1>6, <1>7, <1>8, <1>9, <1>10, <1>11, <1>12, <1>13,
       <1>14, <1>15, <1>16, <1>17, <1>18, <1>19, <1>20, <1>21, <1>22, <1>23, <1>24, <1>25
    DEF PlainStep

\* Steps are cancelled only under a cancellation and skipped only downstream
\* of a failure.
LEMMA LifeReasons ==
    Undisturbed /\ LifeInvariant /\ PlainStep => UndoneForAReason'
  <1> SUFFICES ASSUME Undisturbed, LifeInvariant, PlainStep PROVE UndoneForAReason'
    OBVIOUS
  <1> USE DEF LockFree, Live, db, tasks, calls, handler, mgr, proc, WorkInvariant,
              ExecutorInvariant, TypeOK,
              LifeInvariant, Undisturbed, UndoneForAReason, InState, NoApprovals
  <1>1. CASE StartRun
    BY <1>1 DEF StartRun, UserMayAct
  <1>2. CASE InsertSteps
    BY <1>2 DEF InsertSteps
  <1>3. CASE ExecuteRun
    BY <1>3 DEF ExecuteRun, ClaimRun, TasksMatchRows, SnapshotFresh, TerminalRunStates
  <1>4. CASE ScheduleReady
    BY <1>4 DEF ScheduleReady, AfterSkip
  <1>5. CASE SkipBlockedDone
    BY <1>5 DEF SkipBlockedDone, AfterSkip
  <1>6. CASE Finish
    BY <1>6
    DEF Finish, DropContext, Release, DeriveOutcome, HandlerOwnsContext, LiveRunUndecided,
        TasksMatchRows
  <1>7. CASE DispatchDone
    BY <1>7 DEF DispatchDone, MustPause, DropContext, Release
  <1>8. CASE AbortDone
    BY <1>8 DEF AbortDone, DropContext, Release, SnapshotFresh
  <1>9. CASE CancelRun
    BY <1>9 DEF CancelRun, UserMayAct
  <1>10. CASE CancelDone
    BY <1>10 DEF CancelDone, DropContext, Release, SnapshotFresh
  <1>11. CASE RetryRun
    BY <1>11 DEF RetryRun, Retryable, UserMayAct
  <1>12. CASE RetryDone
    BY <1>12 DEF RetryDone, Release, FailedRunSettled
  <1>13. CASE Crash
    BY <1>13, BoundsAssumption DEF Crash, DropContext, Release
  <1>14. CASE ResumeSelect
    BY <1>14 DEF ResumeSelect
  <1>15. CASE ResumeReset
    BY <1>15 DEF ResumeReset, ResetInflight, StartupAlone, ExecutedRunHasRows
  <1>16. CASE ResumeExecute
    BY <1>16 DEF ResumeExecute, ClaimRun, StartupAlone, ExecutedRunHasRows
  <1>17. ASSUME NEW s \in Steps, SkipBlocked(s) PROVE UndoneForAReason'
    <2>1. /\ s \in Blocked(stepState) /\ pc = "skip" /\ pc' = pc
          /\ stepState' = [stepState EXCEPT ![s] = "skipped"] /\ runState' = runState
      BY <1>17 DEF SkipBlocked, SnapshotFresh
    <2>2. stepState[s] = "pending"
      BY <2>1 DEF Blocked, Pending
    <2>3. runState \notin {"cancelling", "cancelled"} =>
            \E f \in InState(stepState, {"failed"}) : s \in DependentsOf(DependsOn, f)
      BY <2>1, SkippedFollowFailures
    <2>4. QED
      BY <2>1, <2>2, <2>3
  <1>18. ASSUME NEW s \in Steps, Dispatch(s) PROVE UndoneForAReason'
    BY <1>18 DEF Dispatch, SnapshotFresh, ReadySteps, Pending
  <1>19. ASSUME NEW s \in Steps, StartStep(s) PROVE UndoneForAReason'
    BY <1>19 DEF StartStep
  <1>20. ASSUME NEW s \in Steps, "stop" \in Outcomes, AbortRun(s) PROVE UndoneForAReason'
    BY <1>20 DEF AbortRun, ReportAccepted
  <1>21. ASSUME NEW s \in Steps, AbortSkip(s) PROVE UndoneForAReason'
    BY <1>21 DEF AbortSkip, SnapshotFresh
  <1>22. ASSUME NEW s \in Steps, CancelStep(s) PROVE UndoneForAReason'
    BY <1>22 DEF CancelStep, SnapshotFresh
  <1>23. ASSUME NEW s \in Steps, RetryReset(s) PROVE UndoneForAReason'
    BY <1>23 DEF RetryReset, SnapshotFresh
  <1>24. ASSUME NEW s \in Steps, NEW result \in Outcomes \ {"stop"}, CompleteStep(s, result)
         PROVE  UndoneForAReason'
    BY <1>24, EnvAssumption DEF CompleteStep, ReportAccepted, TasksMatchRows, Busy
  <1>25. CASE UNCHANGED vars
    BY <1>25 DEF vars
  <1>26. QED
    BY <1>1, <1>2, <1>3, <1>4, <1>5, <1>6, <1>7, <1>8, <1>9, <1>10, <1>11, <1>12, <1>13,
       <1>14, <1>15, <1>16, <1>17, <1>18, <1>19, <1>20, <1>21, <1>22, <1>23, <1>24, <1>25
    DEF PlainStep

\* A run is failed with all its steps decided, and the error closure of
\* retry_run covers all that did not complete.
LEMMA LifeFailed ==
    Undisturbed /\ LifeInvariant /\ PlainStep => FailedRunSettled'
  <1> SUFFICES ASSUME Undisturbed, LifeInvariant, PlainStep PROVE FailedRunSettled'
    OBVIOUS
  <1> USE DEF LockFree, Live, db, tasks, calls, handler, mgr, proc, WorkInvariant,
              ExecutorInvariant, TypeOK,
              LifeInvariant, Undisturbed, FailedRunSettled, InState, NoApprovals
  <1>1. CASE StartRun
    BY <1>1 DEF StartRun, UserMayAct
  <1>2. CASE InsertSteps
    BY <1>2 DEF InsertSteps, StartupAlone
  <1>3. CASE ExecuteRun
    BY <1>3 DEF ExecuteRun, ClaimRun
  <1>4. CASE ScheduleReady
    BY <1>4 DEF ScheduleReady, AfterSkip, HandlerOwnsContext, LiveRunUndecided
  <1>5. CASE SkipBlockedDone
    BY <1>5 DEF SkipBlockedDone, AfterSkip, HandlerOwnsContext, LiveRunUndecided
  <1>6. CASE Finish
    <2>1. ~(runState \in {"cancelling", "cancelled"}) /\ Live /\ seen = stepState /\ AllTerminal(seen)
      BY <1>6
      DEF Finish, HandlerOwnsContext, LiveRunUndecided, TasksMatchRows, SnapshotFresh
    <2>2. \A s \in Steps : stepState[s] \in {"completed", "failed", "skipped"}
      BY <2>1
      DEF AllTerminal, NonTerminal, UndoneForAReason, ExecutedRunHasRows, StepStates,
                  TerminalStepStates, UnsuccessfulStates
    <2>3. QED
      BY <1>6, <2>2 DEF Finish, Release
  <1>7. CASE DispatchDone
    BY <1>7
    DEF DispatchDone, MustPause, DropContext, Release, HandlerOwnsContext,
        LiveRunUndecided
  <1>8. CASE AbortDone
    BY <1>8 DEF AbortDone, DropContext, Release, SnapshotFresh
  <1>9. CASE CancelRun
    BY <1>9 DEF CancelRun, UserMayAct
  <1>10. CASE CancelDone
    BY <1>10 DEF CancelDone, DropContext, Release
  <1>11. CASE RetryRun
    BY <1>11 DEF RetryRun, Retryable, UserMayAct, ErrorClosure, UndoneForAReason
  <1>12. CASE RetryDone
    BY <1>12 DEF RetryDone, Release
  <1>13. CASE Crash
    BY <1>13, BoundsAssumption DEF Crash, DropContext, Release
  <1>14. CASE ResumeSelect
    BY <1>14 DEF ResumeSelect
  <1>15. CASE ResumeReset
    BY <1>15 DEF ResumeReset, ResetInflight, StartupAlone, ExecutedRunHasRows
  <1>16. CASE ResumeExecute
    BY <1>16 DEF ResumeExecute, ClaimRun, StartupAlone, ExecutedRunHasRows
  <1>17. ASSUME NEW s \in Steps, SkipBlocked(s) PROVE FailedRunSettled'
    BY <1>17 DEF SkipBlocked, HandlerOwnsContext, LiveRunUndecided
  <1>18. ASSUME NEW s \in Steps, Dispatch(s) PROVE FailedRunSettled'
    BY <1>18 DEF Dispatch, HandlerOwnsContext, LiveRunUndecided
  <1>19. ASSUME NEW s \in Steps, StartStep(s) PROVE FailedRunSettled'
    BY <1>19 DEF StartStep
  <1>20. ASSUME NEW s \in Steps, "stop" \in Outcomes, AbortRun(s) PROVE FailedRunSettled'
    BY <1>20 DEF AbortRun, ReportAccepted
  <1>21. ASSUME NEW s \in Steps, AbortSkip(s) PROVE FailedRunSettled'
    BY <1>21 DEF AbortSkip, SnapshotFresh
  <1>22. ASSUME NEW s \in Steps, CancelStep(s) PROVE FailedRunSettled'
    BY <1>22 DEF CancelStep, SnapshotFresh
  <1>23. ASSUME NEW s \in Steps, RetryReset(s) PROVE FailedRunSettled'
    BY <1>23 DEF RetryReset
  <1>24. ASSUME NEW s \in Steps, NEW result \in Outcomes \ {"stop"}, CompleteStep(s, result)
         PROVE  FailedRunSettled'
    BY <1>24, EnvAssumption DEF CompleteStep, ReportAccepted, LiveRunUndecided
  <1>25. CASE UNCHANGED vars
    BY <1>25 DEF vars
  <1>26. QED
    BY <1>1, <1>2, <1>3, <1>4, <1>5, <1>6, <1>7, <1>8, <1>9, <1>10, <1>11, <1>12, <1>13,
       <1>14, <1>15, <1>16, <1>17, <1>18, <1>19, <1>20, <1>21, <1>22, <1>23, <1>24, <1>25
    DEF PlainStep

\* The cardinality that RunLifecycle uses is that of FiniteSets.
LEMMA LifecycleCounts == \A S : Lifecycle!Cardinality(S) = Cardinality(S)
  BY DEF Lifecycle!Cardinality, Cardinality

\* Every step of the executor is a step of RunLifecycle on the rows, or
\* leaves them alone.
LEMMA LifecycleStep ==
    Undisturbed /\ LifeInvariant /\ PlainStep => [Lifecycle!Next]_(Lifecycle!lifecycleVars)
  <1> SUFFICES ASSUME Undisturbed, LifeInvariant, PlainStep
               PROVE  [Lifecycle!Next]_(Lifecycle!lifecycleVars)
    OBVIOUS
  <1> USE DEF LockFree, Live, db, tasks, calls, handler, mgr, proc, WorkInvariant,
              ExecutorInvariant, TypeOK,
              LifeInvariant, Undisturbed, InState, LifecycleState, NoApprovals,
              Lifecycle!lifecycleVars, Lifecycle!Set, Lifecycle!Decided
  <1>1. CASE StartRun
    BY <1>1 DEF StartRun, UserMayAct, Lifecycle!Next, Lifecycle!Create, StartupAlone
  <1>2. CASE InsertSteps
    BY <1>2 DEF InsertSteps, Lifecycle!Next, Lifecycle!Enroll, StartupAlone, NoRows
  <1>3. CASE ExecuteRun
    BY <1>3
    DEF ExecuteRun, ClaimRun, TerminalRunStates, TasksMatchRows, LiveRunUndecided,
        SnapshotFresh, RunStates
  <1>4. CASE ScheduleReady
    BY <1>4 DEF ScheduleReady, AfterSkip
  <1>5. CASE SkipBlockedDone
    BY <1>5 DEF SkipBlockedDone, AfterSkip
  <1>6. CASE Finish
    <2>1. /\ seen = stepState /\ AllTerminal(seen) /\ Live /\ pc = "finish"
          /\ runState' = DeriveOutcome(stepState) /\ stepState' = stepState /\ pc' = "idle"
      BY <1>6 DEF Finish, SnapshotFresh, HandlerOwnsContext, Release
    <2>2. runState = "running"
      BY <2>1 DEF LiveRunUndecided, TasksMatchRows
    <2>3. \A s \in Steps : stepState[s] \in {"completed", "failed", "skipped"}
      BY <2>1, <2>2 DEF AllTerminal, NonTerminal, UndoneForAReason, ExecutedRunHasRows,
                  StepStates, TerminalStepStates, UnsuccessfulStates
    <2>4. InState(stepState, {"failed"}) = {} => \A s \in Steps : stepState[s] = "completed"
      BY <2>1, <2>2, <2>3 DEF UndoneForAReason
    <2>5. Lifecycle!Conclude
      BY <2>1, <2>2, <2>3, <2>4 DEF Lifecycle!Conclude, DeriveOutcome
    <2>6. QED
      BY <2>5 DEF Lifecycle!Next
  <1>7. CASE DispatchDone
    BY <1>7 DEF DispatchDone, MustPause, DropContext, Release
  <1>8. CASE AbortDone
    BY <1>8 DEF AbortDone, DropContext, Release, SnapshotFresh
  <1>9. CASE CancelRun
    BY <1>9
    DEF CancelRun, UserMayAct, Lifecycle!Next, Lifecycle!Cancel, TerminalRunStates,
        RunStates
  <1>10. CASE CancelDone
    <2>1. /\ runState = "cancelling" /\ pc = "cancel" /\ todo = {}
          /\ runState' = "cancelled" /\ stepState' = stepState /\ pc' = "idle"
      BY <1>10 DEF CancelDone, SnapshotFresh, Release
    <2>2. \/ \A s \in Steps : stepState[s] \in Lifecycle!Decided
          \/ \A s \in Steps : stepState[s] \in {"absent", "pending"}
      BY <2>1 DEF SnapshotFresh, NonTerminal, RowsTogether, NoRows, StepStates,
                  TerminalStepStates, UnsuccessfulStates
    <2>3. Lifecycle!Cancelled
      BY <2>1, <2>2 DEF Lifecycle!Cancelled
    <2>4. QED
      BY <2>3 DEF Lifecycle!Next
  <1>11. CASE RetryRun
    BY <1>11 DEF RetryRun, Retryable, UserMayAct, Lifecycle!Next, Lifecycle!Reopen
  <1>12. CASE RetryDone
    BY <1>12
    DEF RetryDone, Release, Lifecycle!Next, Lifecycle!Reopened, Lifecycle!DependenciesMet,
        FailedRunSettled, DependencyOrder
  <1>13. CASE Crash
    BY <1>13, BoundsAssumption DEF Crash, DropContext, Release
  <1>14. CASE ResumeSelect
    BY <1>14 DEF ResumeSelect
  <1>15. CASE ResumeReset
    BY <1>15 DEF ResumeReset, ResetInflight, StartupAlone, ExecutedRunHasRows
  <1>16. CASE ResumeExecute
    BY <1>16 DEF ResumeExecute, ClaimRun, StartupAlone, ExecutedRunHasRows
  <1>17. ASSUME NEW s \in Steps, SkipBlocked(s)
         PROVE  [Lifecycle!Next]_(Lifecycle!lifecycleVars)
    <2>1. /\ s \in Blocked(stepState) /\ pc = "skip" /\ pc' = pc /\ runState' = runState
          /\ stepState' = [stepState EXCEPT ![s] = "skipped"]
      BY <1>17 DEF SkipBlocked, SnapshotFresh
    <2>2. runState = "running"
      BY <2>1 DEF HandlerOwnsContext, LiveRunUndecided, TasksMatchRows
    <2>3. stepState[s] = "pending" /\ \E d \in DependsOn[s] : stepState[d] \in UnsuccessfulStates
      BY <2>1 DEF Blocked, Pending
    <2>4. Lifecycle!Skip(s)
      BY <2>1, <2>2, <2>3 DEF Lifecycle!Skip, UnsuccessfulStates
    <2>5. QED
      BY <2>4 DEF Lifecycle!Next
  <1>18. ASSUME NEW s \in Steps, Dispatch(s)
         PROVE  [Lifecycle!Next]_(Lifecycle!lifecycleVars)
    <2> DEFINE R == InState(stepState, {"running"})
    <2>1. /\ pc = "dispatch" /\ pc' = pc /\ runState' = runState
          /\ s \in ReadySteps(seen) /\ stepState[s] = seen[s]
          /\ stepState' = [stepState EXCEPT ![s] = "running"]
      BY <1>18 DEF Dispatch, SnapshotFresh
    <2>2. runState = "running"
      BY <2>1 DEF HandlerOwnsContext, LiveRunUndecided, TasksMatchRows
    <2>3. stepState[s] = "pending" /\ \A d \in DependsOn[s] : seen[d] = "completed"
      BY <2>1 DEF ReadySteps, Pending
    <2>4. \A d \in DependsOn[s] : stepState[d] = "completed"
      <3>1. DependsOn[s] \subseteq Steps
        BY GraphAssumption DEF Graphs
      <3>2. \A d \in Steps : seen[d] = "completed" => stepState[d] = "completed"
        BY <2>1 DEF SnapshotFresh, ReadySteps, Pending
      <3>3. QED
        BY <2>3, <3>1, <3>2
    <2>5. Cardinality({t \in Steps : stepState[t] = "running"}) < ConcurrencyLimit
      <3>1. R \in SUBSET Steps /\ s \notin R /\ InState(stepState', {"running"}) = R \cup {s}
        BY <2>1, <2>3
      <3>2. IsFiniteSet(R) /\ Cardinality(R) \in Nat
        BY <3>1, StepSetsFinite
      <3>3. Cardinality(R \cup {s}) = Cardinality(R) + 1
        BY <3>1, <3>2, FS_AddElement
      <3>4. [Next]_vars
        BY <1>18 DEF Next, Scheduler
      <3>5. Cardinality(InState(stepState', {"running"})) <= ConcurrencyLimit
        BY <3>4, NextWithinLimit DEF RowsWithinLimit
      <3>6. Cardinality(R \cup {s}) <= ConcurrencyLimit
        BY <3>1, <3>5
      <3>7. {t \in Steps : stepState[t] = "running"} = R
        OBVIOUS
      <3> HIDE DEF R
      <3>8. ConcurrencyLimit \in Nat /\ Cardinality(R) + 1 <= ConcurrencyLimit
        BY <3>3, <3>6, LimitAssumption
      <3>9. Cardinality(R) < ConcurrencyLimit
        BY <3>2, <3>8
      <3>10. QED
        BY <3>7, <3>9
    <2>6. Lifecycle!Start(s)
      BY <2>1, <2>2, <2>3, <2>4, <2>5, LifecycleCounts
      DEF Lifecycle!Start, Lifecycle!DependenciesMet
    <2>7. QED
      BY <2>6 DEF Lifecycle!Next
  <1>19. ASSUME NEW s \in Steps, StartStep(s)
         PROVE  [Lifecycle!Next]_(Lifecycle!lifecycleVars)
    BY <1>19 DEF StartStep
  <1>20. ASSUME NEW s \in Steps, "stop" \in Outcomes, AbortRun(s)
         PROVE  [Lifecycle!Next]_(Lifecycle!lifecycleVars)
    BY <1>20 DEF AbortRun, ReportAccepted
  <1>21. ASSUME NEW s \in Steps, AbortSkip(s)
         PROVE  [Lifecycle!Next]_(Lifecycle!lifecycleVars)
    BY <1>21 DEF AbortSkip, SnapshotFresh
  <1>22. ASSUME NEW s \in Steps, CancelStep(s)
         PROVE  [Lifecycle!Next]_(Lifecycle!lifecycleVars)
    BY <1>22
    DEF CancelStep, Lifecycle!Next, Lifecycle!CancelStep, SnapshotFresh, NonTerminal
  <1>23. ASSUME NEW s \in Steps, RetryReset(s)
         PROVE  [Lifecycle!Next]_(Lifecycle!lifecycleVars)
    <2>1. /\ pc = "retry" /\ pc' = pc /\ s \in todo /\ runState' = runState
          /\ stepState' = [stepState EXCEPT ![s] = "pending"]
      BY <1>23 DEF RetryReset
    <2>2. stepState[s] \in {"pending", "failed", "skipped"}
      BY <2>1 DEF FailedRunSettled, SnapshotFresh
    <2>3. CASE stepState[s] = "pending"
      BY <2>1, <2>3
    <2>4. CASE stepState[s] \in {"failed", "skipped"}
      BY <2>1, <2>4 DEF Lifecycle!Reset, Lifecycle!Next
    <2>5. QED
      BY <2>2, <2>3, <2>4
  <1>24. ASSUME NEW s \in Steps, NEW result \in Outcomes \ {"stop"}, CompleteStep(s, result)
         PROVE  [Lifecycle!Next]_(Lifecycle!lifecycleVars)
    <2>1. CASE ~Live
      BY <1>24, <2>1 DEF CompleteStep, ReportAccepted
    <2>2. CASE Live
      <3>1. /\ LockFree /\ pc' = pc /\ runState' = runState /\ s \in Busy
            /\ stepState' = [stepState EXCEPT ![s] = result]
        BY <1>24, <2>2 DEF CompleteStep, ReportAccepted, Busy
      <3>2. runState = "running" /\ stepState[s] = "running"
        BY <2>2, <3>1 DEF LiveRunUndecided, TasksMatchRows
      <3>3. result \in {"completed", "failed"}
        BY EnvAssumption
      <3>4. Lifecycle!End(s, "completed") \/ Lifecycle!End(s, "failed")
        BY <3>1, <3>2, <3>3 DEF Lifecycle!End
      <3>5. QED
        BY <3>4 DEF Lifecycle!Next
    <2>3. QED
      BY <2>1, <2>2
  <1>25. CASE UNCHANGED vars
    BY <1>25 DEF vars
  <1>26. QED
    BY <1>1, <1>2, <1>3, <1>4, <1>5, <1>6, <1>7, <1>8, <1>9, <1>10, <1>11, <1>12, <1>13,
       <1>14, <1>15, <1>16, <1>17, <1>18, <1>19, <1>20, <1>21, <1>22, <1>23, <1>24, <1>25
    DEF PlainStep

\* The executor implements RunLifecycle: without crashes and hard stops, a
\* reader of the rows sees a run that is decided once, after all its steps,
\* that is completed only if every step was executed in order and within the
\* limit, and that only a retry takes up again.
THEOREM RunsLiveTheirLifecycle == Undisturbed => (Spec => ImplementsLifecycle)
  <1> SUFFICES ASSUME Undisturbed PROVE Spec => ImplementsLifecycle
    OBVIOUS
  <1>1. Spec => []WorkInvariant
    BY WorkSafe DEF Undisturbed
  <1>2. Init => ExecutedRunHasRows /\ UndoneForAReason /\ FailedRunSettled
    BY
    DEF Init, ExecutedRunHasRows, UndoneForAReason, FailedRunSettled, InState, NoRows,
        Live
  <1>3. LifeInvariant /\ [Next]_vars => PlainStep
    BY PlainNext DEF Undisturbed, LifeInvariant
  <1>4. LifeInvariant /\ [Next]_vars
            => (ExecutedRunHasRows /\ UndoneForAReason /\ FailedRunSettled)'
    BY <1>3, LifeRows, LifeReasons, LifeFailed
  <1>5. Init => Lifecycle!Init
    BY DEF Init, Lifecycle!Init, LifecycleState, NoRows
  <1>6. LifeInvariant /\ [Next]_vars => [Lifecycle!Next]_(Lifecycle!lifecycleVars)
    BY <1>3, LifecycleStep
  <1>7. QED
    BY <1>1, <1>2, <1>4, <1>5, <1>6, PTL
    DEF Spec, LifeInvariant, ImplementsLifecycle, Lifecycle!Spec
=============================================================================
