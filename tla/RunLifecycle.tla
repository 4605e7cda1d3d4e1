---------------------------- MODULE RunLifecycle ----------------------------
(***************************************************************************)
(* What a Workflow_Run promises to whoever reads its rows: the life of the  *)
(* run and of its steps, without contexts, threads, snapshots or locks.     *)
(* Every action is one change of a row that a reader can see.  A run is     *)
(* "open" from its creation until it is decided, "reopening" while a retry  *)
(* resets its steps.                                                        *)
(***************************************************************************)
EXTENDS Naturals, FiniteSets

CONSTANTS
    Steps,      \* the steps of the run
    DependsOn,  \* step -> the steps it needs
    Limit       \* steps that may be running at a time

VARIABLES
    run,   \* "absent", "open", "cancelling", "reopening" or decided
    step   \* step -> its state, "absent" before the rows exist

lifecycleVars == <<run, step>>

Decided == {"completed", "failed", "skipped", "cancelled"}
Set(s, state) == step' = [step EXCEPT ![s] = state]
DependenciesMet(s) == \A d \in DependsOn[s] : step[d] = "completed"

Init == run = "absent" /\ step = [s \in Steps |-> "absent"]

Create == run = "absent" /\ run' = "open" /\ UNCHANGED step

\* All steps appear together, in whatever state the run is by then.
Enroll ==
    /\ run /= "absent" /\ \A s \in Steps : step[s] = "absent"
    /\ step' = [s \in Steps |-> "pending"]
    /\ UNCHANGED run

Start(s) ==
    /\ run = "open" /\ step[s] = "pending" /\ DependenciesMet(s)
    /\ Cardinality({t \in Steps : step[t] = "running"}) < Limit
    /\ Set(s, "running")
    /\ UNCHANGED run

End(s, result) ==
    /\ run = "open" /\ step[s] = "running"
    /\ Set(s, result)
    /\ UNCHANGED run

\* A step is skipped for a dependency that will not complete.
Skip(s) ==
    /\ run = "open" /\ step[s] = "pending"
    /\ \E d \in DependsOn[s] : step[d] \in Decided \ {"completed"}
    /\ Set(s, "skipped")
    /\ UNCHANGED run

\* The run is decided last, when all its steps are.
Conclude ==
    /\ run = "open" /\ \A s \in Steps : step[s] \in Decided
    /\ run' = IF \A s \in Steps : step[s] = "completed" THEN "completed" ELSE "failed"
    /\ UNCHANGED step

Cancel == run = "open" /\ run' = "cancelling" /\ UNCHANGED step

CancelStep(s) ==
    /\ run = "cancelling" /\ step[s] \in {"pending", "running"}
    /\ Set(s, "cancelled")
    /\ UNCHANGED run

\* Every step is decided, unless none has been touched: a cancellation that comes
\* before the steps are enrolled leaves them pending in a cancelled run.
Cancelled ==
    /\ run = "cancelling"
    /\ \/ \A s \in Steps : step[s] \in Decided
       \/ \A s \in Steps : step[s] \in {"absent", "pending"}
    /\ run' = "cancelled"
    /\ UNCHANGED step

\* Only a failed run is taken up again: whatever did not complete is reset, and
\* nothing that completed is lost or done on top of a step that is repeated.
Reopen == run = "failed" /\ run' = "reopening" /\ UNCHANGED step

Reset(s) ==
    /\ run = "reopening" /\ step[s] \in {"failed", "skipped"}
    /\ Set(s, "pending")
    /\ UNCHANGED run

Reopened ==
    /\ run = "reopening"
    /\ \A s \in Steps :
        step[s] = "pending" \/ (step[s] = "completed" /\ DependenciesMet(s))
    /\ run' = "open"
    /\ UNCHANGED step

Next ==
    \/ Create \/ Enroll \/ Conclude \/ Cancel \/ Cancelled \/ Reopen \/ Reopened
    \/ \E s \in Steps : Start(s) \/ Skip(s) \/ CancelStep(s) \/ Reset(s)
    \/ \E s \in Steps : End(s, "completed") \/ End(s, "failed")

Spec == Init /\ [][Next]_lifecycleVars
=============================================================================
