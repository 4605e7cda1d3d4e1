---------------------------- MODULE Checkpoints ----------------------------
(***************************************************************************)
(* The Checkpoint_Manager of core/checkpoint_manager.py over the kernel's  *)
(* snapshot service, reached through _LazyExecutionManager (which raises   *)
(* until the control plane has registered) and the gRPC adapter.  A        *)
(* checkpoint is two commits in two processes, the kernel's copy and then  *)
(* the row; asking, copying, recording and mutating are steps of their     *)
(* own, and other callers mutate and restore the workspace in between.     *)
(* A call may fail before or after its effect in the kernel, or be given   *)
(* up while the request goes on, the INSERT may fail, and the control      *)
(* plane may die at any point.  The contents of a workspace are the        *)
(* mutations in it, each named by the snapshot taken for it.               *)
(***************************************************************************)
EXTENDS Naturals, FiniteSets

CONSTANTS
    CheckpointCallers,  \* threads of the control plane
    Workspaces,         \* kernel workspaces
    SnapshotRefs        \* opaque references the kernel can return

NoCaller == "none"
NoRef == "none"

VARIABLES
    executionManager,  \* runtime._execution_manager is set
    contents,          \* kernel: workspace -> mutations in it
    snapshots,         \* kernel: reference -> [ws, holds], for those taken
    checkpointRows,    \* rows of checkpoints: set of [ws, ref]
    checkpointLock,    \* the thread inside self._lock, or NoCaller
    checkpointCall,    \* thread -> [pc, ws, ref]
    lateRequests       \* [op, ws, ref] that nobody waits for and the kernel may still do

checkpointVars ==
    <<executionManager, contents, snapshots, checkpointRows, checkpointLock,
      checkpointCall, lateRequests>>

NoCheckpointCall == [pc |-> "idle", ws |-> "none", ref |-> NoRef]

CheckpointsInit ==
    /\ executionManager = FALSE
    /\ contents = [w \in Workspaces |-> {}]
    /\ snapshots = << >>
    /\ checkpointRows = {}
    /\ checkpointLock = NoCaller
    /\ checkpointCall = [t \in CheckpointCallers |-> NoCheckpointCall]
    /\ lateRequests = {}

\* _wire_execution_manager after registration; a failure leaves None.
Registered ==
    /\ ~executionManager
    /\ executionManager' = TRUE
    /\ UNCHANGED <<contents, snapshots, checkpointRows, checkpointLock, checkpointCall, lateRequests>>

EndCheckpointCall(t) ==
    /\ checkpointCall' = [checkpointCall EXCEPT ![t] = NoCheckpointCall]
    /\ checkpointLock' = NoCaller

\* The request a caller has out, if the kernel has not done it yet.
Outstanding(t) ==
    LET call == checkpointCall[t] IN
    IF call.pc \in {"snapshot", "restore"}
    THEN {[op |-> call.pc, ws |-> call.ws, ref |-> call.ref]} ELSE {}

\* The kernel copies a workspace, as it is then, under a new reference.
TakeSnapshot(ws, ref) ==
    /\ ref \in SnapshotRefs \ DOMAIN snapshots
    /\ snapshots' = [r \in DOMAIN snapshots \cup {ref} |->
                        IF r = ref THEN [ws |-> ws, holds |-> contents[ws]]
                        ELSE snapshots[r]]

\* snapshot_before_mutation enters the lock and asks the kernel (without a
\* manager it raises at once).
snapshot_before_mutation(t, ws) ==
    /\ checkpointCall[t].pc = "idle" /\ checkpointLock = NoCaller
    /\ executionManager
    /\ checkpointCall' = [checkpointCall EXCEPT ![t] =
                            [pc |-> "snapshot", ws |-> ws, ref |-> NoRef]]
    /\ checkpointLock' = t
    /\ UNCHANGED <<executionManager, contents, snapshots, checkpointRows, lateRequests>>

\* The kernel makes the copy and answers with its reference.
KernelCopies(t) ==
    /\ checkpointCall[t].pc = "snapshot"
    /\ \E ref \in SnapshotRefs :
        /\ TakeSnapshot(checkpointCall[t].ws, ref)
        /\ checkpointCall' = [checkpointCall EXCEPT ![t].pc = "record", ![t].ref = ref]
    /\ UNCHANGED <<executionManager, contents, checkpointRows, checkpointLock, lateRequests>>

\* The call raises: the request is lost or the call times out in _run_on_loop
\* while the request goes on; or the kernel has made the copy, and its answer is
\* lost or has no reference in it.
SnapshotRaises(t) ==
    /\ checkpointCall[t].pc \in {"snapshot", "record"}
    /\ lateRequests' \in {lateRequests, lateRequests \cup Outstanding(t)}
    /\ EndCheckpointCall(t)
    /\ UNCHANGED <<executionManager, contents, snapshots, checkpointRows>>

\* Mutant of RecordCheckpoint: an INSERT that raises does not stop the caller.
RecordSwallowed(t) ==
    LET call == checkpointCall[t] IN
    /\ call.pc = "record"
    /\ checkpointRows' \in {checkpointRows, checkpointRows \cup {[ws |-> call.ws, ref |-> call.ref]}}
    /\ checkpointCall' = [checkpointCall EXCEPT ![t].pc = "mutate"]
    /\ checkpointLock' = NoCaller
    /\ UNCHANGED <<executionManager, contents, snapshots, lateRequests>>

\* The INSERT of the row: it succeeds and the caller goes on to its mutation,
\* or it raises and the snapshot stays with no row.
RecordCheckpoint(t) ==
    LET call == checkpointCall[t] IN
    /\ call.pc = "record"
    /\ \/ /\ checkpointRows' = checkpointRows \cup {[ws |-> call.ws, ref |-> call.ref]}
          /\ checkpointCall' = [checkpointCall EXCEPT ![t].pc = "mutate"]
          /\ checkpointLock' = NoCaller
       \/ /\ EndCheckpointCall(t)
          /\ UNCHANGED checkpointRows
    /\ UNCHANGED <<executionManager, contents, snapshots, lateRequests>>

\* The mutation the checkpoint was taken for.
Mutate(t) ==
    LET call == checkpointCall[t] IN
    /\ call.pc = "mutate"
    /\ contents' = [contents EXCEPT ![call.ws] = @ \cup {call.ref}]
    /\ checkpointCall' = [checkpointCall EXCEPT ![t] = NoCheckpointCall]
    /\ UNCHANGED <<executionManager, snapshots, checkpointRows, checkpointLock, lateRequests>>

\* restore: look the row up under the lock.  An unknown checkpoint raises.
restore(t) ==
    /\ checkpointCall[t].pc = "idle" /\ checkpointLock = NoCaller
    /\ \E row \in checkpointRows :
        checkpointCall' = [checkpointCall EXCEPT ![t] =
            [pc |-> "restore", ws |-> row.ws, ref |-> row.ref]]
    /\ checkpointLock' = t
    /\ UNCHANGED <<executionManager, contents, snapshots, checkpointRows, lateRequests>>

\* The kernel restores; the call may also raise without an effect (there may be
\* no manager), or time out in _run_on_loop while the request goes on.
RestoreWorkspace(t) ==
    LET call == checkpointCall[t] IN
    /\ call.pc = "restore"
    /\ \/ /\ executionManager
          /\ contents' = [contents EXCEPT ![call.ws] = snapshots[call.ref].holds]
          /\ UNCHANGED lateRequests
       \/ /\ executionManager
          /\ lateRequests' = lateRequests \cup Outstanding(t)
          /\ UNCHANGED contents
       \/ UNCHANGED <<contents, lateRequests>>
    /\ EndCheckpointCall(t)
    /\ UNCHANGED <<executionManager, snapshots, checkpointRows>>

\* The kernel gets round to a request nobody waits for any more; of several
\* alike, to one or to all.
KernelCatchesUp(request) ==
    /\ \/ /\ request.op = "restore"
          /\ contents' = [contents EXCEPT ![request.ws] = snapshots[request.ref].holds]
          /\ UNCHANGED snapshots
       \/ /\ request.op = "snapshot"
          /\ \E ref \in SnapshotRefs : TakeSnapshot(request.ws, ref)
          /\ UNCHANGED contents
    /\ lateRequests' \in {lateRequests, lateRequests \ {request}}
    /\ UNCHANGED <<executionManager, checkpointRows, checkpointLock, checkpointCall>>

\* The control plane dies and starts again, unregistered; what it had asked the
\* kernel for may still be done.
CheckpointCrash ==
    /\ executionManager
    /\ executionManager' = FALSE
    /\ checkpointLock' = NoCaller
    /\ checkpointCall' = [t \in CheckpointCallers |-> NoCheckpointCall]
    /\ lateRequests' = lateRequests \cup UNION {Outstanding(t) : t \in CheckpointCallers}
    /\ UNCHANGED <<contents, snapshots, checkpointRows>>

CheckpointsNext ==
    \/ Registered \/ CheckpointCrash
    \/ \E request \in lateRequests : KernelCatchesUp(request)
    \/ \E t \in CheckpointCallers :
        \/ \E ws \in Workspaces : snapshot_before_mutation(t, ws)
        \/ KernelCopies(t) \/ SnapshotRaises(t) \/ RecordCheckpoint(t)
        \/ Mutate(t) \/ restore(t) \/ RestoreWorkspace(t)

(***************************************************************************)
(* Properties                                                              *)
(***************************************************************************)

\* Every mutation can be rolled back (checkpoint_manager.py, "snapshot before
\* mutation"): whatever a workspace contains, now or after a restore that comes
\* late, there is a checkpoint on record for each mutation in it; and a recorded
\* checkpoint names a snapshot of its own workspace that the mutation it was
\* taken for is not in, although others may have been made or undone between
\* asking for the snapshot and recording it.
CheckpointsBacked ==
    /\ \A ws \in Workspaces : \A mutation \in contents[ws] :
        [ws |-> ws, ref |-> mutation] \in checkpointRows
    /\ \A row \in checkpointRows :
        /\ row.ref \in DOMAIN snapshots
        /\ snapshots[row.ref].ws = row.ws
        /\ row.ref \notin snapshots[row.ref].holds
=============================================================================
