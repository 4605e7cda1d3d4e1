------------------------- MODULE KernelSessionProofs -------------------------
(***************************************************************************)
(* Type correctness of the kernel session and that no registration call is  *)
(* lost, and what supervision and shutdown guarantee until the kernel has    *)
(* exited, for every bound on faults and every set of racing tasks.          *)
(***************************************************************************)
EXTENDS KernelSession, TLAPS

\* A health computed by evaluate_health is one of KernelHealth's.
LEMMA EvaluateType ==
    ASSUME TypeOK
    PROVE  EvaluateHealth \in Healths
BY DEF TypeOK, EvaluateHealth, Evaluate, Healths, DepStates

\* Only two sessions can be in use when a registration starts, so there is an
\* id that is in use nowhere.
LEMMA FreshSessionType ==
    ASSUME KernelInvariant, cp = "connecting", at["register"] = "idle"
    PROVE  FreshSession \in SessionIds \ InUse
<1>1. cpSession = 0 /\ rpc["register"] = 0
  BY DEF KernelInvariant, TypeOK, CallsAnswered, OneChild, Rpcs
<1>2. InUse = {session, 0, rpc["heartbeat"]}
  BY <1>1 DEF InUse, Rpcs
<1>3. 1 \in SessionIds /\ 2 \in SessionIds /\ 3 \in SessionIds
  BY DEF SessionIds
<1>4. 1 \notin InUse \/ 2 \notin InUse \/ 3 \notin InUse
  BY <1>2
<1>5. \E s \in SessionIds : s \notin InUse
  BY <1>3, <1>4
<1> QED
  BY <1>5 DEF FreshSession

\* The state after run_daemon's boot sequence is well-formed.
LEMMA InitKernel == Init => KernelInvariant
<1> SUFFICES ASSUME Init PROVE KernelInvariant
  OBVIOUS
<1>1. stale \in BOOLEAN /\ shutdown \in BOOLEAN /\ managed \in BOOLEAN /\ restarted \in BOOLEAN
  BY DEF Init
<1>2. deps \in DepStates /\ health \in Healths
  BY DEF Init, Healths, DepStates, CollectDependencies, Evaluate
<1>3. /\ at \in [Tasks -> Points]
      /\ \A r \in Rpcs : at[r] = "idle"
      /\ \A t \in Tasks : at[t] \notin {"set", "set_exit"}
  BY DEF Init, Tasks, Rpcs, Points, SupervisorStart
<1>4. OneChild
  BY DEF Init, OneChild, SupervisorStart, Tasks
<1> QED
  BY <1>1, <1>2, <1>3, <1>4, MaxFaultsAssumption
     DEF Init, KernelInvariant, TypeOK, CallsAnswered, Rpcs, None

\* The handlers of the two RPCs and the control plane that calls them.
LEMMA CallsPreserve ==
    ASSUME KernelInvariant,
           \/ Register \/ RegisterWrite \/ Heartbeat \/ HeartbeatLate
           \/ HeartbeatUpdate \/ StreamEnds \/ CpStart \/ CpExit
           \/ \E r \in Rpcs : RpcTimeout(r) \/ DropRpc(r)
    PROVE  KernelInvariant'
<1> USE DEF KernelInvariant, TypeOK, CallsAnswered, OneChild, Rpcs, Points, store, plane, Goto
<1>1. CASE Register
  <2>1. FreshSession \in SessionIds
    BY <1>1, FreshSessionType DEF Register
  <2>2. FreshSession /= 0
    BY <2>1 DEF SessionIds
  <2> QED
    BY <1>1, <2>1, <2>2 DEF Register, Tasks
<1>2. CASE RegisterWrite
  BY <1>2 DEF RegisterWrite, Tasks
<1>3. CASE Heartbeat
  BY <1>3 DEF Heartbeat, Reconnect, Tasks
<1>4. CASE HeartbeatLate
  BY <1>4 DEF HeartbeatLate, Waiting, Done, Reconnect, Tasks
<1>5. CASE HeartbeatUpdate
  BY <1>5 DEF HeartbeatUpdate, Tasks
<1>6. CASE StreamEnds
  BY <1>6 DEF StreamEnds, Reconnect
<1>7. CASE CpStart
  BY <1>7 DEF CpStart
<1>8. CASE CpExit
  BY <1>8, MaxFaultsAssumption DEF CpExit, Fault
<1>9. ASSUME NEW r \in Rpcs, RpcTimeout(r) PROVE KernelInvariant'
  BY <1>9, MaxFaultsAssumption DEF RpcTimeout, Waiting, Reconnect, Fault
<1>10. ASSUME NEW r \in Rpcs, DropRpc(r) PROVE KernelInvariant'
  BY <1>10 DEF DropRpc, Done, Waiting, Tasks
<1> QED
  BY <1>1, <1>2, <1>3, <1>4, <1>5, <1>6, <1>7, <1>8, <1>9, <1>10

\* recompute_health, in any task.
LEMMA RecomputePreserves ==
    ASSUME KernelInvariant, NEW t \in Tasks, Recompute(t)
    PROVE  KernelInvariant'
<1> USE DEF KernelInvariant, TypeOK, CallsAnswered, OneChild, Rpcs, Points, store, plane, Goto
<1>0. EvaluateHealth \in Healths
  BY EvaluateType DEF KernelInvariant
<1>1. CASE Snapshot(t)
  BY <1>0, <1>1 DEF Snapshot, Tasks
<1>2. CASE SetHealth(t)
  <2>1. health' \in Healths
    BY <1>0, <1>2 DEF SetHealth
  <2>2. /\ at' \in [Tasks -> Points]
        /\ calc' \in [Tasks -> Healths \cup {None}]
        /\ \A u \in Tasks \ {t} : at'[u] = at[u]
        /\ t /= "supervisor" => at'[t] = "idle"
        /\ t = "supervisor" => at[t] \notin {"monitor", "ended"}
    BY <1>2 DEF SetHealth, Tasks
  <2>3. /\ rpc' \in [Rpcs -> {0} \cup SessionIds]
        /\ cp' \in {"down", "connecting", "registering", "registered"}
        /\ cpSession' \in {0} \cup SessionIds
        /\ cp' = "registered" <=> cpSession' /= 0
        /\ \A r \in Rpcs : rpc'[r] = 0 <=> at'[r] \in {"idle", "ended"}
        /\ cp' = "registering" => rpc'["register"] /= 0
        /\ cp = "down" => cp' = "down"
    BY <1>2, <2>2 DEF SetHealth, Answer, Done, Waiting, Tasks
  <2> QED
    BY <1>2, <2>1, <2>2, <2>3 DEF SetHealth
<1> QED
  BY <1>1, <1>2 DEF Recompute

\* The watchdog, the refresh loop, the supervisor and the shutdown.
LEMMA TasksPreserve ==
    ASSUME KernelInvariant,
           \/ Delay \/ Expire \/ WatchdogTick \/ WatchdogClear \/ RefreshTick
           \/ Supervisor \/ BeginShutdown \/ ShutdownSend \/ Drain \/ Exit
           \/ TaskFails("supervisor") \/ TaskFails("watchdog")
    PROVE  KernelInvariant'
<1> USE DEF KernelInvariant, TypeOK, CallsAnswered, OneChild, Rpcs, Points, store, plane, Goto
<1>1. CASE Delay \/ Expire
  <2>1. stale' \in BOOLEAN
    BY <1>1 DEF Delay, Expire, Age
  <2> QED
    BY <1>1, <2>1, MaxFaultsAssumption DEF Delay, Expire, Age, Fault
<1>2. CASE WatchdogTick \/ WatchdogClear
  <2>1. CASE WatchdogTick
    BY <2>1 DEF WatchdogTick, Tasks
  <2>2. CASE WatchdogClear
    BY <2>2 DEF WatchdogClear, Clear, Tasks
  <2> QED
    BY <1>2, <2>1, <2>2
<1>3. CASE RefreshTick
  BY <1>3 DEF RefreshTick, CollectDependencies, DepStates, Tasks
<1>4. CASE Supervisor
  <2>1. restarted' \in BOOLEAN /\ stale' \in BOOLEAN
    BY <1>4 DEF Supervisor, SupervisorTop, SupervisorClear, SupervisorSpawn,
       SupervisorMonitor, Clear
  <2>2. CASE SupervisorTop
    BY <2>1, <2>2 DEF SupervisorTop, Tasks
  <2>3. CASE SupervisorClear
    BY <2>1, <2>3 DEF SupervisorClear, Clear, Tasks
  <2>4. CASE SupervisorSpawn
    BY <2>1, <2>4 DEF SupervisorSpawn, Tasks
  <2>5. CASE SupervisorMonitor
    BY <2>1, <2>5 DEF SupervisorMonitor, Tasks
  <2> QED
    BY <1>4, <2>2, <2>3, <2>4, <2>5 DEF Supervisor
<1>5. CASE BeginShutdown \/ ShutdownSend \/ Drain
  <2>1. shutdown' \in BOOLEAN
    BY <1>5 DEF BeginShutdown, ShutdownSend, Drain
  <2> QED
    BY <1>5, <2>1 DEF BeginShutdown, ShutdownSend, Drain, Healths, Tasks
<1>6. CASE Exit
  BY <1>6 DEF Exit, Tasks
<1>7. CASE TaskFails("supervisor") \/ TaskFails("watchdog")
  <2>1. restarted' \in BOOLEAN
    BY <1>7 DEF TaskFails
  <2>2. health' \in Healths
    BY <1>7 DEF TaskFails, Tasks
  <2> QED
    BY <1>7, <2>1, <2>2 DEF TaskFails, Tasks
<1> QED
  BY <1>1, <1>2, <1>3, <1>4, <1>5, <1>6, <1>7

\* Every step of the kernel and of the control plane keeps the invariant.
LEMMA KernelStep == KernelInvariant /\ [Next]_vars => KernelInvariant'
<1> SUFFICES ASSUME KernelInvariant, [Next]_vars PROVE KernelInvariant'
  OBVIOUS
<1>1. CASE UNCHANGED vars
  BY <1>1 DEF vars, store, plane, KernelInvariant, TypeOK, CallsAnswered, OneChild
<1>2. CASE Next
  <2>1. \A t \in Rpcs \cup {"watchdog", "refresh", "supervisor"} : t \in Tasks
    BY DEF Tasks
  <2> QED
    BY <1>2, <2>1, CallsPreserve, RecomputePreserves, TasksPreserve
       DEF Next, RegisterHandler, HeartbeatHandler, Handler, Watchdog, Refresh,
           Supervise, ControlPlane, Rpcs
<1> QED
  BY <1>1, <1>2

\* In every boot of the kernel, with any number of faults, the state stays
\* well-formed and a control plane that waits for its registration has a
\* handler working for it.
THEOREM KernelCorrect == Spec => []KernelInvariant
BY InitKernel, KernelStep, PTL DEF Spec

-----------------------------------------------------------------------------
(* Supervision and shutdown                                                 *)

\* The handlers of a shutdown and what follows it come in order: the channel is
\* written once, the server drains only then, and run_daemon returns with all
\* its tasks aborted.
ShutdownInOrder ==
    /\ at["shutdown"] \in {"idle", "send", "ended"}
    /\ shutdown <=> at["shutdown"] = "ended"
    /\ kernel /= "serving" => shutdown
    /\ kernel = "exited" => \A t \in Tasks : at[t] = "ended"

\* While the kernel lives, the supervisor watches the process it has launched
\* (monitor_control_plane_process).
ChildWatched ==
    managed /\ kernel /= "exited" /\ cp /= "down" => at["supervisor"] = "monitor"

\* The child the kernel may leave behind (NoOrphanedControlPlane) has no session
\* and no call in progress: it has not connected yet.
OrphanNotConnected == kernel = "exited" => cp \in {"down", "connecting"}

\* Only a racing task holds a health it has computed and not yet written.
OnlyRacersHold == \A t \in Tasks : at[t] \in {"set", "set_exit"} => t \in Racing

\* What holds throughout one boot of the kernel.
BootInvariant ==
    /\ KernelInvariant
    /\ ShutdownInOrder
    /\ ChildWatched
    /\ OrphanNotConnected
    /\ OnlyRacersHold

\* The session of a control plane that is gone is never taken over by another
\* one: whoever registers later gets a session of its own, even when the handler
\* of a call that timed out is still at work.  The watchdog may clear it.
AbandonedStaysAbandoned ==
    [][session /= 0 /\ ~Owned /\ session' = session => ~Owned']_vars

\* Once the shutdown is signalled the supervisor launches nothing any more.
NothingLaunchedInShutdown ==
    [][managed /\ shutdown /\ cp = "down" => cp' = "down"]_vars

\* The tasks about to write a health computed before the shutdown began.
Outdated ==
    {t \in Tasks : at[t] \in {"set", "set_exit"} /\ calc[t] /= "shutting_down"}

\* set_health may put an older health in place of shutting_down, but only a task
\* does that whose snapshot is from before, and it does so once: no task takes an
\* outdated snapshot afterwards.
OnlyOvertakenForgetShutdown ==
    [][health = "shutting_down" =>
         /\ Outdated' \subseteq Outdated
         /\ health' /= "shutting_down" =>
              \E t \in Outdated \ Outdated' : health' = calc[t]]_vars

\* Once a shutdown has begun, the health says so.
ShutdownShown == at["shutdown"] /= "idle" => health = "shutting_down"

\* The boot sequence starts no shutdown and no process.
LEMMA InitBoot == Init => BootInvariant
<1> SUFFICES ASSUME Init PROVE BootInvariant
  OBVIOUS
<1>1. /\ at["shutdown"] = "idle"
      /\ \A t \in Tasks : at[t] \in {"idle", "top", "ended"}
  BY DEF Init, SupervisorStart, Tasks
<1>2. ShutdownInOrder /\ ChildWatched /\ OrphanNotConnected /\ OnlyRacersHold
  BY <1>1 DEF Init, ShutdownInOrder, ChildWatched, OrphanNotConnected, OnlyRacersHold
<1> QED
  BY <1>2, InitKernel DEF BootInvariant

\* The handlers of the two RPCs and the control plane: an exited kernel has no
\* handler, so nobody connects to it, and a managed control plane is started by
\* the supervisor alone.
LEMMA CallsBoot ==
    ASSUME BootInvariant,
           \/ Register \/ RegisterWrite \/ Heartbeat \/ HeartbeatLate
           \/ HeartbeatUpdate \/ StreamEnds \/ CpStart \/ CpExit
           \/ \E r \in Rpcs : RpcTimeout(r) \/ DropRpc(r)
    PROVE  /\ ShutdownInOrder' /\ ChildWatched' /\ OrphanNotConnected' /\ OnlyRacersHold'
<1> USE DEF BootInvariant, KernelInvariant, TypeOK, CallsAnswered, ShutdownInOrder,
            ChildWatched, OrphanNotConnected, OnlyRacersHold, Rpcs, Tasks, store, plane, Goto
<1>1. CASE Register
  BY <1>1 DEF Register
<1>2. CASE RegisterWrite
  BY <1>2 DEF RegisterWrite
<1>3. CASE Heartbeat
  BY <1>3 DEF Heartbeat, Reconnect
<1>4. CASE HeartbeatLate
  BY <1>4 DEF HeartbeatLate, Waiting, Done, Reconnect
<1>5. CASE HeartbeatUpdate
  BY <1>5 DEF HeartbeatUpdate
<1>6. CASE StreamEnds
  BY <1>6 DEF StreamEnds, Reconnect
<1>7. CASE CpStart
  BY <1>7 DEF CpStart
<1>8. CASE CpExit
  BY <1>8 DEF CpExit
<1>9. ASSUME NEW r \in Rpcs, RpcTimeout(r)
      PROVE  ShutdownInOrder' /\ ChildWatched' /\ OrphanNotConnected' /\ OnlyRacersHold'
  BY <1>9 DEF RpcTimeout, Waiting, Reconnect
<1>10. ASSUME NEW r \in Rpcs, DropRpc(r)
       PROVE  ShutdownInOrder' /\ ChildWatched' /\ OrphanNotConnected' /\ OnlyRacersHold'
  BY <1>10 DEF DropRpc, Done
<1> QED
  BY <1>1, <1>2, <1>3, <1>4, <1>5, <1>6, <1>7, <1>8, <1>9, <1>10

\* recompute_health, in any task.
LEMMA RecomputeBoot ==
    ASSUME BootInvariant, NEW t \in Tasks, Recompute(t)
    PROVE  /\ ShutdownInOrder' /\ ChildWatched' /\ OrphanNotConnected' /\ OnlyRacersHold'
<1> USE DEF BootInvariant, KernelInvariant, TypeOK, ShutdownInOrder, ChildWatched,
            OrphanNotConnected, OnlyRacersHold, Goto
<1>1. CASE Snapshot(t)
  BY <1>1 DEF Snapshot, Tasks, Rpcs, store, plane
<1>2. CASE SetHealth(t)
  <2>1. /\ at[t] \in {"set", "set_exit", "snapshot", "snapshot_exit"} /\ t /= "shutdown"
        /\ kernel /= "exited"
    BY <1>2 DEF SetHealth, Tasks, Rpcs
  <2>2. /\ \A u \in Tasks \ {t} : at'[u] = at[u]
        /\ at'[t] \in {"idle", "spawn", "top"}
        /\ UNCHANGED <<managed, shutdown, kernel>>
    BY <1>2 DEF SetHealth, Tasks
  <2>3. cp' /= "down" => cp /= "down"
    BY <1>2 DEF SetHealth, Answer, Waiting, plane
  <2>4. t = "supervisor" => cp = "down" \/ ~managed
    BY <2>1 DEF ChildWatched
  <2> QED
    BY <2>1, <2>2, <2>3, <2>4 DEF Tasks, Rpcs
<1> QED
  BY <1>1, <1>2 DEF Recompute

\* The watchdog, the refresh loop, the supervisor and the shutdown.
LEMMA TasksBoot ==
    ASSUME BootInvariant,
           \/ Delay \/ Expire \/ WatchdogTick \/ WatchdogClear \/ RefreshTick
           \/ Supervisor \/ BeginShutdown \/ ShutdownSend \/ Drain \/ Exit
           \/ TaskFails("supervisor") \/ TaskFails("watchdog")
    PROVE  /\ ShutdownInOrder' /\ ChildWatched' /\ OrphanNotConnected' /\ OnlyRacersHold'
<1> USE DEF BootInvariant, KernelInvariant, TypeOK, CallsAnswered, OneChild, ShutdownInOrder,
            ChildWatched, OrphanNotConnected, OnlyRacersHold, Rpcs, Tasks, store, plane, Goto
<1>1. CASE Delay \/ Expire
  BY <1>1 DEF Delay, Expire, Age
<1>2. CASE WatchdogTick
  BY <1>2 DEF WatchdogTick
<1>3. CASE WatchdogClear
  BY <1>3 DEF WatchdogClear
<1>4. CASE RefreshTick
  BY <1>4 DEF RefreshTick
<1>5. CASE SupervisorTop
  BY <1>5 DEF SupervisorTop
<1>6. CASE SupervisorClear
  BY <1>6 DEF SupervisorClear
<1>7. CASE SupervisorSpawn
  BY <1>7 DEF SupervisorSpawn
<1>8. CASE SupervisorMonitor
  BY <1>8 DEF SupervisorMonitor
<1>9. CASE BeginShutdown
  BY <1>9 DEF BeginShutdown
<1>10. CASE ShutdownSend
  BY <1>10 DEF ShutdownSend
<1>11. CASE Drain
  BY <1>11 DEF Drain
<1>12. CASE Exit
  BY <1>12 DEF Exit
<1>13. CASE TaskFails("supervisor") \/ TaskFails("watchdog")
  BY <1>13 DEF TaskFails
<1> QED
  BY <1>1, <1>2, <1>3, <1>4, <1>5, <1>6, <1>7, <1>8, <1>9, <1>10, <1>11, <1>12, <1>13
     DEF Supervisor

\* Every step keeps them all.
LEMMA BootStep == BootInvariant /\ [Next]_vars => BootInvariant'
<1> SUFFICES ASSUME BootInvariant, [Next]_vars PROVE BootInvariant'
  OBVIOUS
<1>1. KernelInvariant'
  BY KernelStep DEF BootInvariant
<1>2. CASE UNCHANGED vars
  BY <1>1, <1>2 DEF vars, store, plane, BootInvariant, ShutdownInOrder, ChildWatched,
     OrphanNotConnected, OnlyRacersHold
<1>3. CASE Next
  <2>1. \A t \in Rpcs \cup {"watchdog", "refresh", "supervisor"} : t \in Tasks
    BY DEF Tasks
  <2>2. ShutdownInOrder' /\ ChildWatched' /\ OrphanNotConnected' /\ OnlyRacersHold'
    BY <1>3, <2>1, CallsBoot, RecomputeBoot, TasksBoot
       DEF Next, RegisterHandler, HeartbeatHandler, Handler, Watchdog, Refresh,
           Supervise, ControlPlane, Rpcs
  <2> QED
    BY <1>1, <2>2 DEF BootInvariant
<1> QED
  BY <1>2, <1>3

\* Throughout a boot, with any number of faults and any interleaving, a managed
\* control plane is watched as long as the kernel lives, the kernel is left by a
\* shutdown only, and what it leaves behind has not connected.
THEOREM BootCorrect == Spec => []BootInvariant
BY InitBoot, BootStep, PTL DEF Spec

\* A session nobody answers for stays so: a registration takes an id that is not
\* in use, and an answer reaches only the caller that still waits for it.
LEMMA AbandonedStep ==
    ASSUME KernelInvariant, Next, session /= 0, ~Owned, session' = session
    PROVE  ~Owned'
<1> USE DEF KernelInvariant, TypeOK, CallsAnswered, Owned, Rpcs, Tasks, store, plane, Goto
<1>1. CASE Register
  <2>1. FreshSession /= session
    BY <1>1, FreshSessionType DEF Register, InUse
  <2> QED
    BY <1>1, <2>1 DEF Register
<1>2. CASE RegisterWrite
  BY <1>2 DEF RegisterWrite
<1>3. CASE Heartbeat \/ HeartbeatLate \/ HeartbeatUpdate \/ StreamEnds
  BY <1>3 DEF Heartbeat, HeartbeatLate, HeartbeatUpdate, StreamEnds, Waiting, Done,
     Reconnect
<1>4. CASE CpStart \/ CpExit
  BY <1>4 DEF CpStart, CpExit
<1>5. ASSUME NEW r \in Rpcs, RpcTimeout(r) \/ DropRpc(r) PROVE ~Owned'
  BY <1>5 DEF RpcTimeout, DropRpc, Waiting, Done, Reconnect
<1>6. ASSUME NEW t \in Tasks, Recompute(t) PROVE ~Owned'
  <2>1. CASE Snapshot(t)
    BY <2>1 DEF Snapshot
  <2>2. CASE SetHealth(t) /\ t \in Rpcs
    BY <2>2 DEF SetHealth, Answer, Waiting, Done
  <2>3. CASE SetHealth(t) /\ t \notin Rpcs
    BY <2>3 DEF SetHealth
  <2> QED
    BY <1>6, <2>1, <2>2, <2>3 DEF Recompute
<1>7. CASE \/ Delay \/ Expire \/ WatchdogTick \/ WatchdogClear \/ RefreshTick
           \/ BeginShutdown \/ ShutdownSend \/ Drain \/ Exit
           \/ TaskFails("supervisor") \/ TaskFails("watchdog")
  BY <1>7 DEF TaskFails, Delay, Expire, Age, WatchdogTick, WatchdogClear, RefreshTick, BeginShutdown,
     ShutdownSend, Drain, Exit
<1>8. CASE Supervisor
  BY <1>8 DEF Supervisor, SupervisorTop, SupervisorClear, SupervisorSpawn,
     SupervisorMonitor
<1> QED
  BY <1>1, <1>2, <1>3, <1>4, <1>5, <1>6, <1>7, <1>8
     DEF Next, RegisterHandler, HeartbeatHandler, Handler, Watchdog, Refresh,
         Supervise, ControlPlane

\* A session whose control plane is gone is never inherited, however late the
\* handlers of abandoned calls write: only the watchdog, the supervisor or the
\* next registration ends it.
THEOREM SessionsAreNotInherited == Spec => AbandonedStaysAbandoned
<1>1. KernelInvariant /\ [Next]_vars =>
        [session /= 0 /\ ~Owned /\ session' = session => ~Owned']_vars
  BY AbandonedStep
<1> QED
  BY <1>1, KernelCorrect, PTL DEF Spec, AbandonedStaysAbandoned

\* The one step that starts a managed process looks at the channel in the same
\* poll.
LEMMA LaunchStep ==
    ASSUME Next, managed, shutdown, cp = "down"
    PROVE  cp' = "down"
<1> USE DEF store, plane
<1>1. CASE \/ Register \/ RegisterWrite \/ Heartbeat \/ HeartbeatLate
           \/ HeartbeatUpdate \/ StreamEnds \/ CpStart \/ CpExit
  BY <1>1 DEF Register, RegisterWrite, Heartbeat, HeartbeatLate, HeartbeatUpdate,
     StreamEnds, CpStart, CpExit, Waiting, Reconnect
<1>2. ASSUME NEW r \in Rpcs, RpcTimeout(r) \/ DropRpc(r) PROVE cp' = "down"
  BY <1>2 DEF RpcTimeout, DropRpc, Waiting, Reconnect
<1>3. ASSUME NEW t \in Tasks, Recompute(t) PROVE cp' = "down"
  BY <1>3 DEF Recompute, Snapshot, SetHealth, Answer, Waiting
<1>4. CASE \/ Delay \/ Expire \/ WatchdogTick \/ WatchdogClear \/ RefreshTick
           \/ BeginShutdown \/ ShutdownSend \/ Drain \/ Exit
           \/ TaskFails("supervisor") \/ TaskFails("watchdog")
  BY <1>4 DEF Delay, Expire, Age, WatchdogTick, WatchdogClear, RefreshTick, BeginShutdown,
     ShutdownSend, Drain, Exit, TaskFails
<1>5. CASE Supervisor
  BY <1>5 DEF Supervisor, SupervisorTop, SupervisorClear, SupervisorSpawn,
     SupervisorMonitor
<1> QED
  BY <1>1, <1>2, <1>3, <1>4, <1>5
     DEF Next, RegisterHandler, HeartbeatHandler, Handler, Watchdog, Refresh,
         Supervise, ControlPlane, Rpcs, Tasks

\* A child that is gone when the shutdown is signalled, or goes during it, is not
\* started again, wherever in its loop the supervisor is.
THEOREM ShutdownLaunchesNothing == Spec => NothingLaunchedInShutdown
<1>1. [Next]_vars => [managed /\ shutdown /\ cp = "down" => cp' = "down"]_vars
  BY LaunchStep
<1> QED
  BY <1>1, PTL DEF Spec, NothingLaunchedInShutdown

\* What is computed once the health is shutting_down is shutting_down again, and
\* whoever has written an older one is not Outdated any more.
LEMMA ForgetStep ==
    ASSUME KernelInvariant, Next, health = "shutting_down"
    PROVE  /\ Outdated' \subseteq Outdated
           /\ health' /= "shutting_down" =>
                \E t \in Outdated \ Outdated' : health' = calc[t]
<1> DEFINE Goal == /\ Outdated' \subseteq Outdated
                   /\ health' /= "shutting_down" =>
                        \E t \in Outdated \ Outdated' : health' = calc[t]
<1> USE DEF KernelInvariant, TypeOK, Outdated, Rpcs, Tasks, store, plane, Goto
<1>0. EvaluateHealth = "shutting_down"
  BY DEF EvaluateHealth, Evaluate
<1>1. CASE \/ Register \/ RegisterWrite \/ Heartbeat \/ HeartbeatLate
           \/ HeartbeatUpdate \/ StreamEnds \/ CpStart \/ CpExit
  BY <1>1 DEF Register, RegisterWrite, Heartbeat, HeartbeatLate, HeartbeatUpdate,
     StreamEnds, CpStart, CpExit
<1>2. ASSUME NEW r \in Rpcs, RpcTimeout(r) \/ DropRpc(r) PROVE Goal
  BY <1>2 DEF RpcTimeout, DropRpc
<1>3. ASSUME NEW t \in Tasks, Snapshot(t) PROVE Goal
  BY <1>0, <1>3 DEF Snapshot
<1>4. ASSUME NEW t \in Tasks, SetHealth(t) PROVE Goal
  <2>1. /\ at'[t] \notin {"set", "set_exit"}
        /\ \A u \in Tasks \ {t} : at'[u] = at[u] /\ calc'[u] = calc[u]
    BY <1>4 DEF SetHealth
  <2>2. Outdated' \subseteq Outdated \ {t}
    BY <2>1
  <2>3. \/ at[t] \in {"set", "set_exit"} /\ health' = calc[t]
        \/ health' = EvaluateHealth
    BY <1>4 DEF SetHealth
  <2> QED
    BY <1>0, <2>2, <2>3
<1>5. CASE \/ Delay \/ Expire \/ WatchdogTick \/ WatchdogClear \/ RefreshTick
           \/ BeginShutdown \/ ShutdownSend \/ Drain \/ Exit
  BY <1>5 DEF Delay, Expire, Age, WatchdogTick, WatchdogClear, RefreshTick, BeginShutdown,
     ShutdownSend, Drain, Exit
<1>6. CASE Supervisor
  BY <1>6 DEF Supervisor, SupervisorTop, SupervisorClear, SupervisorSpawn,
     SupervisorMonitor
<1>7. ASSUME NEW t \in {"supervisor", "watchdog"}, TaskFails(t) PROVE Goal
  <2>1. /\ at'[t] = "ended"
        /\ \A u \in Tasks \ {t} : at'[u] = at[u] /\ calc'[u] = calc[u]
    BY <1>7 DEF TaskFails
  <2>2. Outdated' \subseteq Outdated \ {t}
    BY <2>1
  <2>3. \/ at[t] \in {"set", "set_exit"} /\ health' = calc[t]
        \/ health' = health
    BY <1>7 DEF TaskFails
  <2> QED
    BY <2>2, <2>3
<1> QED
  BY <1>1, <1>2, <1>3, <1>4, <1>5, <1>6, <1>7
     DEF Next, RegisterHandler, HeartbeatHandler, Handler, Watchdog, Refresh,
         Supervise, ControlPlane, Recompute

\* recompute_health can take shutting_down back, but only by a snapshot taken
\* before, once for each task that was overtaken.
THEOREM ShutdownForgottenByOvertaken == Spec => OnlyOvertakenForgetShutdown
<1>1. KernelInvariant /\ [Next]_vars =>
        [health = "shutting_down" =>
           /\ Outdated' \subseteq Outdated
           /\ health' /= "shutting_down" =>
                \E t \in Outdated \ Outdated' : health' = calc[t]]_vars
  BY ForgetStep
<1> QED
  BY <1>1, KernelCorrect, PTL DEF Spec, OnlyOvertakenForgetShutdown

\* Nothing but begin_shutdown starts the handler of a shutdown.
LEMMA ShutdownBegins ==
    ASSUME BootInvariant, Next, at["shutdown"] = "idle", ~BeginShutdown
    PROVE  at'["shutdown"] = "idle"
<1> USE DEF BootInvariant, KernelInvariant, TypeOK, Goto, Tasks, Rpcs
<1>1. ASSUME NEW t \in Tasks, Recompute(t) PROVE  at'["shutdown"] = "idle"
  BY <1>1 DEF Recompute, Snapshot, SetHealth
<1>2. ASSUME NEW r \in Rpcs, RpcTimeout(r) \/ DropRpc(r)
      PROVE  at'["shutdown"] = "idle"
  BY <1>2 DEF RpcTimeout, DropRpc
<1>3. CASE \/ Register \/ RegisterWrite \/ Heartbeat \/ HeartbeatLate
           \/ HeartbeatUpdate \/ StreamEnds \/ CpStart \/ CpExit
  BY <1>3 DEF Register, RegisterWrite, Heartbeat, HeartbeatLate,
     HeartbeatUpdate, StreamEnds, CpStart, CpExit
<1>4. CASE \/ Delay \/ Expire \/ WatchdogTick \/ WatchdogClear \/ RefreshTick
           \/ ShutdownSend \/ Drain \/ Supervisor
           \/ TaskFails("supervisor") \/ TaskFails("watchdog")
  BY <1>4 DEF TaskFails, Delay, Expire, Age, WatchdogTick, WatchdogClear, RefreshTick,
     ShutdownSend, Drain, Supervisor, SupervisorTop, SupervisorClear,
     SupervisorSpawn, SupervisorMonitor
<1>5. ~Exit
  BY DEF Exit, ShutdownInOrder
<1> QED
  BY <1>1, <1>2, <1>3, <1>4, <1>5
     DEF Next, RegisterHandler, HeartbeatHandler, Handler, Watchdog, Refresh,
         Supervise, ControlPlane

\* If every task computes and writes the health without being overtaken, then a
\* shutdown that has begun is shown until the end.
THEOREM ShutdownIsShown == Racing = {} => (Spec => []ShutdownShown)
<1> SUFFICES ASSUME Racing = {} PROVE Spec => []ShutdownShown
  OBVIOUS
<1>1. Init => ShutdownShown
  BY DEF Init, ShutdownShown, Tasks
<1>2. BootInvariant /\ ShutdownShown /\ [Next]_vars => ShutdownShown'
  <2> SUFFICES ASSUME BootInvariant, ShutdownShown, [Next]_vars PROVE ShutdownShown'
    OBVIOUS
  <2>1. Outdated = {}
    BY DEF Outdated, BootInvariant, OnlyRacersHold
  <2>2. CASE at["shutdown"] = "idle" /\ Next
    BY <2>2, ShutdownBegins DEF BeginShutdown, ShutdownShown
  <2>3. CASE at["shutdown"] /= "idle" /\ Next
    BY <2>1, <2>3, ForgetStep DEF ShutdownShown, BootInvariant
  <2>4. CASE UNCHANGED vars
    BY <2>4 DEF vars, store, ShutdownShown
  <2> QED
    BY <2>2, <2>3, <2>4
<1> QED
  BY <1>1, <1>2, BootCorrect, PTL DEF Spec
=============================================================================
