---------------------------- MODULE KernelSession ----------------------------
(***************************************************************************)
(* The session between the kernel daemon (kernel/src/daemon.rs, over        *)
(* orchestrator/state.rs) and the control plane (control-plane/cp/          *)
(* runtime.py), during one boot of the kernel: registration, heartbeats,    *)
(* the watchdog, the supervisor that launches a managed control plane,      *)
(* dependencies, health and shutdown.                                       *)
(*                                                                          *)
(* StateStore::update is atomic, but a task of the kernel may be preempted  *)
(* between a snapshot and the update it bases on it: an action is one read  *)
(* or one update.  Events and status messages are left out, times are       *)
(* abstracted to whether the last heartbeat is older than the timeout, and  *)
(* the sleeps of a task are the time it does not take its next step.        *)
(***************************************************************************)
EXTENDS Naturals

CONSTANTS
    MaxFaults,   \* bound on late heartbeats, RPC timeouts and process exits
    Racing       \* tasks that may be preempted within recompute_health

VARIABLES
    managed,     \* VLOOP_CP_AUTOSTART, fixed at boot
    \* StateStore::inner
    health,
    deps,        \* the worst state of a critical dependency
    session,     \* control_plane.session_id; 0 when none is registered
    stale,       \* last_heartbeat_at is older than the timeout
    restarted,   \* restart_count > 0 (the count is kept across boots)
    \* The kernel process
    kernel,      \* "serving", "draining" (the server was told to stop), "exited"
    shutdown,    \* the watch channel shutdown_tx
    at,          \* where each task is
    calc,        \* per task: the health recompute_health is about to set
    rpc,         \* per RPC: the session its handler works for; 0 when idle
    \* The control plane process
    cp,          \* "down", "connecting", "registering" or "registered"
    cpSession,   \* runtime.session_id; 0 when it has none
    faults

store == <<health, deps, session, stale, restarted>>
plane == <<cp, cpSession>>
vars == <<managed, store, kernel, shutdown, at, calc, rpc, plane, faults>>

Rpcs == {"register", "heartbeat"}
Tasks == Rpcs \cup {"watchdog", "refresh", "supervisor", "shutdown"}
DepStates == {"ready", "degraded", "missing"}
Healths == {"ready", "degraded", "dependency_missing", "cp_unregistered",
            "cp_restarting", "shutting_down"}
None == "none"
\* Session ids are unique (UUIDs); as only equality matters, an id that is in
\* use nowhere stands for a fresh one.
SessionIds == 1..3
Points == {"idle", "write", "update", "clear", "clear_exit", "snapshot",
           "snapshot_exit", "set", "set_exit", "top", "spawn", "monitor", "send",
           "ended"}

ASSUME MaxFaultsAssumption == MaxFaults \in Nat
ASSUME RacingAssumption == Racing \subseteq Tasks

\* A dependency is critical only in managed mode, and then the critical ones
\* are those the control plane needs to start.
CollectDependencies == IF managed THEN DepStates ELSE {"ready"}

\* evaluate_health, of a health, dependencies, a session and "was restarted".
Evaluate(h, d, s, r) ==
    IF h = "shutting_down" THEN h
    ELSE IF d = "missing" THEN "dependency_missing"
    ELSE IF s /= 0 THEN IF d = "degraded" THEN "degraded" ELSE "ready"
    ELSE IF managed /\ r THEN "cp_restarting" ELSE "cp_unregistered"

EvaluateHealth == Evaluate(health, deps, session, restarted)

\* The supervisor is started in managed mode.  Without a launch spec (the
\* interpreter or the entry point is missing) it returns, for this whole boot.
SupervisorStart ==
    (IF managed THEN {"top"} ELSE {"ended"})
        \cup (IF deps = "missing" THEN {"ended"} ELSE {})

\* run_daemon up to serving: the session of the previous boot is cleared, the
\* dependencies are collected and health is computed.  A control plane the
\* kernel does not manage may be waiting for the socket already.
Init ==
    /\ managed \in BOOLEAN
    /\ deps \in CollectDependencies
    /\ session = 0
    /\ stale = FALSE
    /\ restarted \in BOOLEAN
    /\ health = Evaluate("starting", deps, 0, restarted)
    /\ kernel = "serving"
    /\ shutdown = FALSE
    /\ \E point \in SupervisorStart :
           at = [t \in Tasks |-> IF t = "supervisor" THEN point ELSE "idle"]
    /\ calc = [t \in Tasks |-> None]
    /\ rpc = [r \in Rpcs |-> 0]
    /\ cp \in IF managed THEN {"down"} ELSE {"down", "connecting"}
    /\ cpSession = 0
    /\ faults = 0

Goto(t, point) == at' = [at EXCEPT ![t] = point]

\* The handler of an RPC ends.
Done(r) == rpc' = [rpc EXCEPT ![r] = 0]

\* The caller of an RPC is still waiting for its answer.
Waiting(r) ==
    \/ r = "register" /\ cp = "registering"
    \/ r = "heartbeat" /\ cp = "registered" /\ cpSession = rpc[r]

\* The handler answers; a control plane that registers learns its session.
Answer(r) ==
    /\ Done(r)
    /\ IF r = "register" /\ Waiting(r)
       THEN cp' = "registered" /\ cpSession' = rpc[r]
       ELSE UNCHANGED plane

\* StateStore::clear_control_plane
Clear == session' = 0 /\ stale' = FALSE

\* Something goes wrong that no fairness excludes; bounded.
Fault == faults < MaxFaults /\ faults' = faults + 1

-----------------------------------------------------------------------------
(* recompute_health, which every task of the kernel ends with: a snapshot,  *)
(* then set_health with what was computed from it.                          *)

Snapshot(t) ==
    /\ t \in Racing
    /\ \/ at[t] = "snapshot" /\ Goto(t, "set")
       \/ at[t] = "snapshot_exit" /\ Goto(t, "set_exit")
    /\ calc' = [calc EXCEPT ![t] = EvaluateHealth]
    /\ UNCHANGED <<managed, store, kernel, shutdown, rpc, plane, faults>>

SetHealth(t) ==
    /\ \/ at[t] \in {"set", "set_exit"} /\ health' = calc[t]
       \/ t \notin Racing /\ at[t] \in {"snapshot", "snapshot_exit"} /\ health' = EvaluateHealth
    /\ calc' = [calc EXCEPT ![t] = None]
    /\ IF t \in Rpcs THEN Answer(t) ELSE UNCHANGED <<rpc, plane>>
    /\ Goto(t, IF t /= "supervisor" THEN "idle"
               ELSE IF at[t] \in {"set", "snapshot"} THEN "spawn" ELSE "top")
    /\ UNCHANGED <<managed, deps, session, stale, restarted, kernel, shutdown, faults>>

-----------------------------------------------------------------------------
(* The control plane: _run_kernel_session, in run's endless retry.          *)

\* A user starts a control plane the kernel does not manage.
CpStart ==
    /\ ~managed
    /\ cp = "down"
    /\ cp' = "connecting"
    /\ UNCHANGED <<managed, store, kernel, shutdown, at, calc, rpc, cpSession,
                   faults>>

\* The session ends with an exception: session_id is dropped, run retries.
Reconnect == cp' = "connecting" /\ cpSession' = 0

InUse == {session, cpSession} \cup {rpc[r] : r \in Rpcs}
FreshSession == CHOOSE s \in SessionIds : s \notin InUse

\* The channel is ready and RegisterControlPlane is called; the handler takes
\* a fresh session id.  One handler of a kind is in flight at a time: a call
\* made while an abandoned one is still being dropped waits for it.
Register ==
    /\ cp = "connecting"
    /\ kernel = "serving"
    /\ at["register"] = "idle"
    /\ cp' = "registering"
    /\ rpc' = [rpc EXCEPT !["register"] = FreshSession]
    /\ Goto("register", "write")
    /\ UNCHANGED <<managed, store, kernel, shutdown, calc, cpSession, faults>>

\* StateStore::register_control_plane replaces whatever session there was.
RegisterWrite ==
    /\ at["register"] = "write"
    /\ session' = rpc["register"]
    /\ stale' = FALSE
    /\ Goto("register", "snapshot")
    /\ UNCHANGED <<managed, health, deps, restarted, kernel, shutdown, calc, rpc,
                   plane, faults>>

\* Mutant of Heartbeat: the control plane stays in a session it has lost.
HeartbeatIgnoresRefusal ==
    /\ cp = "registered"
    /\ IF kernel = "serving"
       THEN /\ at["heartbeat"] = "idle"
            /\ session = cpSession
            /\ Goto("heartbeat", "update")
            /\ rpc' = [rpc EXCEPT !["heartbeat"] = cpSession]
            /\ UNCHANGED plane
       ELSE Reconnect /\ UNCHANGED <<at, rpc>>
    /\ UNCHANGED <<managed, store, kernel, shutdown, calc, faults>>

\* _heartbeat_loop calls and control_plane_heartbeat compares the session with
\* a snapshot's.  A refusal, or a server that has stopped accepting, ends the
\* session of the control plane.
Heartbeat ==
    /\ cp = "registered"
    /\ at["heartbeat"] = "idle" \/ kernel /= "serving"
    /\ IF kernel = "serving" /\ session = cpSession
       THEN /\ Goto("heartbeat", "update")
            /\ rpc' = [rpc EXCEPT !["heartbeat"] = cpSession]
            /\ UNCHANGED plane
       ELSE Reconnect /\ UNCHANGED <<at, rpc>>
    /\ UNCHANGED <<managed, store, kernel, shutdown, calc, faults>>

\* current_session_matches finds another session just before the update.
HeartbeatLate ==
    /\ at["heartbeat"] = "update"
    /\ session /= rpc["heartbeat"]
    /\ Goto("heartbeat", "idle")
    /\ Done("heartbeat")
    /\ IF Waiting("heartbeat") THEN Reconnect ELSE UNCHANGED plane
    /\ UNCHANGED <<managed, store, kernel, shutdown, calc, faults>>

\* The update of heartbeat_control_plane tests the session once more; one that
\* was replaced since current_session_matches is acknowledged all the same.
HeartbeatUpdate ==
    /\ at["heartbeat"] = "update"
    /\ stale' = (stale /\ session /= rpc["heartbeat"])
    /\ Goto("heartbeat", "snapshot")
    /\ UNCHANGED <<managed, health, deps, session, restarted, kernel, shutdown, calc,
                   rpc, plane, faults>>

\* WatchKernelEvents ends with an error when the next event is due and the
\* session is no longer current, and _event_loop with it.
StreamEnds ==
    /\ cp = "registered"
    /\ session /= cpSession
    /\ Reconnect
    /\ UNCHANGED <<managed, store, kernel, shutdown, at, calc, rpc, faults>>

\* An RPC is not answered within rpc_timeout_seconds.
RpcTimeout(r) ==
    /\ at[r] /= "idle"
    /\ Waiting(r)
    /\ Fault
    /\ Reconnect
    /\ UNCHANGED <<managed, store, kernel, shutdown, at, calc, rpc>>

\* Mutant of DropRpc: whoever waits for it, a handler may vanish.
DropRpcAny(r) ==
    /\ at[r] \notin {"idle", "ended"}
    /\ Goto(r, "idle")
    /\ Done(r)
    /\ calc' = [calc EXCEPT ![r] = None]
    /\ UNCHANGED <<managed, store, kernel, shutdown, plane, faults>>

\* The server drops the handler of a call whose caller is gone, at any await.
DropRpc(r) ==
    /\ at[r] \notin {"idle", "ended"}
    /\ ~Waiting(r)
    /\ Goto(r, "idle")
    /\ Done(r)
    /\ calc' = [calc EXCEPT ![r] = None]
    /\ UNCHANGED <<managed, store, kernel, shutdown, plane, faults>>

\* The control plane crashes, or its user quits it.
CpExit ==
    /\ cp /= "down"
    /\ Fault
    /\ cp' = "down"
    /\ cpSession' = 0
    /\ UNCHANGED <<managed, store, kernel, shutdown, at, calc, rpc>>

-----------------------------------------------------------------------------
(* The watchdog and the refresh of the dependencies.                        *)

\* Somebody sends heartbeats for the registered session, or is about to.
Owned ==
    \/ cp = "registered" /\ cpSession = session
    \/ cp = "registering" /\ rpc["register"] = session

\* The last heartbeat passes the timeout.
Age ==
    /\ session /= 0
    /\ ~stale
    /\ stale' = TRUE
    /\ UNCHANGED <<managed, health, deps, session, restarted, kernel, shutdown, at, calc,
                   rpc, plane>>

Expire == ~Owned /\ kernel = "serving" /\ Age /\ UNCHANGED faults
Delay == Owned /\ Fault /\ Age

\* Mutant of WatchdogTick: only a control plane that is not registered times out.
WatchdogTickUnregistered ==
    /\ at["watchdog"] = "idle"
    /\ ~shutdown
    /\ session = 0 /\ stale
    /\ Goto("watchdog", "clear")
    /\ UNCHANGED <<managed, store, kernel, shutdown, calc, rpc, plane, faults>>

\* A tick that finds a heartbeat too old; the others change nothing.
WatchdogTick ==
    /\ at["watchdog"] = "idle"
    /\ ~shutdown
    /\ session /= 0 /\ stale
    /\ Goto("watchdog", "clear")
    /\ UNCHANGED <<managed, store, kernel, shutdown, calc, rpc, plane, faults>>

\* clear_control_plane, whichever session is registered by now.
WatchdogClear ==
    /\ at["watchdog"] = "clear"
    /\ Clear
    /\ Goto("watchdog", "snapshot")
    /\ UNCHANGED <<managed, health, deps, restarted, kernel, shutdown, calc, rpc,
                   plane, faults>>

\* Mutant of RefreshTick: refresh_dependencies does not recompute the health.
RefreshTickOnly ==
    /\ at["refresh"] = "idle"
    /\ ~shutdown
    /\ deps' \in CollectDependencies
    /\ UNCHANGED <<managed, health, session, stale, restarted, kernel, shutdown, at, calc,
                   rpc, plane, faults>>

\* A tick of dependency_refresh_loop: what the probes find is stored.
RefreshTick ==
    /\ at["refresh"] = "idle"
    /\ ~shutdown
    /\ deps' \in CollectDependencies
    /\ Goto("refresh", "snapshot")
    /\ UNCHANGED <<managed, health, session, stale, restarted, kernel, shutdown, calc,
                   rpc, plane, faults>>

-----------------------------------------------------------------------------
(* control_plane_supervisor_loop                                            *)

\* managed_control_plane_launch_ready
LaunchReady == deps = "ready"

\* The head of the loop; it waits while launch_ready is false.
SupervisorTop ==
    /\ at["supervisor"] = "top"
    /\ \/ shutdown /\ Goto("supervisor", "ended")
       \/ ~shutdown /\ LaunchReady /\ Goto("supervisor", "clear")
    /\ UNCHANGED <<managed, store, kernel, shutdown, calc, rpc, plane, faults>>

\* launch_control_plane_process clears the session; so does the loop after an
\* exit, when it has incremented the restart count.
SupervisorClear ==
    /\ \/ at["supervisor"] = "clear" /\ Goto("supervisor", "snapshot")
          /\ UNCHANGED restarted
       \/ at["supervisor"] = "clear_exit" /\ Goto("supervisor", "snapshot_exit")
          /\ restarted' = TRUE
    /\ Clear
    /\ UNCHANGED <<managed, health, deps, kernel, shutdown, calc, rpc, plane, faults>>

\* The child is spawned; a shutdown already signalled kills it in the same poll.
SupervisorSpawn ==
    /\ at["supervisor"] = "spawn"
    /\ cp' = IF shutdown THEN "down" ELSE "connecting"
    /\ Goto("supervisor", "monitor")
    /\ UNCHANGED <<managed, store, kernel, shutdown, calc, rpc, cpSession, faults>>

\* Mutant of SupervisorMonitor: the exit of the child is not waited for.
SupervisorMonitorShutdownOnly ==
    /\ at["supervisor"] = "monitor"
    /\ shutdown
    /\ cp' = "down"
    /\ cpSession' = 0
    /\ Goto("supervisor", "clear_exit")
    /\ UNCHANGED <<managed, store, kernel, shutdown, calc, rpc, faults>>

\* monitor_control_plane_process: the child has exited, or the kernel shuts
\* down and the child is killed.
SupervisorMonitor ==
    /\ at["supervisor"] = "monitor"
    /\ cp = "down" \/ shutdown
    /\ cp' = "down"
    /\ cpSession' = 0
    /\ Goto("supervisor", "clear_exit")
    /\ UNCHANGED <<managed, store, kernel, shutdown, calc, rpc, faults>>

Supervisor ==
    SupervisorTop \/ SupervisorClear \/ SupervisorSpawn \/ SupervisorMonitor

\* An error the two long-lived loops do not handle leaves them by `?`: the log or
\* the process of the child cannot be opened or spawned, or StateStore::update
\* has changed the state and cannot write it to the disk.  run_daemon's wrapper
\* logs the error and the task is gone for the rest of the boot.
TaskFails(t) ==
    /\ at[t] \in {"clear_exit", "snapshot", "snapshot_exit", "set", "set_exit", "spawn"}
    /\ Goto(t, "ended")
    /\ restarted' = (restarted \/ at[t] = "clear_exit")
    /\ health' = IF at[t] \in {"set", "set_exit"} THEN calc[t] ELSE health
    /\ calc' = [calc EXCEPT ![t] = None]
    /\ UNCHANGED <<managed, deps, session, stale, kernel, shutdown, rpc, plane, faults>>

-----------------------------------------------------------------------------
(* Shutdown                                                                 *)

\* The Shutdown RPC or a signal: begin_shutdown, when it is not under way,
\* sets the health ...
BeginShutdown ==
    /\ at["shutdown"] = "idle"
    /\ ~shutdown
    /\ health' = "shutting_down"
    /\ Goto("shutdown", "send")
    /\ UNCHANGED <<managed, deps, session, stale, restarted, kernel, shutdown, calc, rpc,
                   plane, faults>>


\* ... and then writes the channel.
ShutdownSend ==
    /\ at["shutdown"] = "send"
    /\ shutdown' = TRUE
    /\ Goto("shutdown", "ended")
    /\ UNCHANGED <<managed, store, kernel, calc, rpc, plane, faults>>

\* The server sees the channel: no new connection, no new call.
Drain ==
    /\ kernel = "serving"
    /\ shutdown
    /\ kernel' = "draining"
    /\ UNCHANGED <<managed, store, shutdown, at, calc, rpc, plane, faults>>

\* The calls and streams in progress have ended: run_daemon aborts its tasks,
\* wherever they are, and returns.
Exit ==
    /\ kernel = "draining"
    /\ \A r \in Rpcs : at[r] = "idle"
    /\ cp /= "registered"
    /\ kernel' = "exited"
    /\ at' = [t \in Tasks |-> "ended"]
    /\ calc' = [t \in Tasks |-> None]
    /\ UNCHANGED <<managed, store, shutdown, rpc, plane, faults>>

-----------------------------------------------------------------------------

Recompute(t) == Snapshot(t) \/ SetHealth(t)

Handler(r) == Recompute(r) \/ DropRpc(r)
RegisterHandler == RegisterWrite \/ Handler("register")
HeartbeatHandler ==
    HeartbeatLate \/ HeartbeatUpdate \/ Handler("heartbeat")
Watchdog == WatchdogTick \/ WatchdogClear \/ Recompute("watchdog")
Refresh == RefreshTick \/ Recompute("refresh")
Supervise == Supervisor \/ Recompute("supervisor")
ControlPlane == Register \/ Heartbeat

Next ==
    \/ CpStart \/ CpExit \/ StreamEnds \/ BeginShutdown \/ Delay \/ Expire
    \/ \E r \in Rpcs : RpcTimeout(r)
    \/ TaskFails("supervisor") \/ TaskFails("watchdog")
    \/ RegisterHandler \/ HeartbeatHandler \/ Watchdog \/ Refresh \/ Supervise
    \/ ShutdownSend \/ Drain \/ Exit \/ ControlPlane

\* The tasks of the kernel and of the control plane keep running, and a
\* heartbeat nobody renews gets older.  A call is made, an exit or an event
\* happens when it pleases.
Fairness ==
    /\ WF_vars(RegisterHandler) /\ WF_vars(HeartbeatHandler) /\ WF_vars(Watchdog)
    /\ WF_vars(Refresh) /\ WF_vars(Supervise) /\ WF_vars(ShutdownSend)
    /\ WF_vars(Drain) /\ WF_vars(Exit) /\ WF_vars(Register) /\ WF_vars(Heartbeat)
    /\ WF_vars(Expire)

Spec == Init /\ [][Next]_vars
FairSpec == Spec /\ Fairness

-----------------------------------------------------------------------------
(* Properties                                                               *)

\* The state of the kernel and of the control plane is well-formed; a health
\* is one of KernelHealth's, and a control plane has a session id exactly while
\* it is registered.
TypeOK ==
    /\ managed \in BOOLEAN /\ stale \in BOOLEAN /\ restarted \in BOOLEAN
    /\ shutdown \in BOOLEAN
    /\ health \in Healths /\ deps \in DepStates
    /\ session \in {0} \cup SessionIds /\ cpSession \in {0} \cup SessionIds
    /\ kernel \in {"serving", "draining", "exited"}
    /\ at \in [Tasks -> Points]
    /\ calc \in [Tasks -> Healths \cup {None}]
    /\ \A t \in Tasks : at[t] \in {"set", "set_exit"} => calc[t] \in Healths
    /\ rpc \in [Rpcs -> {0} \cup SessionIds]
    /\ cp \in {"down", "connecting", "registering", "registered"}
    /\ cp = "registered" <=> cpSession /= 0
    /\ faults \in 0..MaxFaults

\* A handler is at work exactly while its session is set, and for a control
\* plane that waits for its registration there is one: no call is left without
\* an answer, in whichever order timeouts, exits, drops and answers happen.
CallsAnswered ==
    /\ \A r \in Rpcs : rpc[r] = 0 <=> at[r] \in {"idle", "ended"}
    /\ cp = "registering" => rpc["register"] /= 0

\* The supervisor launches a control plane only when the one before is gone.
OneChild ==
    /\ at["supervisor"] /= "ended" => managed
    /\ at["supervisor"] \notin {"monitor", "ended"} => cp = "down"

\* What the tasks of the kernel preserve together (proved inductive).
KernelInvariant == TypeOK /\ CallsAnswered /\ OneChild

\* "Stale sessions must be invalidated" (docs/kernel-ipc.md): when the control
\* plane is gone for good its session does not stay in the store, although a
\* registration handler may outlive its caller and write after the supervisor
\* has cleared the session, or the supervisor may end with an error before it
\* clears it.  Only the watchdog has to live.
DeadPlaneNoticed ==
    <>[](cp = "down" /\ kernel = "serving" /\ at["watchdog"] /= "ended")
        => <>[](session = 0)

\* A control plane that stays alive ends up with the session the kernel holds,
\* whatever the watchdog, the supervisor and late answers did to it before
\* (the reconnect loop of run, the rejection of a stale heartbeat).
LivePlaneRegistered ==
    <>[](cp /= "down" /\ kernel = "serving")
        => <>[](cp = "registered" /\ session = cpSession)

\* recompute_health writes what it computed from an older snapshot, so a task
\* may put an outdated health back.  Once the state stops changing, the health
\* does settle on the one evaluate_health gives for it.
HealthConverges ==
    \A h \in Healths :
        <>[](kernel = "serving" /\ EvaluateHealth = h) => <>[](health = h)

\* A managed control plane that is gone is started again (docs/vloopd.md:
\* "restarts CP correctly") once the dependencies allow it, unless an error has
\* ended the supervisor: a launch that fails is not tried again.
ChildRestarted ==
    managed /\ <>[](deps = "ready" /\ kernel = "serving")
        => []<>(cp /= "down") \/ <>[](at["supervisor"] = "ended")


\* docs/vloopd.md: the kernel "shuts down gracefully without orphaning child
\* processes".
NoOrphanedControlPlane == managed /\ kernel = "exited" => cp = "down"
=============================================================================
