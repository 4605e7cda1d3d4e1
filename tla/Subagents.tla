------------------------------ MODULE Subagents ------------------------------
(***************************************************************************)
(* SubagentManager (control-plane/core/subagent_manager.py): each spawn runs *)
(* on its own thread, waits for a slot, runs the injected runner and adds    *)
(* its usage first to the ledger in memory and then to the budget_json of    *)
(* the run's row.  All spawns are for one run; the contexts and toolsets     *)
(* handed to the children are private copies and are left out.               *)
(***************************************************************************)
EXTENDS RunBudget, FiniteSets

CONSTANTS
    Agents,       \* the specs given to spawn_many
    Limit         \* concurrency_limit

VARIABLES
    sub,          \* where each spawn is
    tokens,       \* per spawn: the usage its result reports
    got,          \* per spawn: the used_tokens that _persist_usage has read
    slots,        \* free slots of the BoundedSemaphore
    active, peak, \* _active, _peak_active
    ledger        \* _usage_by_run of the run

manager == <<slots, active, peak, ledger>>
subVars == <<sub, tokens, got, manager>>

SubPoints == {"queued", "enter", "run", "leave", "release", "record", "read",
              "write", "done"}

ASSUME AgentsAssumption == IsFiniteSet(Agents)
ASSUME LimitAssumption == Limit \in Nat \ {0}

\* spawn_many starts the threads of the specs it is given: any of Agents.
SubInit ==
    /\ sub \in [Agents -> {"queued", "done"}]
    /\ tokens = [a \in Agents |-> 0]
    /\ got = [a \in Agents |-> 0]
    /\ slots = Limit
    /\ active = 0 /\ peak = 0 /\ ledger = 0

Step(a, from, to) == sub[a] = from /\ sub' = [sub EXCEPT ![a] = to]

AcquireSlot(a) ==
    /\ Step(a, "queued", "enter")
    /\ slots > 0
    /\ slots' = slots - 1
    /\ UNCHANGED <<used, tokens, got, active, peak, ledger>>

EnterActive(a) ==
    /\ Step(a, "enter", "run")
    /\ active' = active + 1
    /\ peak' = IF active' > peak THEN active' ELSE peak
    /\ UNCHANGED <<used, tokens, got, slots, ledger>>

\* The runner returns a usage; when it raises, the usage is 0.
RunnerEnds(a) ==
    /\ Step(a, "run", "leave")
    /\ \E t \in Usages \cup {0} : tokens' = [tokens EXCEPT ![a] = t]
    /\ UNCHANGED <<used, got, manager>>

LeaveActive(a) ==
    /\ Step(a, "leave", "release")
    /\ active' = active - 1
    /\ UNCHANGED <<used, tokens, got, slots, peak, ledger>>

ReleaseSlot(a) ==
    /\ Step(a, "release", "record")
    /\ slots' = slots + 1
    /\ UNCHANGED <<used, tokens, got, active, peak, ledger>>

RecordUsage(a) ==
    /\ Step(a, "record", IF tokens[a] > 0 THEN "read" ELSE "done")
    /\ ledger' = ledger + tokens[a]
    /\ UNCHANGED <<used, tokens, got, slots, active, peak>>

\* _persist_usage reads the row and writes it back without any lock.
PersistRead(a) ==
    /\ Step(a, "read", "write")
    /\ got' = [got EXCEPT ![a] = used]
    /\ UNCHANGED <<used, tokens, manager>>

PersistWrite(a) ==
    /\ Step(a, "write", "done")
    /\ used' = got[a] + tokens[a]
    /\ UNCHANGED <<tokens, got, manager>>

SubStep(a) ==
    \/ AcquireSlot(a) \/ EnterActive(a) \/ RunnerEnds(a) \/ LeaveActive(a)
    \/ ReleaseSlot(a) \/ RecordUsage(a) \/ PersistRead(a) \/ PersistWrite(a)

SubNext == \E a \in Agents : SubStep(a)

-----------------------------------------------------------------------------
At(points) == {a \in Agents : sub[a] \in points}

\* No more subagents run than the limit, whatever the order in which spawns
\* queue, start, raise and end: every slot is free or held by one spawn on its
\* way from acquire to release, _active counts exactly the runners, and
\* peak_active never shows more than the limit.
SlotsKept ==
    /\ slots + Cardinality(At({"enter", "run", "leave", "release"})) = Limit
    /\ active = Cardinality(At({"run", "leave"}))
    /\ peak <= Limit
=============================================================================
