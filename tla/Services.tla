------------------------------ MODULE Services -----------------------------
(***************************************************************************)
(* The services around the executor that OrchestrationMixin builds beside  *)
(* one another (cp/orchestration.py _init_orchestration): memory, cron and *)
(* scheduler, checkpoints, tools and MCP servers, sandboxed scripts, hooks *)
(* and workflow planning.  They keep separate tables, locks and objects:   *)
(* no action of one reads or writes a variable of another, so a behaviour  *)
(* of all of them is an interleaving of behaviours of each, and a property *)
(* of one holds among all exactly when it holds of that one alone.  Each   *)
(* behaviour here therefore exercises one service, chosen at the start.    *)
(***************************************************************************)
EXTENDS MemoryStore, Scheduler, Checkpoints, ToolCatalog, CodeExecution, Hooks, Planning

VARIABLE focus  \* the service that moves in this behaviour

AllServices == {"memory", "cron", "scheduler", "checkpoints", "tools", "scripts", "hooks",
                "planning"}

vars == <<focus, memoryVars, cronVars, schedulerVars, checkpointVars, toolVars, execVars,
          hookVars, planningVars>>

Init ==
    /\ focus \in AllServices
    /\ MemoryInit /\ (focus /= "memory" => onOverflow = "reject")
    /\ SchedulerInit /\ CheckpointsInit /\ ToolsInit /\ HooksInit
    /\ ExecInit /\ (focus /= "scripts" => bridged = TRUE)
    /\ IF focus = "cron" THEN CronInit
       ELSE cronField = [f |-> "plain", parts |-> {}] /\ cronValues = Unparsed
    /\ IF focus = "planning" THEN PlanningInit
       ELSE /\ posted = << >> /\ catalogued = {} /\ planning = "posted"
            /\ planned = << >> /\ definition = << >> /\ stepRows = << >>

Memory == /\ focus = "memory" /\ MemoryNext
          /\ UNCHANGED <<cronVars, schedulerVars, checkpointVars, toolVars, execVars,
                         hookVars, planningVars>>

ParseCron == /\ focus = "cron" /\ CronNext
             /\ UNCHANGED <<memoryVars, schedulerVars, checkpointVars, toolVars, execVars,
                            hookVars, planningVars>>

Schedule == /\ focus = "scheduler" /\ SchedulerNext
            /\ UNCHANGED <<memoryVars, cronVars, checkpointVars, toolVars, execVars,
                           hookVars, planningVars>>

Checkpoint == /\ focus = "checkpoints" /\ CheckpointsNext
              /\ UNCHANGED <<memoryVars, cronVars, schedulerVars, toolVars, execVars,
                             hookVars, planningVars>>

UseTools == /\ focus = "tools" /\ ToolsNext
            /\ UNCHANGED <<memoryVars, cronVars, schedulerVars, checkpointVars, execVars,
                           hookVars, planningVars>>

RunScripts == /\ focus = "scripts" /\ ExecNext
              /\ UNCHANGED <<memoryVars, cronVars, schedulerVars, checkpointVars, toolVars,
                             hookVars, planningVars>>

RunHooks == /\ focus = "hooks" /\ HooksNext
            /\ UNCHANGED <<memoryVars, cronVars, schedulerVars, checkpointVars, toolVars,
                           execVars, planningVars>>

Plan == /\ focus = "planning" /\ PlanningNext
        /\ UNCHANGED <<memoryVars, cronVars, schedulerVars, checkpointVars, toolVars,
                       execVars, hookVars>>

Next ==
    /\ \/ Memory \/ ParseCron \/ Schedule \/ Checkpoint
       \/ UseTools \/ RunScripts \/ RunHooks \/ Plan
    /\ UNCHANGED focus

Spec == Init /\ [][Next]_vars
=============================================================================
