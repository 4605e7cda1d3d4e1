SPECIFICATION Spec
CONSTANTS
    MemoryThreads = {t1, t2}
    MaxTotalBytes = 3
    EntrySizes = {1, 2, 4}
    EntryIds = {1, 2, 3}
    MaxSeconds = 1
    PlainMin = 1
    PlainMax = 2
    DowMax = 2
    StepChoices = {0, 2}
    Tasks = {1, 2}
    Expressions <- MCExpressions
    Tickers = {t1, t2}
    Creators = {c1}
    MaxMinutes = 2
    MaxStarts = 1
    ScanMinutes = 3
    CheckpointCallers = {t1, t2}
    Workspaces = {w1, w2}
    SnapshotRefs = {f1, f2, f3}
    Servers = {"s1", "s2"}
    ToolNames = {"read", "write"}
    Advertised <- MCAdvertised
    Settings <- MCSettings
    Scopes <- MCScopes
    Connectors = {t1, t2}
    ToolCallers = {c1}
    HasSandbox = TRUE
    MaxConnections = 2
    TimeLimits = {0, 1, 3}
    Bridged = {TRUE, FALSE}
    MaxLines = 2
    MaxTime = 4
    HookRuns = {r1, r2}
    MaxHooks = 2
    StepIds = {"s1", "s2"}
    DepSets <- MCDepSets
    MaxSteps = 2
    Template <- MCTemplate
CHECK_DEADLOCK FALSE
INVARIANTS
    CronFaithful
    CheckpointsBacked
    ToolsGuarded
    SandboxResultsHonest
    HooksFailClosed
    PlannedGraphRuns
PROPERTIES
    MemoryCurated
    ScheduleHonoured
