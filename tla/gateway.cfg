SPECIFICATION FairSpec
CONSTANTS
    pa = pa
    pb = pb
    r1 = r1
    r2 = r2
    c1 = c1
    c2 = c2
    Providers = {pa, pb}
    Callers = {c1, c2}
    Agents = {a1, a2}
    Keys = {k1, k2}
    Fallbacks <- MCFallbacks
    Pool <- MCPool
    Healths <- MCHealths
    Setups <- MCSetups
    MaxTokens = 1
    Estimates = {0, 2}
    Usages = {2}
    MaxUsage = 2
    Limit = 1
    MaxEntries = 1
    MaxRetries = 1
    MaxCalls = 1
    Window = 1
    MaxSkips = 1
CHECK_DEADLOCK FALSE
INVARIANTS
    UsageInvariant
    UsageAccounted
    LimitsKept
    QuarantineHolds
    CacheConsistent
    CallsWellRouted
PROPERTIES
    GrantsRotate
    AllEnd
