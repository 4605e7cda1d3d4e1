SPECIFICATION FairSpec
CONSTANTS
    a = a
    b = b
    c = c
    d = d
    e = e
    Steps <- FanSteps
    DependsOn <- Fan
    ApprovalSteps = {}
    ConcurrencyLimit = 2
    UserRequests = {}
    Outcomes = {"completed", "failed", "stop"}
    QuietStartup = TRUE
    MaxRetries = 0
    MaxCrashes = 2
INVARIANTS DependencyOrder NeverStranded InFlightMatchesRows
