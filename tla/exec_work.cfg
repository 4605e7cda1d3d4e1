SPECIFICATION FairSpec
CONSTANTS
    a = a
    b = b
    c = c
    d = d
    e = e
    Steps <- FanSteps
    DependsOn <- Fan
    ApprovalSteps = {}
    ConcurrencyLimit = 2
    UserRequests = {"cancel"}
    Outcomes = {"completed", "failed"}
    QuietStartup = TRUE
    MaxRetries = 2
    MaxCrashes = 0
INVARIANTS RunnersWithinLimit
PROPERTIES ImplementsLifecycle EventuallySettles
