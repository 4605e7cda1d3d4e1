SPECIFICATION FairSpec
CONSTANTS
    a = a
    b = b
    c = c
    d = d
    e = e
    Steps <- GatedSteps
    DependsOn <- Gated
    ApprovalSteps = {c}
    ConcurrencyLimit = 2
    UserRequests = {"approve", "cancel"}
    Outcomes = {"completed", "failed", "stop"}
    QuietStartup = TRUE
    MaxRetries = 1
    MaxCrashes = 0
PROPERTIES EventuallySettles PausedRunIsParked
