SPECIFICATION Spec
CONSTANTS
    a = a
    b = b
    c = c
    d = d
    e = e
    Steps <- WideSteps
    DependsOn <- Wide
    ApprovalSteps = {c}
    ConcurrencyLimit = 1
    UserRequests = {"approve", "reject", "cancel"}
    Outcomes = {"completed", "failed", "stop"}
    QuietStartup = FALSE
    MaxRetries = 1
    MaxCrashes = 1
INVARIANTS ExecutorInvariant RejectionHolds
