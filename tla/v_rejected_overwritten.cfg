SPECIFICATION Spec
CONSTANTS
    a = a
    b = b
    c = c
    d = d
    e = e
    Steps <- WideSteps
    DependsOn <- Wide
    ApprovalSteps = {c}
    ConcurrencyLimit = 2
    UserRequests = {"reject"}
    Outcomes = {"completed"}
    QuietStartup = TRUE
    MaxRetries = 0
    MaxCrashes = 0
PROPERTIES RunDecisionsStand
