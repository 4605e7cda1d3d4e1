SPECIFICATION FairSpec
CONSTANTS
    Invocations = {i1}
    Editors = {w1, w2}
    Gateway = TRUE
    MaxSaves = 2
    MaxFaults = 2
    MaxCrashes = 1
CHECK_DEADLOCK FALSE
INVARIANT InvocationRecordsAgree
PROPERTY InvocationsEnd
