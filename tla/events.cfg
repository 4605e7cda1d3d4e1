SPECIFICATION FairSpec
CONSTANTS
    Runs = {r1}
    Emitters = {e1, e2}
    Clients = {c1, c2}
    QueueSize = 1
    MaxEvents = 2
CHECK_DEADLOCK FALSE
INVARIANT StreamFaithful
PROPERTY ConnectionsSettle
