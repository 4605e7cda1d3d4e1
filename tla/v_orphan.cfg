SPECIFICATION Spec
CONSTANT MaxFaults = 0
CONSTANT Racing = {}
CHECK_DEADLOCK FALSE
INVARIANT NoOrphanedControlPlane
