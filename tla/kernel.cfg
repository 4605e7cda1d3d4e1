SPECIFICATION FairSpec
CONSTANT MaxFaults = 1
CONSTANT Racing = {"supervisor", "watchdog"}
CHECK_DEADLOCK FALSE
INVARIANT KernelInvariant
PROPERTIES
    DeadPlaneNoticed
    LivePlaneRegistered
    HealthConverges
    ChildRestarted
    
