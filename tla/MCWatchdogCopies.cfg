SPECIFICATION Spec
CONSTANTS
    Pids = {1, 2, 3, 4, 5}
    Faults <- None
    MaxFaults = 0
    MaxDeaths = 0
    MaxOrphans = 2
    InTime = TRUE
INVARIANT OneSimple
CHECK_DEADLOCK FALSE
