SPECIFICATION FairSpec
CONSTANTS
    Pids = {1, 2, 3, 4, 5}
    Faults <- AnyFault
    MaxFaults = 2
    MaxDeaths = 1
    MaxOrphans = 2
    InTime = TRUE
INVARIANTS TypeOK CopiesBounded
PROPERTIES RestartLeavesOne Served
CHECK_DEADLOCK FALSE
