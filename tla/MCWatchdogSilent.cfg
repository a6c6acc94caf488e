SPECIFICATION FairSpec
CONSTANTS
    Pids = {1, 2, 3, 4, 5}
    Faults <- OnlySilent
    MaxFaults = 1
    MaxDeaths = 0
    MaxOrphans = 2
    InTime = TRUE
PROPERTY Listens
CHECK_DEADLOCK FALSE
