SPECIFICATION Spec
CONSTANTS
    Pids = {1, 2, 3, 4, 5}
    Faults <- AnyFault
    MaxFaults = 1
    MaxDeaths = 0
    MaxOrphans = 2
    InTime = TRUE
PROPERTY KillsOnCommand
CHECK_DEADLOCK FALSE
