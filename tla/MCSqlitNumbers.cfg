SPECIFICATION Spec
CONSTANTS
    Images = {i1, i2}
    ZEROS = zeros
    NONE = none
    Faults <- ExecFails
    AsksGaps = FALSE
    MaxDownloads = 2
    MaxResends = 0
    MaxAttempts = 0
    MaxFaults = 1
    MaxCrashes = 0
INVARIANT NumbersUnique
CHECK_DEADLOCK FALSE
