SPECIFICATION Spec
CONSTANTS
    Images = {i1, i2}
    ZEROS = zeros
    NONE = none
    Faults <- NoFault
    AsksGaps = FALSE
    MaxDownloads = 1
    MaxResends = 0
    MaxAttempts = 0
    MaxFaults = 0
    MaxCrashes = 1
INVARIANT RowFilled
CHECK_DEADLOCK FALSE
