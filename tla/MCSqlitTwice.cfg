SPECIFICATION Spec
CONSTANTS
    Images = {i1, i2}
    ZEROS = zeros
    NONE = none
    Faults <- NoFault
    AsksGaps = FALSE
    MaxDownloads = 1
    MaxResends = 0
    MaxAttempts = 1
    MaxFaults = 0
    MaxCrashes = 0
INVARIANT LinesOnce
CHECK_DEADLOCK FALSE
