SPECIFICATION Spec
CONSTANTS
    Images = {i1, i2}
    ZEROS = zeros
    NONE = none
    Faults <- NoFault
    AsksGaps = FALSE
    MaxDownloads = 2
    MaxResends = 1
    MaxAttempts = 0
    MaxFaults = 0
    MaxCrashes = 0
INVARIANT NewIsNoResend
CHECK_DEADLOCK FALSE
