SPECIFICATION Spec
CONSTANTS
    Images = {i1, i2}
    ZEROS = zeros
    NONE = none
    Faults <- CommitFails
    AsksGaps = FALSE
    MaxDownloads = 1
    MaxResends = 0
    MaxAttempts = 0
    MaxFaults = 1
    MaxCrashes = 0
INVARIANT SavedBeforeSent
CHECK_DEADLOCK FALSE
