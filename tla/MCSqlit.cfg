SPECIFICATION Spec
CONSTANTS
    Images = {i1, i2}
    ZEROS = zeros
    NONE = none
    Faults <- AnyFault
    AsksGaps = TRUE
    MaxDownloads = 2
    MaxResends = 1
    MaxAttempts = 1
    MaxFaults = 2
    MaxCrashes = 2
INVARIANTS TypeOK StaysOpen SentIsRow RowIsImage
PROPERTY KeepsLedger
CHECK_DEADLOCK FALSE
