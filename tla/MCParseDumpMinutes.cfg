SPECIFICATION Spec
CONSTANTS
    Recordings <- Ordinary
    Losses <- None
    DbOpen = TRUE
    MaxPasses = 1
INVARIANT AllMinutes
CHECK_DEADLOCK FALSE
