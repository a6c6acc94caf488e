SPECIFICATION Spec
CONSTANTS
    Recordings <- Doubtful
    Losses <- None
    DbOpen = TRUE
    MaxPasses = 1
INVARIANT DoubtShown
CHECK_DEADLOCK FALSE
