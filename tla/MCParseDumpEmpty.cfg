SPECIFICATION Spec
CONSTANTS
    Recordings <- Short
    Losses <- None
    DbOpen = TRUE
    MaxPasses = 1
INVARIANT ListClosed
CHECK_DEADLOCK FALSE
