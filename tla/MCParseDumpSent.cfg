SPECIFICATION Spec
CONSTANTS
    Recordings <- Short
    Losses <- None
    DbOpen = TRUE
    MaxPasses = 1
INVARIANT SentMeansAll
CHECK_DEADLOCK FALSE
