SPECIFICATION MCSpec
CONSTANTS
    Recordings <- Triples
    Losses <- UpToASeven
    DbOpen = TRUE
    MaxPasses = 2
INVARIANTS TypeOK Decoded OnlyLastSpoiled RowsFollowDocument
PROPERTY Returns
CHECK_DEADLOCK FALSE
