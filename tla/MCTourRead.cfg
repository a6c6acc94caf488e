SPECIFICATION FairSpec
CONSTANTS
    FirstFrees <- SmallImages
    RxCap = 3
    MaxFaults = 4
    MayStall = TRUE
    MaySplit = TRUE
INVARIANTS TypeOK PageIntegrity NoOverrun Accounting FinishedPrefix
PROPERTIES Transfers Returns
CHECK_DEADLOCK FALSE
