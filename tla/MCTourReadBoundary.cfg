SPECIFICATION Spec
CONSTANTS
    FirstFrees <- BoundaryImage
    RxCap = 2
    MaxFaults = 0
    MayStall = FALSE
    MaySplit = FALSE
INVARIANT ReadsAllData
CHECK_DEADLOCK FALSE
