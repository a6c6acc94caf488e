SPECIFICATION Spec
CONSTANTS
    FirstFrees <- PlainImages
    RxCap = 2
    MaxFaults = 2
    MayStall = FALSE
    MaySplit = FALSE
INVARIANT ReadsAllData
CHECK_DEADLOCK FALSE
