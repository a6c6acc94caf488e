SPECIFICATION Spec
CONSTANTS
    FirstFrees <- PlainImages
    RxCap = 2
    MaxFaults = 2
    MayStall = TRUE
    MaySplit = FALSE
INVARIANT ThreeRepairs
CHECK_DEADLOCK FALSE
