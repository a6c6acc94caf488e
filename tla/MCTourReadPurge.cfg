SPECIFICATION Spec
CONSTANTS
    FirstFrees <- PlainImages
    RxCap = 2
    MaxFaults = 2
    MayStall = TRUE
    MaySplit = FALSE
PROPERTY PurgedAtStart
CHECK_DEADLOCK FALSE
