SPECIFICATION FairSpec
CONSTANTS
    CHUNKS = 3
    DELETE_ATT = 2
    SYNCHROTIMEWAIT = 1
    TOUCHES = 3
    LONG = 3
    NUMBER = 2
    MaxLeft = 13
    MaxStale = 16
    MaxFaults = 1
    MayStall = FALSE
    MayUnplug = FALSE
PROPERTY SetTimeEnds
