SPECIFICATION FairSpec
CONSTANTS
    s1 = s1
    Sensors = {s1}
    NoSensor = NoSensor
    SATCNT = 1
    DELETE_ATT = 1
    SYNCHROTIMEWAIT = 1
    ADAERRORS = 0
    BLOBSIZE = 1
    MaxEvents = 1
    MaxRows = 1
    MaxParses = 4
    MaxCrashes = 0
    Hazards <- Obstacles
PROPERTIES AttemptsEnd BlinkingStarts JoinReturns
CHECK_DEADLOCK FALSE
