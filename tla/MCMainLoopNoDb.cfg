SPECIFICATION Spec
CONSTANTS
    s1 = s1
    Sensors = {s1}
    NoSensor = NoSensor
    SATCNT = 0
    DELETE_ATT = 0
    SYNCHROTIMEWAIT = 1
    ADAERRORS = 0
    BLOBSIZE = 2
    MaxEvents = 2
    MaxRows = 2
    MaxParses = 4
    MaxCrashes = 0
    Hazards <- AdapterDown
PROPERTY DownloadStored
CHECK_DEADLOCK FALSE
