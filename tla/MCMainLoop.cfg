SPECIFICATION Spec
CONSTANTS
    s1 = s1
    s2 = s2
    Sensors = {s1, s2}
    NoSensor = NoSensor
    SATCNT = 0
    DELETE_ATT = 0
    SYNCHROTIMEWAIT = 1
    ADAERRORS = 0
    BLOBSIZE = 2
    MaxEvents = 2
    MaxRows = 2
    MaxParses = 2
    MaxCrashes = 1
    Hazards <- Restarts
INVARIANTS TypeOK AdapterExclusive Custody
PROPERTY Relays
SYMMETRY SensorSymmetry
CHECK_DEADLOCK TRUE
