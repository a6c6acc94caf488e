SPECIFICATION SettledSpec
CONSTANTS
    NoDoc = NoDoc
    Docs = {d1, d2}
    LINES = 3
    AutoUser = TRUE
    MaxAbandoned = 1
    MaxStops = 0
INVARIANTS
    AckMeansReceived
CHECK_DEADLOCK FALSE
