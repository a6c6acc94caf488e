SPECIFICATION FairSpec
CONSTANTS
    Docs = {d1, d2}
    NoDoc = NoDoc
    LINES = 3
    AutoUser = TRUE
    MaxAbandoned = 2
    MaxStops = 1
INVARIANTS
    TypeOK
    Backlog
    WholeDocuments
    InStep
PROPERTIES
    DeadSimpleRestarted
    Serves
CHECK_DEADLOCK FALSE
