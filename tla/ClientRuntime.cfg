SPECIFICATION Spec
CONSTANTS
    MaxConnections = 2
    MaxStops = 2
CHECK_DEADLOCK FALSE
INVARIANTS
    ReaderHasSession
    DeliversToOwnNetwork
    EndsClean
PROPERTIES
    StopEnds
