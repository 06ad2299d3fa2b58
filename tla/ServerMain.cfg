SPECIFICATION MainSpec
CONSTANTS
    maximum_sessions_ = 2
    Metrics = TRUE
    Signals <- AllSignals
    MaxSignals = 3
CHECK_DEADLOCK FALSE
INVARIANTS
    ServesNewSessions
PROPERTIES
    SignalsServed
    StopDrains
