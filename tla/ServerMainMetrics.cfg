SPECIFICATION MainSpec
CONSTANTS
    maximum_sessions_ = 2
    Metrics = TRUE
    Signals <- OnlyTerm
    MaxSignals = 3
CHECK_DEADLOCK FALSE
PROPERTIES
    ShutdownCompletes
