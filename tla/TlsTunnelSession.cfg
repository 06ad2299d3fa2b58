SPECIFICATION Spec
CONSTANTS
    maximum_frames_ = 2
    maximum_bytes_ = 3
    MaxInbound = 3
    MaxBatch = 2
    MaxFromTun = 2
    MaxFired = 2
CHECK_DEADLOCK FALSE
INVARIANTS
    WireInOrder
    CountedOnce
PROPERTIES
    SilentSessionEnds
