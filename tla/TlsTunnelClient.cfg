SPECIFICATION TunnelSpec
CONSTANTS
    maximum_frames_ = 2
    maximum_bytes_ = 3
    MaxInbound = 3
    MaxBatch = 2
    MaxPosted = 2
CHECK_DEADLOCK FALSE
INVARIANTS
    WireInOrder
    DataNeedsAdapter
PROPERTIES
    StopCloses
