SPECIFICATION DeviceSpec
CONSTANTS
    maximum_queued_packets_ = 2
    maximum_queued_bytes_ = 3
    kMaximumPacketSize = 2
    MaxPackets = 3
    MaxReads = 2
CHECK_DEADLOCK FALSE
INVARIANTS
    PacketsInOrder
    FailureReportedOnce
PROPERTIES
    StopReleases
