SPECIFICATION Spec
CONSTANTS
    alice = alice
    bob = bob
    NoIdentity = NoIdentity
    Identities <- MCIdentities
    FirstAddress = 2
    LastAddress = 3
    Ipv6Gateway = 0
    LeaseDuration = 2
    IdModulus = 4
    MaxDelay = 1
    MaxClock = 5
INVARIANTS
    MapsAreInverse
    HolderProtected
PROPERTIES
    GenerationFixed
    LiveEntryStays
