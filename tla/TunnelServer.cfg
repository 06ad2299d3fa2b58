SPECIFICATION Spec
CONSTANTS
    alice = alice
    bob = bob
    s1 = s1
    s2 = s2
    NoIdentity = NoIdentity
    NoPeer = NoPeer
    Identities <- MCIdentities
    Peers <- TwoPeers
    FirstAddress = 2
    LastAddress = 2
    Ipv6Gateway = 0
    LeaseDuration = 1
    IdModulus = 3
    MaxDelay = 1
    MaxClock = 2
    MaxSessions = 2
    MaxPosted = 1
CHECK_DEADLOCK FALSE
INVARIANTS
    AssignedIsRouted
    NoLeakedLease
PROPERTIES
    ImplementsService
    ClosingIsForgotten
