SPECIFICATION Spec
CONSTANTS
    Endpoints <- Servers
    MaxAdapters = 3
INVARIANTS
    PolicyIsWhole
    ConnectsProtected
    StatusIsTrue
    ButtonsSpareTunnel
    WindowDisablesAlone
PROPERTIES
    ProtectionStays
    StopReturns
