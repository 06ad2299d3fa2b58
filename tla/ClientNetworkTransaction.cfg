SPECIFICATION Spec
CONSTANTS
    route_cidrs <- Profile
    MaxActivations = 2
CHECK_DEADLOCK FALSE
INVARIANTS
    AllOrNothing
PROPERTIES
    UndoesItsOwn
