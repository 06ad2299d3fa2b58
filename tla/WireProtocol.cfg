SPECIFICATION WholeSpec
CONSTANTS
    kMaxPayloadSize = 1
    StreamLength = 6
    Setups <- SmallSetups
    Keys <- OtherKeys
    Readers <- Strangers
    Messages <- SomeMessages
    Values <- SomeValues
    MaxChanges = 1
CHECK_DEADLOCK FALSE
INVARIANTS
    DecodesStream
    AcceptedIsServed
    EndsAgree
    PacketsAgree
    RoutesAgree
    KeyIsPrivate
    CodecsAreExact
