SPECIFICATION FairSpec
CONSTANTS
    Half = 4
    Kinds <- SomeKinds
    MaxSend = 3
    MaxFail = 1
    MaxControl = 2
    Lossy = TRUE
    Duplicating = TRUE
INVARIANTS
    TypeOK
    OrderedPrefix
    AcksNameArrivals
PROPERTIES
    ImplementsChannel
    SpansForgetNothing
    OrderedEventuallyReleased
