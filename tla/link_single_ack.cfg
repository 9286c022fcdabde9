SPECIFICATION Spec
CONSTANTS
    Half = 4
    Kinds <- OrderedOnly
    MaxSend = 2
    MaxFail = 0
    MaxControl = 1
    Lossy = TRUE
    Duplicating = FALSE
INVARIANT KeptUntilArrived
