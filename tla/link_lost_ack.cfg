SPECIFICATION FairSpec
CONSTANTS
    Half = 4
    Kinds <- OrderedOnly
    MaxSend = 1
    MaxFail = 0
    MaxControl = 1
    Lossy = TRUE
    Duplicating = FALSE
PROPERTY EventuallyAcknowledged
