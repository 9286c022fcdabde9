SPECIFICATION EitherSpec
CONSTANTS
    Items <- Samples
    MaxCuts = 400
    DefaultPort = 25565
    Half = 4
    MaxNumber = 17
    Lag = 3
    Ahead = 2
INVARIANTS
    TypeOK
    NewOnceFromFirstOn
    NackNamesTheGaps
    FramesReadBack
    BatchesReadBack
    OfflineReadBack
    JavaReadBack
    NeverMisread
CHECK_DEADLOCK FALSE
