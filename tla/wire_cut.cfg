SPECIFICATION EitherSpec
CONSTANTS
    Items <- Accepted
    MaxCuts = 400
    DefaultPort = 25565
    Half = 4
    MaxNumber = 0
    Lag = 0
    Ahead = 0
INVARIANT CutIsAnError
CHECK_DEADLOCK FALSE
