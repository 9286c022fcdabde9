SPECIFICATION Spec
CONSTANTS
    Half = 8
    MaxSend = 3
    Lengths <- OneOrTwo
    Kinds <- BothKinds
    IdSpace = 2
    MaxFrames = 2
    MaxRepeats = 2
INVARIANTS
    TypeOK
    WholeInOrder
    WholeUnordered
    DamageConfined
CHECK_DEADLOCK FALSE
