SPECIFICATION Spec
CONSTANTS
    Candidates <- ThreeCandidates
    MinMtu = 2
    MaxRetries = 2
    Timeout = 12
    Floor = 1
    AddressLists <- Resolutions
    PathMtus = {3, 4}
    MaxFaults = 1
INVARIANTS
    TypeOK
    NegotiatedByOneServer
    UsableMtu
    SmoothRunsConnect
