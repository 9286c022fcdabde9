SPECIFICATION Spec
CONSTANTS
    Receivers = {r1, r2}
    Senders = {s}
    Streams <- FewFrames
    DeliveryCapacity = 1
    OutgoingCapacity = 1
    MaxBatch = 2
    MaxDatagrams = 2
    MaxFaults = 1
SYMMETRY TaskSymmetry
INVARIANTS
    TypeOK
    OnlineConfirmed
    ReleasedOnce
PROPERTY AcksKept
