SPECIFICATION FairSpec
CONSTANTS
    Receivers = {r}
    Senders = {s}
    Streams <- SomeStreams
    DeliveryCapacity = 2
    OutgoingCapacity = 1
    MaxBatch = 3
    MaxDatagrams = 2
    MaxFaults = 1
INVARIANT ReturnedInOrder
PROPERTIES
    EveryFrameHandled
    AcksFlushed
