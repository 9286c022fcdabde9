SPECIFICATION FairSpec
CONSTANTS
    Receivers = {r}
    Senders = {}
    Streams <- ShortStream
    DeliveryCapacity = 2
    OutgoingCapacity = 2
    MaxBatch = 2
    MaxDatagrams = 1
    MaxFaults = 0
PROPERTY DeadSessionFails
