SPECIFICATION FairSpec
CONSTANTS
    ReadWorkers = {}
    WriteWorkers = {w1, w2}
    Producers = {p1, p2}
    Nobody = Nobody
    BufferSize = 1
    PeerBytes = 0
    Lengths = {0, 3}
    MaxMessages = 2
    MaxBatch = 2
    SizeWidth = 4
    IndexRange = 4
CHECK_DEADLOCK FALSE
INVARIANTS
    NoMessageLost
    MessagesContiguous
    ProducerOrder
    DestructorWaits
PROPERTIES
    QueueDrains
    DestructorReturns
