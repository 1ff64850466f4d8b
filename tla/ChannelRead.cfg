SPECIFICATION Spec
CONSTANTS
    ReadWorkers = {r1, r2}
    WriteWorkers = {}
    Producers = {}
    Nobody = Nobody
    BufferSize = 3
    PeerBytes = 5
    Lengths = {}
    MaxMessages = 0
    MaxBatch = 1
    SizeWidth = 4
    IndexRange = 2
SYMMETRY Symmetry
CHECK_DEADLOCK FALSE
INVARIANTS
    TypeOK
    InOrderUnlessWrapped
PROPERTIES
    EndLosesNothing
