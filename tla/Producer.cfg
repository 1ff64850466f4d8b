SPECIFICATION Spec
CONSTANTS
    Consumers = {c1, c2}
    BlockSize = 2
    IndexSize = 2
    PoolSize = 1
    MaxBlocks = 3
    MaxItems = 7
    MaxBatch = 2
    Leeway = 16
    MaxOvercommit <- OnlyExplicitOnce
SYMMETRY Interchangeable
INVARIANTS HeadNeverPassesTail FindsItsElement EmptiedOnce DestructorExact
CHECK_DEADLOCK FALSE
