SPECIFICATION HashSpec
CONSTANTS
    t1 = t1
    t2 = t2
    t3 = t3
    Ids = {t1, t2, t3}
    Hash <- Colliding
    InitialSize = 2
    MaxTables = 3
    MaxProducers = 2
    MaxExits = 1
    Empty = Empty
    Reusable = Reusable
INVARIANTS OneThreadPerProducer FindsItsProducer
