SPECIFICATION FairSpec
CONSTANTS
    Threads = {t1, t2, t3, t4}
    NoThread = NoThread
INVARIANTS
    CountersExact
    OneWriter
    SlowReadersExcludeWriter
PROPERTIES
    WriterFindsLockEmpty
    SlowPathIsReadersWriterLock
    StuckOnlyBehindParkedWriter
