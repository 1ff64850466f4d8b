SPECIFICATION QFairSpec
CONSTANTS
    Producers = {p1, p2}
    Consumers = {c1, c2}
    MaxBatch = 2
    MaxItems = 2
    Quota = 1
INVARIANTS PermitsMatchElements
PROPERTIES IsCountingSemaphore EverythingIsDequeued
