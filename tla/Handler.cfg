SPECIFICATION LoggingSpec
CONSTANTS
    Callers = {a, b}
    Sockets = {s1, s2}
    IdRange = 3
    None = None
    MaxLines = 3
    Writers = {w1}
    TaskCount = 2
SYMMETRY Symmetry
CHECK_DEADLOCK FALSE
INVARIANTS
    OwnedUntilDestroyed
    NoSocketOutlivesHandler
    LinesInOrder
PROPERTIES
    CreateReturnsLiveSocket
