SPECIFICATION Spec
CONSTANTS
    Workers = {w1}
    Users = {u1}
    Owner = {o1}
    Acceptor = acceptor
    Channels = {c1, c2}
    Fds = {f1}
    None = None
SYMMETRY Symmetry
CHECK_DEADLOCK FALSE
INVARIANTS
    MapMatchesDescriptors
    ClosesOwnDescriptor
    NoLeakWhileRunning
    DisconnectedOnce
    AcceptThreadSafe
