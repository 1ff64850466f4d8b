SPECIFICATION Spec
CONSTANTS
    Workers = {w1}
    Users = {}
    Owner = {}
    Acceptor = acceptor
    Channels = {c1}
    Fds = {f1}
    None = None
SYMMETRY Symmetry
CHECK_DEADLOCK FALSE
INVARIANTS
    WorkersSeeLiveChannels
