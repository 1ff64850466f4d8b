SPECIFICATION FairSpec
CONSTANTS
    Workers = {w1, w2}
    Users = {}
    Owner = {o1}
    Acceptor = acceptor
    Channels = {c1}
    Fds = {f1}
    None = None
CHECK_DEADLOCK FALSE
PROPERTIES
    InactiveRemovedUnlessParked
    DestroyedUnlessParked
    
