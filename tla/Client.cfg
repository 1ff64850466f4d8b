SPECIFICATION Spec
CONSTANTS
    Users = {u1, u2}
    Notifiers = {n1}
    Threads = {u1, u2, n1}
    function = function
    code = code
    Functions = {function}
    Lambdas = {lambda1}
    Ptr <- Pointer
    Addresses = {temporary}
    None = None
SYMMETRY Alike
CHECK_DEADLOCK FALSE
INVARIANTS
    CallsExactlyRegistered
    ClosesOwnDescriptorOnly
