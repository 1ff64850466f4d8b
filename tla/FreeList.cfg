SPECIFICATION Spec
CONSTANTS
    Threads = {t1, t2, t3}
    Nodes = {n1, n2, n3}
    Nil = Nil
SYMMETRY Alike
INVARIANTS OneOwner ReferencesExact
