SPECIFICATION Spec
CONSTANTS
    n1 = n1
    n2 = n2
    c1 = c1
    c2 = c2
    c3 = c3
    Nodes = {n1, n2}
    Conns = {c1, c2, c3}
    None = None
    MaxUpdates = 1
SYMMETRY RegistrySymmetry
INVARIANT TypeOK
INVARIANT OneSeesTheOther
INVARIANT ListedOnce
INVARIANT NoDeadEntry
CHECK_DEADLOCK FALSE
