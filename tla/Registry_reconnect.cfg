SPECIFICATION Spec
CONSTANTS
    n1 = n1
    c1 = c1
    c2 = c2
    Nodes = {n1}
    Conns = {c1, c2}
    None = None
    MaxUpdates = 0
SYMMETRY RegistrySymmetry
INVARIANT ConnectedIsRegistered
CHECK_DEADLOCK FALSE
