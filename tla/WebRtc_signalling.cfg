SPECIFICATION Spec
CONSTANTS
    p1 = p1
    p2 = p2
    Peers = {p1, p2}
    MaxCalls = 3
INVARIANT TypeOK
INVARIANT QuietIsStable
INVARIANT OneSidedAgrees
INVARIANT OneSidedKeepsCandidates
PROPERTY LoneCallConnects
CHECK_DEADLOCK FALSE
