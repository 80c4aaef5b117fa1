SPECIFICATION FairSpec
CONSTANTS
    c1 = c1
    c2 = c2
    Callers = {c1, c2}
    MaxRequests = 3
    MaxVersions = 1
INVARIANT TypeOK
INVARIANT OneRequestAtATime
INVARIANT NobodyIsStranded
INVARIANT NegotiationsCleared
PROPERTY ImplementsShared
PROPERTY RequestsEnd
