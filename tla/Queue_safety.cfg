SPECIFICATION Spec
CONSTANTS
    i1 = i1
    i2 = i2
    t1 = t1
    t2 = t2
    Items = {i1, i2}
    Threads = {t1, t2}
    Nobody = Nobody
    MaxSwarms = 2
    MaxRestarts = 1
    MaxFaults = 1
SYMMETRY QueueSymmetry
INVARIANT TypeOK
INVARIANT SavedMatches
INVARIANT NothingStalls
INVARIANT NoGhostDownload
INVARIANT SerialQueue
PROPERTY FinishedIsFinal
CHECK_DEADLOCK FALSE
