SPECIFICATION Spec
CONSTANTS
    SegmentCount = 2
    w1 = w1
    w2 = w2
    Workers = {w1, w2}
    u1 = u1
    u2 = u2
    Uploaders = {u1, u2}
    TargetPeer = u1
    f1 = f1
    Folders = {f1}
    Unset = Unset
    ShortTails = TRUE
    DiskMayFail = FALSE
    MaxCrashes = 1
SYMMETRY WorkerSymmetry
INVARIANT ResumesWhereItLeftOff
CHECK_DEADLOCK FALSE
