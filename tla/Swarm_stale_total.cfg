SPECIFICATION FairSpec
CONSTANTS
    SegmentCount = 2
    w1 = w1
    w2 = w2
    Workers = {w1, w2}
    u1 = u1
    u2 = u2
    Uploaders = {u1, u2}
    TargetPeer = u1
    f1 = f1
    f2 = f2
    Folders = {f1}
    Unset = Unset
    ShortTails = FALSE
    DiskMayFail = FALSE
    MaxCrashes = 0
PROPERTY EventuallyFinished
CHECK_DEADLOCK FALSE
