SPECIFICATION FairSpec
CONSTANTS
    SegmentCount = 2
    w1 = w1
    w2 = w2
    Workers = {w1, w2}
    u1 = u1
    Uploaders = {u1}
    TargetPeer = u1
    f1 = f1
    f2 = f2
    Folders = {f1, f2}
    Unset = Unset
    ShortTails = TRUE
    DiskMayFail = TRUE
    MaxCrashes = 1
INVARIANT TypeOK
INVARIANT SegmentsExclusive
INVARIANT ClaimsReturned
INVARIANT ResumeLosesLittle
INVARIANT FinishedLosesLittle
PROPERTY ImplementsDurable
PROPERTY EverySegmentArrives
CHECK_DEADLOCK FALSE
