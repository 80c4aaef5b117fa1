SPECIFICATION FairSpec
CONSTANTS
    a1 = a1
    a2 = a2
    a3 = a3
    Attempts = {a1}
    Want <- WantSegment
    None = None
    Shared = {tth}
    Public = FALSE
    MaxConnects = 1
PROPERTY SegmentsAreServed
CHECK_DEADLOCK FALSE
