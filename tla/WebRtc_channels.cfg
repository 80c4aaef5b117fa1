SPECIFICATION Spec
CONSTANTS
    p1 = p1
    p2 = p2
    Peers = {p1, p2}
    MaxCalls = 3
    MaxSends = 2
INVARIANT TypeOK
INVARIANT NothingVanishes
PROPERTY ChannelsFollowTheLink
CHECK_DEADLOCK FALSE
