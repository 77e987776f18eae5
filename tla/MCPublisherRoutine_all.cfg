CONSTANTS
    p1 = p1
    p2 = p2
    p3 = p3
    Publishers <- Three
    ChannelCounts = {0, 1, 2}
    Rps = 2
    RpsBurst = 1
    MaxMessages = 1
SPECIFICATION FairSpec
INVARIANTS
    TypeOK
    RateKept
    DelayBounded
PROPERTIES
    RoundsKeepComing
