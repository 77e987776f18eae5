CONSTANTS
    Lists <- TwiceTripleSingle
    Reconnect = TRUE
    MaxCalls = 4
    MaxFailures = 2
    MaxPublished = 2
SPECIFICATION FairSpec
CHECK_DEADLOCK FALSE
INVARIANTS
    TypeOK
    FirstChannelHeard
    QuietCoverage
    NeverOverstated
    OvercountBounded
PROPERTIES
    StopResolves
