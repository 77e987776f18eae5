CONSTANTS
    s1 = s1
    chA = chA
    Channels <- A
    Lists <- SingleLists
    Modes = {"ssubscribe"}
    MeasureRTT = TRUE
    Payloads = {"stamped"}
    RttCap = 1
    AgeCap = 0
    Placement = "dense"
    Subscribers <- One
    Reconnect = FALSE
    Options <- MaybeLimited
    MaxPublished = 2
    MaxTicks = 0
SPECIFICATION FairSpec
CHECK_DEADLOCK FALSE
INVARIANTS
    TypeOK
    RttMatchesCount
PROPERTIES
    ImplementsUpdateCLI
    ImplementsSubscribers
    InterruptEnds
    BlockedSendersProgress
