CONSTANTS
    s1 = s1
    s2 = s2
    chA = chA
    chB = chB
    Subscribers <- Two
    Channels <- AB
    Lists <- MixedLists
    Modes = {"subscribe", "ssubscribe"}
    Reconnect = TRUE
    MeasureRTT = TRUE
    Payloads = {"stamped", "plain"}
    RttCap = 1
    MaxPublished = 1
    MaxTicks = 2
SPECIFICATION FairSpec
CHECK_DEADLOCK FALSE
INVARIANTS
    TypeOK
    EachCopyOnce
    SubscribedSettles
    SingleChannelKept
PROPERTIES
    InboxDrains
    PendingTickTaken
