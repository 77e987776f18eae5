CONSTANTS
    s1 = s1
    chA = chA
    Channels <- A
    Lists <- SingleLists
    Modes = {"ssubscribe"}
    MeasureRTT = TRUE
    Payloads = {"stamped"}
    RttCap = 1
    AgeCap = 0
    Placement = "dense"
    Subscribers <- One
    Reconnect = FALSE
    Options <- Unlimited
    MaxPublished = 0
    MaxTicks = 0
SPECIFICATION FairSpec
CHECK_DEADLOCK FALSE
PROPERTIES
    InterruptCancels
