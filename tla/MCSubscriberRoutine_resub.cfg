CONSTANTS
    s1 = s1
    s2 = s2
    chA = chA
    chB = chB
    Subscribers <- One
    Channels <- AB
    Lists <- PairLists
    Modes = {"subscribe", "ssubscribe"}
    Reconnect = TRUE
    MeasureRTT = TRUE
    Payloads = {"stamped"}
    RttCap = 1
    MaxPublished = 1
    MaxTicks = 1
SPECIFICATION Spec
CHECK_DEADLOCK FALSE
INVARIANTS
    ReconnectRestores
