CONSTANTS
    n1 = n1
    n2 = n2
    n3 = n3
    Nodes <- Three
    Seed = n1
    Slots = {1, 2, 3}
    Runs <- EveryRun
    Garbled = garbled
    MaxChanges = 1
SPECIFICATION Spec
CHECK_DEADLOCK FALSE
INVARIANTS
    TypeOK
    NodesAligned
    DistributedEvenly
    TlsKept
    PanicsExplained
