CONSTANTS
    n1 = n1
    n2 = n2
    n3 = n3
    Nodes <- Pair
    Seed = n1
    Slots = {1, 2}
    Runs <- OneChannel
    Garbled = garbled
    MaxChanges = 0
SPECIFICATION Spec
CHECK_DEADLOCK FALSE
INVARIANTS
    DenseOnOneShard
