CONSTANTS
    Options <- TimeOnly
    MeasureRTT = FALSE
    RttCap = 0
    MaxMessages = 2
    AgeCap = 3
SPECIFICATION Spec
INVARIANTS
    TestTimeKept
