CONSTANTS
    r1 = r1
    r2 = r2
    Routines <- Two
    Setups <- EverySetup
    MeasureRTT = TRUE
    MaxMessages = 3
    AgeCap = 3
SPECIFICATION FairSpec
CHECK_DEADLOCK FALSE
INVARIANTS
    TypeOK
    TestTimeKept
    ReportFollowsStop
    RttAccounted
PROPERTIES
    StopCompletes
    MeterSpec
