CONSTANTS
    Options <- LimitOrTime
    MeasureRTT = TRUE
    RttCap = 2
    MaxMessages = 2
    AgeCap = 3
SPECIFICATION FairSpec
INVARIANTS
    TypeOK
    MetricsNeverOvercount
    LimitReported
    TestTimeKeptAfterReset
PROPERTIES
    StopsWhenDue
    MeterSpec
