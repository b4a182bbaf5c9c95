SPECIFICATION FairSpec
CONSTANTS
    k1 = k1
    k2 = k2
    c1 = c1
    Keys = {k1, k2}
    Values = {1, 2}
    Marts <- ThreeMarts
    MaxAttempts = 5
    MaxRuns = 2
    MaxFaults = 1
    MaxDamage = 1
    LateWrites = TRUE
    ClockSteps = FALSE
    OperatorClears = FALSE
    InsertBatchSize = 2
    DeleteBatchSize = 1
    Keep = 2
    Clients = {}
CHECK_DEADLOCK FALSE
PROPERTIES
    ReportedVersionIsTestedMart
    TestedRunIsPublished
    PublishedRunIsCleaned
