SPECIFICATION Spec
CONSTANTS
    k1 = k1
    k2 = k2
    c1 = c1
    Keys = {k1, k2}
    Values = {1, 2}
    Marts <- TwoMarts
    MaxAttempts = 3
    MaxRuns = 2
    MaxFaults = 1
    MaxDamage = 0
    LateWrites = FALSE
    ClockSteps = TRUE
    OperatorClears = TRUE
    InsertBatchSize = 2
    DeleteBatchSize = 1
    Keep = 2
    Clients = {c1}
CHECK_DEADLOCK FALSE
INVARIANTS
    ReadyComplete
    IncrementalLoadIsExact
    AuditReconciles
    ExactRetryReuses
    NeverPartial
    NewestVersionsKept
    OnlyOvertakenVersionsVanish
PROPERTIES
    CleanupLeavesOnlyRetained
    ImplementsVersions
