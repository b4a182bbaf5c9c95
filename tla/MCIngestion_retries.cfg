SPECIFICATION FairSpec
CONSTANTS
    i1 = i1
    i2 = i2
    i3 = i3
    p = p
    q = q
    w1 = w1
    w2 = w2
    w3 = w3
    w4 = w4
    b1 = b1
    b2 = b2
    b3 = b3
    b4 = b4
    b5 = b5
    Ids = {i1, i2, i3}
    Payloads = {p, q}
    Raws = {w1, w2, w3, w4}
    Bundles = {b1, b2, b3, b4, b5}
    RawOf <- RawFilesIn
    AcceptedOf <- AcceptedRecords
    MaxRuns = 2
    MaxFaults = 2
    MaxClears = 0
    AtomicMerge = TRUE
    ChunkSize = 2
CHECK_DEADLOCK FALSE
INVARIANTS
    TypeOK
    OneRowPerIdentity
    ReplaysAreNotConflicts
    InsertsClaimedOnce
PROPERTIES
    ImplementsRevisions
    RunIsCovered
