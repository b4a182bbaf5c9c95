SPECIFICATION FairSpec
CONSTANTS
    fact = fact
    Relations = {fact}
    Builds <- Checkpoints
    MaxRuns = 2
    MaxTries = 2
    MaxReruns = 1
    QuietPolls = 2
    MaxPolls = 5
    ArrivalPolls = 1
    CancelPolls = 1
    MaxOrphans = 1
CHECK_DEADLOCK FALSE
INVARIANTS
    SlotIsExclusive
    PublishedMartIsOwn
    DeadlineSparesPromptQueries
PROPERTIES
    MartFrozenWhileRead
    RunEnds
