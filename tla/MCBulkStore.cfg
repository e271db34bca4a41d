CONSTANTS
    MaxLogs = 3
    MaxQueries = 2
    RecentCount = 2
    BulkSize = 2
    QueueLen = 3
    Threshold = 2
    ReleaseTicks = 1
    AutosaveTicks = 2
    Keys = {"rare", "common"}
    KeyOf <- MCKeyOf
SPECIFICATION Spec
INVARIANTS
    Recoverable
    CountExact
    NoCrash
PROPERTIES
    ClosedForGood
    LogStoreSpec
CHECK_DEADLOCK FALSE
CONSTRAINT UntilHit
