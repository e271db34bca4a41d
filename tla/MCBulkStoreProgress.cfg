CONSTANTS
    MaxLogs = 3
    MaxQueries = 1
    RecentCount = 2
    BulkSize = 1
    QueueLen = 3
    Threshold = 2
    ReleaseTicks = 1
    AutosaveTicks = 2
    Keys = {"rare", "common"}
    KeyOf <- MCKeyOf
SPECIFICATION FairSpec
PROPERTIES
    Durable
    SlotComesFree
    HeapGivenUp
CHECK_DEADLOCK FALSE
CONSTRAINT UntilHit
