CONSTANTS
    MaxLogs = 3
    MaxQueries = 1
    RecentCount = 2
    BulkSize = 2
    QueueLen = 3
    Threshold = 2
    ReleaseTicks = 1
    AutosaveTicks = 2
    Keys = {"rare", "common"}
    KeyOf <- MCKeyOf
SPECIFICATION Spec
INVARIANTS
    TypeOK
    SlotOwned
    PassSparesOpenBulks
    EvictionSparesRing
    EvictionArmed
CHECK_DEADLOCK FALSE
