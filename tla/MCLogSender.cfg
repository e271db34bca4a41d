CONSTANTS
    Programs = {"log_sender", "short_sender"}
    MaxMessages <- MCMaxMessages
    Overlong = {2}
    QueueRoom = 2
    Fds = {1, 2}
    WireRoom = 5
    AckRoom = 1
    MaxCrashes = 1
SPECIFICATION FairSpec
INVARIANTS
    TypeOK
    StoredAsSent
    LossesExplained
PROPERTY Drained
CHECK_DEADLOCK FALSE
