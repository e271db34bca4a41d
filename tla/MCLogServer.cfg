CONSTANTS
    Conns = {"sender", "both", "wrong", "asker"}
    Script <- MCScript
    ClientId <- MCClientId
    Senders = {"sender"}
    Impatient = {"asker"}
    Fds = {1, 2}
    RequestRoom = 2
    ResultRoom = 2
    MaxRead = 0
    ResultBlocks <- MCResultBlocks
SPECIFICATION FairSpec
INVARIANTS
    TypeOK
    MapsSound
    ExitsExplained
    AnswersWhole

    
CHECK_DEADLOCK FALSE
CONSTRAINT GoesOn
