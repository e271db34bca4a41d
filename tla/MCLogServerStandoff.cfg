CONSTANTS
    Conns = {"sender", "both", "asker"}
    Script <- MCScript
    ClientId <- MCClientId
    Senders = {"sender"}
    Impatient = {"asker"}
    Fds = {1, 2, 3}
    RequestRoom = 2
    ResultRoom = 1
    MaxRead = 0
    ResultBlocks <- MCResultBlocks
SPECIFICATION Spec
INVARIANT NoStandoff
CHECK_DEADLOCK FALSE
