CONSTANTS
    N = 3
    Readers = {r1, r2}
    MaxMessages = 5
    AtomicWrap = FALSE
SPECIFICATION FairSpec
INVARIANTS
    TypeOK
    NoTornRead
PROPERTIES
    
    WriterGetsThrough
    FifoUntilMisled
CHECK_DEADLOCK FALSE
