CONSTANTS
    N = 3
    Readers = {r1}
    MaxMessages = 5
    AtomicWrap = FALSE
SPECIFICATION Spec
INVARIANT ReceivedInOrder
CHECK_DEADLOCK FALSE
