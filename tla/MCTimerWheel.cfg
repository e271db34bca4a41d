CONSTANTS
    Members = {"a"}
    N = 3
    Times = {2, 7}
    Ids = {1, 2}
SPECIFICATION Spec
INVARIANTS
    TypeOK
    WheelsSound
    Findable
    OnTime
\* The program's behaviour is undefined once a unit is "shared".
CHECK_DEADLOCK FALSE
