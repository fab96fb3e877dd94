SPECIFICATION Spec
CONSTANTS
    Threads = {t1, t2}
INVARIANTS
    TypeOK
    ReleasedOnce
    StreamFailsOnlyRaced
PROPERTIES
    CreationEnds
CHECK_DEADLOCK FALSE
