SPECIFICATION Spec
CONSTANTS
    NumClasses = 2
    PoolSize = 2
    Networks = {n1, n2}
    Programs <- AllPrograms
    MaxInits = 8
INVARIANTS
    TypeOK
    OnePlacePerPacket
    TestsNeverFail
    ServiceIsSafe
PROPERTIES
    PacketsLeavePoolsByCreate
CHECK_DEADLOCK FALSE
