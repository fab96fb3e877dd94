SPECIFICATION FairSpec
CONSTANTS
    NumEndpoints = 2
    MaxPackets = 3
    ConnectTimeout = 6
    ReadTimeout = 3
    HeartbeatPeriod = 1
INVARIANTS TypeOK OperationsHaveDeadlines PacketsNotLost
PROPERTIES ConnectsOverOpenSocket ConnectDecides LostConnectionNoticed StopEndsEverything
CHECK_DEADLOCK FALSE
