SPECIFICATION Spec
CONSTANTS
    NumEndpoints = 2
    MaxPackets = 2
    ConnectTimeout = 6
    ReadTimeout = 3
    HeartbeatPeriod = 1
INVARIANT HeartbeatActorAlive
CHECK_DEADLOCK FALSE
