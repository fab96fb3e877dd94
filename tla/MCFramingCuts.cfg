SPECIFICATION Spec
CONSTANTS
    Classes <- ShortAndLong
    MaxPackets = 2
    MaxCuts = 1
    PoolSize = 5
    Fills = {0, 205}
    max_length = 48
    write_length = 120
INVARIANT ReceivedAsSent
CHECK_DEADLOCK FALSE
