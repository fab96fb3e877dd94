SPECIFICATION FairSpec
CONSTANTS
    Classes <- ShortAndLong
    MaxPackets = 3
    MaxCuts = 1
    PoolSize = 5
    Fills = {0}
    max_length = 48
    write_length = 120
INVARIANTS TypeOK NoneSkipped
PROPERTIES IsPacketStream FramesReadAsSent EveryFrameArrives
CHECK_DEADLOCK FALSE
