\* A ServerSocket whose threads are prompt.
SPECIFICATION FairSpec
CONSTANTS
    w1 = w1
    w2 = w2
    Workers <- TwoWorkers
    MaxConns = 2
    MaxMessages = 2
    PrepareFirst = TRUE
    Prompt = TRUE
INVARIANTS TypeOK NoConnectionLost OneReadPerConnection ConnectionsOutliveReads ServerNotUsedAfterDelete
PROPERTIES ConnectionsAreRead ClosedConnectionsReleased DestructorReturns
CHECK_DEADLOCK FALSE
