\* A ServerSocket whose threads may take any time.
SPECIFICATION Spec
CONSTANTS
    w1 = w1
    w2 = w2
    Workers <- TwoWorkers
    MaxConns = 2
    MaxMessages = 1
    PrepareFirst = TRUE
    Prompt = FALSE
INVARIANTS NoConnectionLost

CHECK_DEADLOCK FALSE
