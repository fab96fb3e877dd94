SPECIFICATION FairSpec
CONSTANTS
    Clients = {"c1", "c2"}
    MaxStarts = 2
    MaxRestarts = 1
INVARIANT TypeOK
PROPERTIES EveryHandshakeAnswered LostAnswersRepeated
CHECK_DEADLOCK FALSE
