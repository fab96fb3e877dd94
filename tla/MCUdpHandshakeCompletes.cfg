SPECIFICATION FairSpec
CONSTANTS
    Clients = {"c1", "c2"}
    MaxStarts = 1
    MaxRestarts = 1
PROPERTY HandshakeCompletes
CHECK_DEADLOCK FALSE
