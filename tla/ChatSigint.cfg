SPECIFICATION FairSpec
CONSTANTS
    Client = {c1, c2}
    MAX_CLIENTS = 2
    Cap = 2
    Talker = {}
    MaxMsg = 0
    QuitEarly = FALSE
    Sigint = "any"
    Nobody = Nobody
PROPERTIES
    ShutdownCompletes
CHECK_DEADLOCK FALSE
