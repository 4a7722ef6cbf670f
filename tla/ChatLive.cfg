SPECIFICATION FairSpec
CONSTANTS
    Client = {c1, c2}
    MAX_CLIENTS = 2
    Cap = 1
    Talker = {c1}
    MaxMsg = 1
    QuitEarly = FALSE
    Sigint = "unlocked"
    Nobody = Nobody
INVARIANTS
    WelcomedAreListed
    ServerSurvives
PROPERTIES
    EveryoneServed
    ShutdownCompletes
