SPECIFICATION Spec
CONSTANTS
    Client = {c1, c2, c3}
    MAX_CLIENTS = 2
    Cap = 1
    Talker = {}
    MaxMsg = 0
    QuitEarly = TRUE
    Sigint = "unlocked"
    Nobody = Nobody
SYMMETRY ClientSymmetry
INVARIANTS
    TableConsistent
    SocketsOwned
