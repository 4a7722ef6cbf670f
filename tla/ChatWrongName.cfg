SPECIFICATION Spec
CONSTANTS
    Client = {c1, c2, c3}
    MAX_CLIENTS = 3
    Cap = 2
    Talker = {}
    MaxMsg = 0
    QuitEarly = FALSE
    Sigint = "never"
    Nobody = Nobody
SYMMETRY ClientSymmetry
INVARIANTS
    NamesItsClient
