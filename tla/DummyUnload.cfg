SPECIFICATION FairSpec
CONSTANTS
    Dev = {d1, d2}
    MaxSkb = 3
INVARIANTS
    NothingLeftBehind
    FramesConserved
    OneStraggler
    DrainedRemovalSafe
PROPERTIES
    RequestsAnswered
    UnloadsFinish
    ImplementsFifo
