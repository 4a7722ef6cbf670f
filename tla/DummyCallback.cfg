SPECIFICATION Spec
CONSTANTS
    Dev = {d1, d2}
    MaxSkb = 1
SYMMETRY DevSymmetry
INVARIANTS
    CallbackAlive
