SPECIFICATION MCSpec
CONSTANTS
    Keys = {k1, k2}
    Gens = {g1}
    NoGen = none
    MaxIds = 2
    Jobs = {a, b}
INVARIANTS
    AdmittedIsKept
    Capacity
    OneJobPerWorkspace
SYMMETRY JobSymmetry
CHECK_DEADLOCK FALSE
