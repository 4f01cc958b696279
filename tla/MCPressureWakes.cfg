SPECIFICATION Spec
CONSTANTS
    Jobs = {a}
    Kinds = {"ordinary"}
    Wakers = {"pressure"}
    Killable = {}
    MaxUpdates = 1
    MaxFaults = 0
INVARIANTS
    RebuildIsAlone
CHECK_DEADLOCK FALSE
