SPECIFICATION FairSpec
CONSTANTS
    Tracked = {a, b}
    MaxCrashes = 1
INVARIANTS
    HeldIsRemembered
PROPERTIES
    HoldEnds
