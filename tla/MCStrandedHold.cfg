SPECIFICATION FairSpec
CONSTANTS
    Tracked = {a}
    MaxCrashes = 1
PROPERTIES
    EveryHoldEnds
