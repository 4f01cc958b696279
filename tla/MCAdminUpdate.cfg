SPECIFICATION FairSpec
CONSTANTS
    Jobs = {a, b}
    Kinds = {"ordinary", "managed", "background"}
    Wakers = {"operator", "pressure"}
    Killable = {a}
    MaxUpdates = 2
    MaxFaults = 2
INVARIANTS
    StoppedIsOwned
    ReceiptTellsVersion
PROPERTIES
    QuiescentBuild
    MarkerEnds
CHECK_DEADLOCK FALSE
