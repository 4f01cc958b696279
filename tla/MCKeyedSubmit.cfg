SPECIFICATION Spec
CONSTANTS
    Keys = {k1, k2}
    Ids = {i1, i2}
    Intents = {n1, n2}
    Clients = {c1, c2}
    NoId = NoId
    NoIntent = NoIntent
    NoKey = NoKey
    NoOne = NoOne
INVARIANTS
    ReceiptMatchesIntent
PROPERTIES
    KeepsPromise
SYMMETRY Symmetry
