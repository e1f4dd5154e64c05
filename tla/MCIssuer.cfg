SPECIFICATION Spec
CONSTANTS
    p1 = p1
    p2 = p2
    p3 = p3
    p4 = p4
    a = a
    b = b
    c = c
    Issuance = {p1, p2, p3, p4}
    Leaf = {a, b, c}
    LeafOf <- MCLeafOf
    NoFile = NoFile
    Empty = Empty
    Garbled = Garbled
    MaxRunning = 3
    MaxCrashes = 1
INVARIANTS
    TypeOK
    ReceiptsStayTrue
    RootsOfOneTree
    TornOnlyByCrash
    LostOnlyByOverlap
    StrandedOnlyByCrash
PROPERTIES
    UnusableForever
CHECK_DEADLOCK FALSE
