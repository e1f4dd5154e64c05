SPECIFICATION Spec
CONSTANTS
    p1 = p1
    p2 = p2
    p3 = p3
    p4 = p4
    a = a
    b = b
    c = c
    Issuance = {p1, p2, p3}
    Leaf = {a, b}
    LeafOf <- MCLeafOf3
    NoFile = NoFile
    Empty = Empty
    Garbled = Garbled
    MaxRunning = 2
    MaxCrashes = 0
PROPERTIES
    AppendOnly
CHECK_DEADLOCK FALSE
