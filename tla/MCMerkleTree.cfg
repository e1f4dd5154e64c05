SPECIFICATION Spec
CONSTANTS
    Depth = 3
    Leaf = {l1, l2, l3}
    EmptyLeaf = zero
    MaxLeaves = 8
INVARIANTS
    RootIsReference
    EveryLeafProvable
    OnlyLeavesProvable
CHECK_DEADLOCK FALSE
