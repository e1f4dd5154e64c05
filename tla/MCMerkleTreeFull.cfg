SPECIFICATION Spec
CONSTANTS
    Depth = 2
    Leaf = {l1, l2}
    EmptyLeaf = zero
    MaxLeaves = 6
INVARIANTS
    TopLayerIsSingle
CHECK_DEADLOCK FALSE
