----------------------------- MODULE MerkleTree -----------------------------
(***************************************************************************)
(* The issuer's fixed-depth Merkle tree (internal/tree/tree.go) and the    *)
(* inclusion check of the circuit (MerkleInclusion in                      *)
(* circuits/kycpass.circom), which folds a path the issuer computed.       *)
(*                                                                         *)
(* The hash is a free constructor, the pair of its inputs: two hashes are  *)
(* equal only if their inputs are.  Leaf indices count from 0, as in the   *)
(* code; a layer is a sequence, so its node i is layer[i + 1].             *)
(***************************************************************************)
EXTENDS Naturals, Sequences

CONSTANTS
    Depth,          \* the depth of the tree (16 in consts.go)
    Leaf,           \* credential leaves
    EmptyLeaf,      \* the field element 0, which pads the tree
    MaxLeaves       \* bound on the leaves appended

ASSUME DepthAssumption == Depth \in Nat \ {0}
ASSUME LeafAssumption  == EmptyLeaf \notin Leaf

VARIABLE leaves     \* Tree.leaves

(* The nodes of a full subtree k levels above the leaves' level: 2 ^ k.    *)
width[k \in 0 .. Depth] == IF k = 0 THEN 1 ELSE 2 * width[k - 1]

Capacity == width[Depth]

Hash(left, right) == <<left, right>>

(* The ladder of empty subtrees that New precomputes. *)
zeros[k \in 0 .. Depth] ==
    IF k = 0 THEN EmptyLeaf ELSE Hash(zeros[k - 1], zeros[k - 1])

(* Faulty variants of nextLevel: one pads with the empty leaf at every     *)
(* level; the loop of the other stops before a last, odd node.             *)
NextLevelLeafZero(current, level) ==
    IF current = <<>> THEN <<zeros[level + 1]>>
    ELSE [i \in 1 .. (Len(current) + 1) \div 2 |->
             Hash(current[2 * i - 1],
                  IF 2 * i <= Len(current) THEN current[2 * i] ELSE zeros[0])]

NextLevelDropsOdd(current, level) ==
    IF Len(current) < 2 THEN <<zeros[level + 1]>>
    ELSE [i \in 1 .. Len(current) \div 2 |->
             Hash(current[2 * i - 1], current[2 * i])]

(* One level folded into the next; a missing right sibling is the level's  *)
(* empty subtree, and an empty level has one empty parent.                 *)
NextLevel(current, level) ==
    IF current = <<>> THEN <<zeros[level + 1]>>
    ELSE [i \in 1 .. (Len(current) + 1) \div 2 |->
             Hash(current[2 * i - 1],
                  IF 2 * i <= Len(current) THEN current[2 * i]
                                           ELSE zeros[level])]

Layers(ls) ==
    LET layer[k \in 0 .. Depth] ==
            IF k = 0 THEN ls ELSE NextLevel(layer[k - 1], k - 1)
    IN  layer

Root(ls) == Layers(ls)[Depth][1]

(* The index of the node above the leaf at index, level by level. *)
Ancestor(index) ==
    LET idx[level \in 0 .. Depth] ==
            IF level = 0 THEN index ELSE idx[level - 1] \div 2
    IN  idx

(* A faulty variant of Proof: it pads with the empty leaf at every level. *)
ProofLeafZero(ls, index) ==
    LET layer == Layers(ls)
        idx   == Ancestor(index)
    IN  [pathElements |->
            [level \in 0 .. Depth - 1 |->
                IF idx[level] % 2 = 1 THEN layer[level][idx[level]]
                ELSE IF idx[level] + 2 <= Len(layer[level])
                THEN layer[level][idx[level] + 2]
                ELSE EmptyLeaf],
         pathIndices |-> [level \in 0 .. Depth - 1 |-> idx[level] % 2],
         root |-> layer[Depth][1]]

(* The authentication path of the leaf at index < Len(ls): the sibling of  *)
(* each node on the way up, and whether that node is a right child.        *)
Proof(ls, index) ==
    LET layer == Layers(ls)
        idx   == Ancestor(index)
    IN  [pathElements |->
            [level \in 0 .. Depth - 1 |->
                IF idx[level] % 2 = 1 THEN layer[level][idx[level]]
                ELSE IF idx[level] + 2 <= Len(layer[level])
                THEN layer[level][idx[level] + 2]
                ELSE zeros[level]],
         pathIndices |-> [level \in 0 .. Depth - 1 |-> idx[level] % 2],
         root |-> layer[Depth][1]]

(* The hash of a node and its sibling, in the order the path bit says. *)
SwitchedHash(pathIndex, node, sibling) ==
    IF pathIndex = 0 THEN Hash(node, sibling) ELSE Hash(sibling, node)

(* The hashes the circuit computes from a leaf and a path, up to the root. *)
LevelHashes(leaf, pathElements, pathIndices) ==
    LET levelHashes[k \in 0 .. Depth] ==
            IF k = 0 THEN leaf
            ELSE SwitchedHash(pathIndices[k - 1], levelHashes[k - 1],
                              pathElements[k - 1])
    IN  levelHashes

MerkleInclusion(leaf, pathElements, pathIndices) ==
    LevelHashes(leaf, pathElements, pathIndices)[Depth]

-----------------------------------------------------------------------------
Init == leaves = <<>>

(* Append checks no capacity; MaxLeaves only bounds the model. *)
AppendLeaf(leaf) ==
    /\ Len(leaves) < MaxLeaves
    /\ leaves' = Append(leaves, leaf)

Next == \E leaf \in Leaf : AppendLeaf(leaf)

Spec == Init /\ [][Next]_leaves

-----------------------------------------------------------------------------
(* The reference: the nodes of the padded binary tree with Capacity        *)
(* leaves, by level and index (the mirror in test/circuit).                *)
PaddedLeaves(ls) ==
    [index \in 0 .. Capacity - 1 |->
        IF index < Len(ls) THEN ls[index + 1] ELSE EmptyLeaf]

Parents(nodes, level) ==
    [index \in 0 .. width[Depth - level] - 1 |->
        Hash(nodes[2 * index], nodes[2 * index + 1])]

Node(ls) ==
    LET node[level \in 0 .. Depth] ==
            IF level = 0 THEN PaddedLeaves(ls)
            ELSE Parents(node[level - 1], level)
    IN  node

(* The layer-by-layer construction, which hashes only populated subtrees,  *)
(* computes the root of the full padded tree.                              *)
RootIsReference == Root(leaves) = Node(leaves)[Depth][0]

WithinCapacity == Len(leaves) <= Capacity

(* Every leaf can be proved, up to the tree's capacity: the circuit folds  *)
(* the path that Proof returns for it to the root that Root returns.       *)
EveryLeafProvable ==
    WithinCapacity => \A index \in 0 .. Len(leaves) - 1 :
        LET p == Proof(leaves, index) IN
        /\ p.root = Root(leaves)
        /\ MerkleInclusion(leaves[index + 1], p.pathElements, p.pathIndices)
              = Root(leaves)

Parts(hashes) == UNION {{h[1], h[2]} : h \in hashes}

(* What can stand below a hash, by the length of the path: the values for  *)
(* which some path of k levels folds to it.                                *)
Below(hash) ==
    LET below[k \in 0 .. Depth] ==
            IF k = 0 THEN {hash} ELSE Parts(below[k - 1])
    IN  below

(* Only leaves can be proved: no path at all folds anything else, but the  *)
(* padding, to the root.  This is what the contracts assume of a root.     *)
OnlyLeavesProvable ==
    WithinCapacity => Below(Root(leaves))[Depth] \ {EmptyLeaf}
                        = {leaves[i] : i \in 1 .. Len(leaves)}

(* internal/tree/tree.go says of layers: "layers[depth], always length 1". *)
TopLayerIsSingle == Len(Layers(leaves)[Depth]) = 1

=============================================================================
