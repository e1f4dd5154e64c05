-------------------------- MODULE MerkleTreeProofs --------------------------
(***************************************************************************)
(* Proofs about the issuer's tree, for every depth, every set of leaves    *)
(* and every sequence of them.  The layers, the ladder of empty subtrees,  *)
(* the paths and the reference are recursive functions of the level, so    *)
(* every proof is an induction over the levels.                            *)
(***************************************************************************)
EXTENDS MerkleTree, WellFoundedInduction, TLAPS

-----------------------------------------------------------------------------
(* Induction over the levels. *)

(* What holds of the leaves' level, and of the next level whenever it      *)
(* holds of one, holds of every level: the order of the naturals is well   *)
(* founded, so there is no first level without it.                         *)
LEMMA LevelInduction ==
    ASSUME NEW P, 0 \in P,
           \A k \in 0 .. Depth - 1 : k \in P => k + 1 \in P
    PROVE  \A k \in 0 .. Depth : k \in P
<1>. SUFFICES ASSUME NEW m \in 0 .. Depth, m \notin P PROVE FALSE
  OBVIOUS
<1>. DEFINE Missing == {k \in 0 .. Depth : k \notin P}
<1>1. Missing \subseteq Nat /\ Missing # {}
  BY DepthAssumption
<1>2. PICK first \in Missing :
          \A k \in Missing : <<k, first>> \notin OpToRel(<, Nat)
  <2>. HIDE DEF Missing
  <2>1. QED
    BY <1>1, NatLessThanWellFounded, WFMin
<1>3. \A k \in Missing : ~ (k < first)
  <2>. HIDE DEF Missing
  <2>1. QED
    BY <1>1, <1>2 DEF OpToRel
<1>4. /\ first \in 0 .. Depth /\ first # 0
      /\ first - 1 \in 0 .. Depth - 1
      /\ first - 1 \in P
  BY <1>3, DepthAssumption
<1>5. QED
  BY <1>3, <1>4

(* The level below one that is not the lowest.                             *)
LEMMA LevelBelow ==
    \A n \in Nat : \A k \in 0 .. n + 1 : k = 0 \/ k - 1 \in 0 .. n
OBVIOUS

(* The width of a subtree doubles with every level.                        *)
LEMMA WidthUnfolds ==
    width = [k \in 0 .. Depth |->
        IF k = 0 THEN 1
        ELSE 2 * width[k - 1]]
<1>. DEFINE Def(g, n) ==
             g = [k \in 0 .. n |->
                   IF k = 0 THEN 1
                   ELSE 2 * g[k - 1]]
            P == {n \in 0 .. Depth : \E g : Def(g, n)}
<1>1. \E g : Def(g, 0)
  <2>1. Def([k \in {0} |-> 1], 0)
    OBVIOUS
  <2>2. QED
    BY <2>1
<1>2. ASSUME NEW n \in 0 .. Depth - 1, \E g : Def(g, n)
      PROVE  \E g : Def(g, n + 1)
  <2>1. PICK g : Def(g, n)
    BY <1>2
  <2>2. Def([k \in 0 .. n + 1 |->
                  IF k = 0 THEN 1
                  ELSE 2 * g[k - 1]], n + 1)
    BY <2>1, LevelBelow
  <2>3. QED
    BY <2>2
<1>. HIDE DEF Def
<1>3. 0 \in P /\ \A n \in 0 .. Depth - 1 : n \in P => n + 1 \in P
  BY <1>1, <1>2, DepthAssumption
<1>4. Depth \in P
  <2>. HIDE DEF P
  <2>1. QED
    BY <1>3, LevelInduction, DepthAssumption
<1>5. QED
  BY <1>4 DEF width, Def

(* The ladder of empty subtrees: each is the hash of two of the one below. *)
LEMMA ZerosUnfold ==
    zeros = [k \in 0 .. Depth |->
        IF k = 0 THEN EmptyLeaf
        ELSE Hash(zeros[k - 1], zeros[k - 1])]
<1>. DEFINE Def(g, n) ==
             g = [k \in 0 .. n |->
                   IF k = 0 THEN EmptyLeaf
                   ELSE Hash(g[k - 1], g[k - 1])]
            P == {n \in 0 .. Depth : \E g : Def(g, n)}
<1>1. \E g : Def(g, 0)
  <2>1. Def([k \in {0} |-> EmptyLeaf], 0)
    OBVIOUS
  <2>2. QED
    BY <2>1
<1>2. ASSUME NEW n \in 0 .. Depth - 1, \E g : Def(g, n)
      PROVE  \E g : Def(g, n + 1)
  <2>1. PICK g : Def(g, n)
    BY <1>2
  <2>2. Def([k \in 0 .. n + 1 |->
                  IF k = 0 THEN EmptyLeaf
                  ELSE Hash(g[k - 1], g[k - 1])], n + 1)
    BY <2>1, LevelBelow
  <2>3. QED
    BY <2>2
<1>. HIDE DEF Def
<1>3. 0 \in P /\ \A n \in 0 .. Depth - 1 : n \in P => n + 1 \in P
  BY <1>1, <1>2, DepthAssumption
<1>4. Depth \in P
  <2>. HIDE DEF P
  <2>1. QED
    BY <1>3, LevelInduction, DepthAssumption
<1>5. QED
  BY <1>4 DEF zeros, Def

(* The layers: each is the fold of the one below.                          *)
LEMMA LayersUnfold ==
    ASSUME NEW ls
    PROVE  Layers(ls) = [k \in 0 .. Depth |->
               IF k = 0 THEN ls
               ELSE NextLevel(Layers(ls)[k - 1], k - 1)]
<1>. DEFINE Def(g, n) ==
             g = [k \in 0 .. n |->
                   IF k = 0 THEN ls
                   ELSE NextLevel(g[k - 1], k - 1)]
            P == {n \in 0 .. Depth : \E g : Def(g, n)}
<1>1. \E g : Def(g, 0)
  <2>1. Def([k \in {0} |-> ls], 0)
    OBVIOUS
  <2>2. QED
    BY <2>1
<1>2. ASSUME NEW n \in 0 .. Depth - 1, \E g : Def(g, n)
      PROVE  \E g : Def(g, n + 1)
  <2>1. PICK g : Def(g, n)
    BY <1>2
  <2>2. Def([k \in 0 .. n + 1 |->
                  IF k = 0 THEN ls
                  ELSE NextLevel(g[k - 1], k - 1)], n + 1)
    BY <2>1, LevelBelow
  <2>3. QED
    BY <2>2
<1>. HIDE DEF Def
<1>3. 0 \in P /\ \A n \in 0 .. Depth - 1 : n \in P => n + 1 \in P
  BY <1>1, <1>2, DepthAssumption
<1>4. Depth \in P
  <2>. HIDE DEF P
  <2>1. QED
    BY <1>3, LevelInduction, DepthAssumption
<1>5. QED
  BY <1>4 DEF Layers, Def

(* The ancestors of a leaf: each has half the index of the one below.      *)
LEMMA AncestorUnfolds ==
    ASSUME NEW index
    PROVE  Ancestor(index) = [k \in 0 .. Depth |->
               IF k = 0 THEN index
               ELSE Ancestor(index)[k - 1] \div 2]
<1>. DEFINE Def(g, n) ==
             g = [k \in 0 .. n |->
                   IF k = 0 THEN index
                   ELSE g[k - 1] \div 2]
            P == {n \in 0 .. Depth : \E g : Def(g, n)}
<1>1. \E g : Def(g, 0)
  <2>1. Def([k \in {0} |-> index], 0)
    OBVIOUS
  <2>2. QED
    BY <2>1
<1>2. ASSUME NEW n \in 0 .. Depth - 1, \E g : Def(g, n)
      PROVE  \E g : Def(g, n + 1)
  <2>1. PICK g : Def(g, n)
    BY <1>2
  <2>2. Def([k \in 0 .. n + 1 |->
                  IF k = 0 THEN index
                  ELSE g[k - 1] \div 2], n + 1)
    BY <2>1, LevelBelow
  <2>3. QED
    BY <2>2
<1>. HIDE DEF Def
<1>3. 0 \in P /\ \A n \in 0 .. Depth - 1 : n \in P => n + 1 \in P
  BY <1>1, <1>2, DepthAssumption
<1>4. Depth \in P
  <2>. HIDE DEF P
  <2>1. QED
    BY <1>3, LevelInduction, DepthAssumption
<1>5. QED
  BY <1>4 DEF Ancestor, Def

(* The hashes up a path: each is the hash of the one below and a sibling.  *)
LEMMA HashesUnfold ==
    ASSUME NEW leaf, NEW elements, NEW bits
    PROVE  LevelHashes(leaf, elements, bits) = [k \in 0 .. Depth |->
               IF k = 0 THEN leaf
               ELSE SwitchedHash(bits[k - 1],
                                LevelHashes(leaf, elements, bits)[k - 1],
                                elements[k - 1])]
<1>. DEFINE Def(g, n) ==
             g = [k \in 0 .. n |->
                   IF k = 0 THEN leaf
                   ELSE SwitchedHash(bits[k - 1], g[k - 1], elements[k - 1])]
            P == {n \in 0 .. Depth : \E g : Def(g, n)}
<1>1. \E g : Def(g, 0)
  <2>1. Def([k \in {0} |-> leaf], 0)
    OBVIOUS
  <2>2. QED
    BY <2>1
<1>2. ASSUME NEW n \in 0 .. Depth - 1, \E g : Def(g, n)
      PROVE  \E g : Def(g, n + 1)
  <2>1. PICK g : Def(g, n)
    BY <1>2
  <2>2. Def([k \in 0 .. n + 1 |->
                  IF k = 0 THEN leaf
                  ELSE SwitchedHash(bits[k - 1], g[k - 1],
                                     elements[k - 1])], n + 1)
    BY <2>1, LevelBelow
  <2>3. QED
    BY <2>2
<1>. HIDE DEF Def
<1>3. 0 \in P /\ \A n \in 0 .. Depth - 1 : n \in P => n + 1 \in P
  BY <1>1, <1>2, DepthAssumption
<1>4. Depth \in P
  <2>. HIDE DEF P
  <2>1. QED
    BY <1>3, LevelInduction, DepthAssumption
<1>5. QED
  BY <1>4 DEF LevelHashes, Def

(* The reference: each level has the parents of the nodes below.           *)
LEMMA NodeUnfolds ==
    ASSUME NEW ls
    PROVE  Node(ls) = [k \in 0 .. Depth |->
               IF k = 0 THEN PaddedLeaves(ls)
               ELSE Parents(Node(ls)[k - 1], k)]
<1>. DEFINE Def(g, n) ==
             g = [k \in 0 .. n |->
                   IF k = 0 THEN PaddedLeaves(ls)
                   ELSE Parents(g[k - 1], k)]
            P == {n \in 0 .. Depth : \E g : Def(g, n)}
<1>1. \E g : Def(g, 0)
  <2>1. Def([k \in {0} |-> PaddedLeaves(ls)], 0)
    OBVIOUS
  <2>2. QED
    BY <2>1
<1>2. ASSUME NEW n \in 0 .. Depth - 1, \E g : Def(g, n)
      PROVE  \E g : Def(g, n + 1)
  <2>1. PICK g : Def(g, n)
    BY <1>2
  <2>2. Def([k \in 0 .. n + 1 |->
                  IF k = 0 THEN PaddedLeaves(ls)
                  ELSE Parents(g[k - 1], k)], n + 1)
    BY <2>1, LevelBelow
  <2>3. QED
    BY <2>2
<1>. HIDE DEF Def
<1>3. 0 \in P /\ \A n \in 0 .. Depth - 1 : n \in P => n + 1 \in P
  BY <1>1, <1>2, DepthAssumption
<1>4. Depth \in P
  <2>. HIDE DEF P
  <2>1. QED
    BY <1>3, LevelInduction, DepthAssumption
<1>5. QED
  BY <1>4 DEF Node, Def

(* What can stand below a hash: the parts of the pairs one level up.       *)
LEMMA BelowUnfolds ==
    ASSUME NEW hash
    PROVE  Below(hash) = [k \in 0 .. Depth |->
               IF k = 0 THEN {hash}
               ELSE Parts(Below(hash)[k - 1])]
<1>. DEFINE start == {hash}
            Def(g, n) ==
             g = [k \in 0 .. n |->
                   IF k = 0 THEN start
                   ELSE Parts(g[k - 1])]
            P == {n \in 0 .. Depth : \E g : Def(g, n)}
<1>. HIDE DEF start
<1>1. \E g : Def(g, 0)
  <2>1. Def([k \in {0} |-> start], 0)
    OBVIOUS
  <2>2. QED
    BY <2>1
<1>2. ASSUME NEW n \in 0 .. Depth - 1, \E g : Def(g, n)
      PROVE  \E g : Def(g, n + 1)
  <2>1. PICK g : Def(g, n)
    BY <1>2
  <2>2. Def([k \in 0 .. n + 1 |->
                  IF k = 0 THEN start
                  ELSE Parts(g[k - 1])], n + 1)
    BY <2>1, LevelBelow
  <2>3. QED
    BY <2>2
<1>. HIDE DEF Def
<1>3. 0 \in P /\ \A n \in 0 .. Depth - 1 : n \in P => n + 1 \in P
  BY <1>1, <1>2, DepthAssumption
<1>4. Depth \in P
  <2>. HIDE DEF P
  <2>1. QED
    BY <1>3, LevelInduction, DepthAssumption
<1>5. QED
  BY <1>4 DEF Below, Def, start

-----------------------------------------------------------------------------
(* The layers against the padded tree. *)

(* Widths are positive, and double from one level to the next.             *)
LEMMA WidthFacts ==
    /\ width[0] = 1
    /\ \A k \in 0 .. Depth : width[k] \in Nat /\ width[k] > 0
    /\ \A k \in 0 .. Depth - 1 : width[k + 1] = 2 * width[k]
<1>. DEFINE P == {k \in 0 .. Depth : width[k] \in Nat /\ width[k] > 0}
<1>1. width[0] = 1
  BY WidthUnfolds, DepthAssumption
<1>2. ASSUME NEW k \in 0 .. Depth - 1 PROVE width[k + 1] = 2 * width[k]
  <2>1. k + 1 \in 0 .. Depth /\ k + 1 # 0 /\ (k + 1) - 1 = k
    BY DepthAssumption
  <2>2. QED
    BY <2>1, WidthUnfolds
<1>3. 0 \in P /\ \A k \in 0 .. Depth - 1 : k \in P => k + 1 \in P
  BY <1>1, <1>2, DepthAssumption
<1>4. \A k \in 0 .. Depth : k \in P
  <2>. HIDE DEF P
  <2>1. QED
    BY <1>3, LevelInduction
<1>5. QED
  BY <1>1, <1>2, <1>4

(* The recursions, from one level to the next.                             *)
LEMMA LevelSteps ==
    ASSUME NEW k \in 0 .. Depth - 1
    PROVE  /\ zeros[k + 1] = Hash(zeros[k], zeros[k])
           /\ \A ls : /\ Layers(ls)[k + 1] = NextLevel(Layers(ls)[k], k)
                      /\ Node(ls)[k + 1] = Parents(Node(ls)[k], k + 1)
           /\ \A index : Ancestor(index)[k + 1] = Ancestor(index)[k] \div 2
           /\ \A hash : Below(hash)[k + 1] = Parts(Below(hash)[k])
<1>. DEFINE up == k + 1
<1>1. up \in 0 .. Depth /\ up # 0 /\ up - 1 = k
  BY DepthAssumption
<1>. HIDE DEF up
<1>2. zeros[up] = Hash(zeros[k], zeros[k])
  BY <1>1, ZerosUnfold
<1>3. ASSUME NEW ls PROVE Layers(ls)[up] = NextLevel(Layers(ls)[k], k)
  BY <1>1, LayersUnfold
<1>4. ASSUME NEW ls PROVE Node(ls)[up] = Parents(Node(ls)[k], up)
  BY <1>1, NodeUnfolds
<1>5. ASSUME NEW index PROVE Ancestor(index)[up] = Ancestor(index)[k] \div 2
  BY <1>1, AncestorUnfolds
<1>6. ASSUME NEW hash PROVE Below(hash)[up] = Parts(Below(hash)[k])
  BY <1>1, BelowUnfolds
<1>7. QED
  BY <1>2, <1>3, <1>4, <1>5, <1>6 DEF up

(* ... and at the leaves' level.                                           *)
LEMMA LevelStarts ==
    /\ zeros[0] = EmptyLeaf
    /\ \A ls : Layers(ls)[0] = ls /\ Node(ls)[0] = PaddedLeaves(ls)
    /\ \A index : Ancestor(index)[0] = index
    /\ \A hash : Below(hash)[0] = {hash}
<1>1. 0 \in 0 .. Depth
  BY DepthAssumption
<1>2. zeros[0] = EmptyLeaf
  BY <1>1, ZerosUnfold
<1>3. ASSUME NEW ls PROVE Layers(ls)[0] = ls
  BY <1>1, LayersUnfold
<1>4. ASSUME NEW ls PROVE Node(ls)[0] = PaddedLeaves(ls)
  BY <1>1, NodeUnfolds
<1>5. ASSUME NEW index PROVE Ancestor(index)[0] = index
  BY <1>1, AncestorUnfolds
<1>6. ASSUME NEW hash PROVE Below(hash)[0] = {hash}
  BY <1>1, BelowUnfolds
<1>7. QED
  BY <1>2, <1>3, <1>4, <1>5, <1>6

(* A layer is a sequence, of whatever elements.                            *)
IsLayer(s) == Len(s) \in Nat /\ s = [i \in 1 .. Len(s) |-> s[i]]

(* A function on 1 .. n is a layer of n nodes.                             *)
LEMMA FunctionIsLayer ==
    ASSUME NEW n \in Nat, NEW s, s = [i \in 1 .. n |-> s[i]]
    PROVE  IsLayer(s) /\ Len(s) = n
<1>. DEFINE S == {s[i] : i \in 1 .. n}
<1>1. s \in [1 .. n -> S]
  OBVIOUS
<1>. HIDE DEF S
<1>2. s \in Seq(S)
  BY <1>1
<1>3. Len(s) = n
  BY <1>1, <1>2
<1>4. QED
  BY <1>3 DEF IsLayer

(* The next level has half as many nodes, rounded up.                      *)
LEMMA NextLevelLength ==
    ASSUME NEW current, NEW level, IsLayer(current), current # <<>>
    PROVE  /\ Len(current) > 0
           /\ IsLayer(NextLevel(current, level))
           /\ Len(NextLevel(current, level)) = (Len(current) + 1) \div 2
<1>1. Len(current) > 0
  BY DEF IsLayer
<1>2. (Len(current) + 1) \div 2 \in Nat
  BY DEF IsLayer
<1>3. NextLevel(current, level) = [i \in 1 .. (Len(current) + 1) \div 2 |->
                                     NextLevel(current, level)[i]]
  BY <1>2 DEF NextLevel
<1>4. QED
  BY <1>1, <1>2, <1>3, FunctionIsLayer

(* A layer stands for the nodes of its level: it holds those that are      *)
(* populated, and those past its end are empty subtrees.                   *)
StandsFor(layer, nodes, k) ==
    /\ IsLayer(layer)
    /\ k # 0 => layer # <<>>
    /\ \A index \in 0 .. width[Depth - k] - 1 :
          nodes[index] = IF index < Len(layer) THEN layer[index + 1]
                                               ELSE zeros[k]

(* Folding a layer gives the layer for the parents.                        *)
LEMMA FoldStandsFor ==
    ASSUME NEW k \in 0 .. Depth - 1, NEW layer, NEW nodes,
           StandsFor(layer, nodes, k)
    PROVE  StandsFor(NextLevel(layer, k), Parents(nodes, k + 1), k + 1)
<1>. DEFINE next == NextLevel(layer, k)
            parents == Parents(nodes, k + 1)
            w == width[Depth - (k + 1)]
<1>1. /\ k + 1 \in 0 .. Depth /\ k + 1 # 0
      /\ w \in Nat /\ width[Depth - k] = 2 * w
  <2>1. /\ Depth - (k + 1) \in 0 .. Depth - 1
        /\ (Depth - (k + 1)) + 1 = Depth - k
        /\ Depth - (k + 1) \in 0 .. Depth
    BY DepthAssumption
  <2>2. QED
    BY <2>1, WidthFacts, DepthAssumption
<1>2. zeros[k + 1] = Hash(zeros[k], zeros[k])
  BY LevelSteps
<1>3. \A i \in 0 .. w - 1 :
          parents[i] = Hash(nodes[2 * i], nodes[2 * i + 1])
  BY DEF Parents
<1>4. \A i \in 0 .. w - 1 :
          /\ nodes[2 * i] = IF 2 * i < Len(layer) THEN layer[2 * i + 1]
                                                  ELSE zeros[k]
          /\ nodes[2 * i + 1] = IF 2 * i + 1 < Len(layer)
                                THEN layer[(2 * i + 1) + 1] ELSE zeros[k]
  <2>1. \A i \in 0 .. w - 1 : /\ 2 * i \in 0 .. width[Depth - k] - 1
                              /\ 2 * i + 1 \in 0 .. width[Depth - k] - 1
    BY <1>1
  <2>2. QED
    BY <2>1 DEF StandsFor
<1>. HIDE DEF w, parents
<1>5. CASE layer = <<>>
  <2>1. next = <<zeros[k + 1]>>
    BY <1>5 DEF NextLevel
  <2>2. IsLayer(next) /\ next # <<>> /\ Len(next) = 1
    BY <2>1 DEF IsLayer
  <2>3. ASSUME NEW i \in 0 .. w - 1
        PROVE  parents[i] = IF i < Len(next) THEN next[i + 1]
                                             ELSE zeros[k + 1]
    <3>1. parents[i] = zeros[k + 1]
      BY <1>1, <1>2, <1>3, <1>4, <1>5
    <3>2. i < 1 => i = 0
      BY <1>1
    <3>3. QED
      BY <2>1, <2>2, <3>1, <3>2
  <2>4. QED
    BY <2>2, <2>3 DEF StandsFor, w, parents
<1>6. CASE layer # <<>>
  <2>1. /\ Len(layer) \in Nat /\ Len(layer) > 0
        /\ IsLayer(next) /\ Len(next) = (Len(layer) + 1) \div 2
    BY <1>6, NextLevelLength DEF StandsFor, IsLayer
  <2>2. next # <<>>
    BY <2>1
  <2>3. \A j \in 1 .. Len(next) :
            next[j] = Hash(layer[2 * j - 1],
                           IF 2 * j <= Len(layer) THEN layer[2 * j]
                                                  ELSE zeros[k])
    BY <1>6, <2>1 DEF NextLevel
  <2>. HIDE DEF next
  <2>4. ASSUME NEW i \in 0 .. w - 1
        PROVE  parents[i] = IF i < Len(next) THEN next[i + 1]
                                             ELSE zeros[k + 1]
    <3>0. i \in Nat
      BY <1>1
    <3>1. CASE i < Len(next)
      <4>1. /\ i + 1 \in 1 .. Len(next)
            /\ 2 * (i + 1) - 1 = 2 * i + 1
            /\ 2 * (i + 1) = (2 * i + 1) + 1
            /\ 2 * i < Len(layer)
            /\ 2 * i + 1 < Len(layer) <=> 2 * (i + 1) <= Len(layer)
        BY <2>1, <3>0, <3>1
      <4>2. next[i + 1] = Hash(layer[2 * i + 1],
                               IF 2 * i + 1 < Len(layer)
                               THEN layer[(2 * i + 1) + 1] ELSE zeros[k])
        BY <2>3, <4>1
      <4>3. QED
        BY <1>3, <1>4, <3>1, <4>1, <4>2
    <3>2. CASE ~ (i < Len(next))
      <4>1. ~ (2 * i < Len(layer)) /\ ~ (2 * i + 1 < Len(layer))
        BY <2>1, <3>0, <3>2
      <4>2. QED
        BY <1>2, <1>3, <1>4, <3>2, <4>1
    <3>3. QED
      BY <3>1, <3>2
  <2>5. QED
    BY <2>1, <2>2, <2>4 DEF StandsFor, next, w, parents
<1>7. QED
  BY <1>5, <1>6

(* Every layer of every tree stands for its level of the padded tree.      *)
LEMMA LayersStandForNodes ==
    ASSUME NEW S, NEW ls \in Seq(S), NEW k \in 0 .. Depth
    PROVE  StandsFor(Layers(ls)[k], Node(ls)[k], k)
<1>. DEFINE P == {n \in 0 .. Depth :
                    StandsFor(Layers(ls)[n], Node(ls)[n], n)}
<1>1. 0 \in P
  <2>1. IsLayer(ls)
    BY DEF IsLayer
  <2>2. \A index \in 0 .. width[Depth - 0] - 1 :
            PaddedLeaves(ls)[index] = IF index < Len(ls) THEN ls[index + 1]
                                                         ELSE EmptyLeaf
    <3>1. Depth - 0 = Depth
      BY DepthAssumption
    <3>2. QED
      BY <3>1 DEF PaddedLeaves, Capacity
  <2>3. StandsFor(ls, PaddedLeaves(ls), 0)
    BY <2>1, <2>2, LevelStarts DEF StandsFor
  <2>4. QED
    BY <2>3, LevelStarts, DepthAssumption
<1>2. ASSUME NEW n \in 0 .. Depth - 1, n \in P PROVE n + 1 \in P
  <2>1. StandsFor(NextLevel(Layers(ls)[n], n),
                  Parents(Node(ls)[n], n + 1), n + 1)
    BY <1>2, FoldStandsFor
  <2>2. QED
    BY <2>1, LevelSteps, DepthAssumption
<1>3. \A n \in 0 .. Depth : n \in P
  <2>. HIDE DEF P
  <2>1. QED
    BY <1>1, <1>2, LevelInduction
<1>4. QED
  BY <1>3

(* The root of a tree is the root of the padded tree, whatever its leaves, *)
(* and however many.                                                       *)
LEMMA RootIsNode ==
    ASSUME NEW S, NEW ls \in Seq(S)
    PROVE  Root(ls) = Node(ls)[Depth][0]
<1>1. StandsFor(Layers(ls)[Depth], Node(ls)[Depth], Depth)
  BY LayersStandForNodes, DepthAssumption
<1>2. Depth # 0 /\ Depth - Depth = 0 /\ 0 \in 0 .. width[0] - 1
  BY WidthFacts, DepthAssumption
<1>3. Len(Layers(ls)[Depth]) > 0
  BY <1>1, <1>2 DEF StandsFor, IsLayer
<1>4. Node(ls)[Depth][0] = Layers(ls)[Depth][0 + 1]
  BY <1>1, <1>2, <1>3 DEF StandsFor
<1>5. QED
  BY <1>4 DEF Root

-----------------------------------------------------------------------------
(* Paths. *)

(* The hashes up a path, one level at a time.                              *)
LEMMA HashSteps ==
    ASSUME NEW leaf, NEW elements, NEW bits
    PROVE  /\ LevelHashes(leaf, elements, bits)[0] = leaf
           /\ \A k \in 0 .. Depth - 1 :
                 LevelHashes(leaf, elements, bits)[k + 1] =
                    SwitchedHash(bits[k], LevelHashes(leaf, elements, bits)[k],
                                 elements[k])
<1>. DEFINE hashes == LevelHashes(leaf, elements, bits)
<1>0. hashes = [k \in 0 .. Depth |->
                  IF k = 0 THEN leaf
                  ELSE SwitchedHash(bits[k - 1], hashes[k - 1],
                                    elements[k - 1])]
  BY HashesUnfold
<1>. HIDE DEF hashes
<1>1. hashes[0] = leaf
  BY <1>0, DepthAssumption
<1>2. ASSUME NEW k \in 0 .. Depth - 1
      PROVE  hashes[k + 1] = SwitchedHash(bits[k], hashes[k], elements[k])
  <2>. DEFINE up == k + 1
  <2>1. up \in 0 .. Depth /\ up # 0 /\ up - 1 = k
    BY DepthAssumption
  <2>. HIDE DEF up
  <2>2. hashes[up] = SwitchedHash(bits[k], hashes[k], elements[k])
    BY <1>0, <2>1
  <2>3. QED
    BY <2>2 DEF up
<1>3. QED
  BY <1>1, <1>2 DEF hashes

(* One step of the circuit up the path that Proof returns: from a node of  *)
(* a layer to its parent in the next.                                      *)
LEMMA PathStep ==
    ASSUME NEW layer, NEW k, IsLayer(layer), NEW i \in Nat, i < Len(layer),
           NEW sibling,
           sibling = IF i % 2 = 1 THEN layer[i]
                     ELSE IF i + 2 <= Len(layer) THEN layer[i + 2]
                     ELSE zeros[k]
    PROVE  /\ i \div 2 < Len(NextLevel(layer, k))
           /\ NextLevel(layer, k)[i \div 2 + 1] =
                 SwitchedHash(i % 2, layer[i + 1], sibling)
<1>. DEFINE j == i \div 2 + 1
<1>1. layer # <<>> /\ Len(layer) \in Nat
  BY DEF IsLayer
<1>2. Len(NextLevel(layer, k)) = (Len(layer) + 1) \div 2
  BY <1>1, NextLevelLength
<1>3. j \in 1 .. (Len(layer) + 1) \div 2
  BY <1>1
<1>4. NextLevel(layer, k)[j] =
         Hash(layer[2 * j - 1],
              IF 2 * j <= Len(layer) THEN layer[2 * j] ELSE zeros[k])
  <2>. HIDE DEF j
  <2>1. QED
    BY <1>1, <1>3 DEF NextLevel
<1>5. CASE i % 2 = 0
  <2>1. 2 * j - 1 = i + 1 /\ 2 * j = i + 2
    BY <1>5
  <2>2. QED
    BY <1>1, <1>2, <1>3, <1>4, <1>5, <2>1 DEF SwitchedHash
<1>6. CASE i % 2 # 0
  <2>1. i % 2 = 1 /\ 2 * j - 1 = i /\ 2 * j = i + 1
    BY <1>6
  <2>2. 2 * j <= Len(layer)
    BY <1>1, <2>1
  <2>. HIDE DEF j
  <2>3. NextLevel(layer, k)[j] = Hash(sibling, layer[i + 1])
    BY <1>4, <2>1, <2>2
  <2>4. QED
    BY <1>2, <1>3, <1>6, <2>3 DEF j, SwitchedHash
<1>7. QED
  BY <1>5, <1>6

(* The position bits that Proof returns are bits.                          *)
LEMMA PathBits ==
    ASSUME NEW ls, NEW index \in Nat
    PROVE  Proof(ls, index).pathIndices \in [0 .. Depth - 1 -> {0, 1}]
<1>. DEFINE idx == Ancestor(index)
            P == {k \in 0 .. Depth : idx[k] \in Nat}
<1>1. 0 \in P
  BY AncestorUnfolds, DepthAssumption
<1>2. \A k \in 0 .. Depth - 1 : k \in P => k + 1 \in P
  BY AncestorUnfolds, DepthAssumption
<1>3. \A k \in 0 .. Depth : idx[k] \in Nat
  <2>. HIDE DEF P
  <2>1. \A k \in 0 .. Depth : k \in P
    BY <1>1, <1>2, LevelInduction
  <2>2. QED
    BY <2>1 DEF P
<1>4. Proof(ls, index).pathIndices =
         [level \in 0 .. Depth - 1 |-> idx[level] % 2]
  BY DEF Proof
<1>. HIDE DEF idx
<1>5. \A level \in 0 .. Depth - 1 : idx[level] % 2 \in {0, 1}
  BY <1>3, DepthAssumption
<1>6. QED
  BY <1>4, <1>5

(* The ancestors of a leaf are in the layers, as long as the leaf is       *)
(* within the capacity.                                                    *)
LEMMA PathFolds ==
    ASSUME NEW S, NEW ls \in Seq(S), Len(ls) <= Capacity,
           NEW index \in 0 .. Len(ls) - 1
    PROVE  LET p == Proof(ls, index) IN
           /\ p.root = Root(ls)
           /\ MerkleInclusion(ls[index + 1], p.pathElements, p.pathIndices)
                 = Root(ls)
<1>. DEFINE p == Proof(ls, index)
            idx == Ancestor(index)
            hashes == LevelHashes(ls[index + 1], p.pathElements, p.pathIndices)
            P == {k \in 0 .. Depth : /\ idx[k] \in Nat
                                     /\ idx[k] < Len(Layers(ls)[k])
                                     /\ idx[k] < width[Depth - k]
                                     /\ hashes[k] = Layers(ls)[k][idx[k] + 1]}
<1>1. /\ p.root = Root(ls)
      /\ \A k \in 0 .. Depth - 1 :
            /\ p.pathIndices[k] = idx[k] % 2
            /\ p.pathElements[k] =
                  IF idx[k] % 2 = 1 THEN Layers(ls)[k][idx[k]]
                  ELSE IF idx[k] + 2 <= Len(Layers(ls)[k])
                  THEN Layers(ls)[k][idx[k] + 2]
                  ELSE zeros[k]
  BY DEF Proof, Root
<1>. HIDE DEF p
<1>2. /\ hashes[0] = ls[index + 1]
      /\ \A k \in 0 .. Depth - 1 :
            hashes[k + 1] = SwitchedHash(p.pathIndices[k], hashes[k],
                                         p.pathElements[k])
  BY HashSteps
<1>. HIDE DEF hashes, idx
<1>3. 0 \in P
  <2>1. idx[0] = index /\ Layers(ls)[0] = ls
    BY LevelStarts DEF idx
  <2>2. index \in Nat /\ index < Len(ls) /\ index < width[Depth - 0]
    BY WidthFacts, DepthAssumption DEF Capacity
  <2>3. QED
    BY <1>2, <2>1, <2>2, DepthAssumption
<1>4. ASSUME NEW k \in 0 .. Depth - 1, k \in P PROVE k + 1 \in P
  <2>. DEFINE layer == Layers(ls)[k]
              next  == Layers(ls)[k + 1]
              i     == idx[k]
  <2>1. idx[k + 1] = i \div 2 /\ next = NextLevel(layer, k)
    BY LevelSteps DEF idx
  <2>2. IsLayer(layer)
    BY LayersStandForNodes, DepthAssumption DEF StandsFor
  <2>3. /\ i \in Nat /\ i < Len(layer) /\ i < width[Depth - k]
        /\ hashes[k] = layer[i + 1]
    BY <1>4
  <2>. HIDE DEF layer, next, i
  <2>4. p.pathElements[k] = IF i % 2 = 1 THEN layer[i]
                            ELSE IF i + 2 <= Len(layer) THEN layer[i + 2]
                            ELSE zeros[k]
    BY <1>1 DEF layer, i
  <2>5. /\ i \div 2 < Len(next)
        /\ next[i \div 2 + 1] =
              SwitchedHash(i % 2, layer[i + 1], p.pathElements[k])
    <3>. DEFINE sibling == p.pathElements[k]
    <3>. HIDE DEF sibling
    <3>1. sibling = IF i % 2 = 1 THEN layer[i]
                    ELSE IF i + 2 <= Len(layer) THEN layer[i + 2]
                    ELSE zeros[k]
      BY <2>4 DEF sibling
    <3>2. /\ i \div 2 < Len(NextLevel(layer, k))
          /\ NextLevel(layer, k)[i \div 2 + 1] =
                SwitchedHash(i % 2, layer[i + 1], sibling)
      BY <2>2, <2>3, <3>1, PathStep
    <3>3. QED
      BY <2>1, <3>2 DEF sibling
  <2>6. hashes[k + 1] = next[i \div 2 + 1]
    BY <1>1, <1>2, <2>3, <2>5 DEF i
  <2>7. /\ i \div 2 \in Nat
        /\ i \div 2 < width[Depth - (k + 1)]
    <3>1. width[Depth - k] = 2 * width[Depth - (k + 1)]
      <4>1. /\ Depth - (k + 1) \in 0 .. Depth - 1
            /\ (Depth - (k + 1)) + 1 = Depth - k
        BY DepthAssumption
      <4>2. QED
        BY <4>1, WidthFacts
    <3>2. Depth - (k + 1) \in 0 .. Depth
      BY DepthAssumption
    <3>3. width[Depth - (k + 1)] \in Nat
      BY <3>2, WidthFacts
    <3>4. QED
      BY <2>3, <3>1, <3>3
  <2>8. k + 1 \in 0 .. Depth
    BY DepthAssumption
  <2>9. QED
    BY <2>1, <2>5, <2>6, <2>7, <2>8 DEF next
<1>5. Depth \in P
  <2>. HIDE DEF P
  <2>1. QED
    BY <1>3, <1>4, LevelInduction, DepthAssumption
<1>6. idx[Depth] = 0
  <2>1. width[Depth - Depth] = 1
    BY WidthFacts, DepthAssumption
  <2>2. QED
    BY <1>5, <2>1
<1>7. hashes[Depth] = Layers(ls)[Depth][1]
  BY <1>5, <1>6
<1>8. QED
  BY <1>1, <1>7 DEF MerkleInclusion, Root, hashes, p

-----------------------------------------------------------------------------
(* What stands below a root. *)

(* Every node above the leaves is the hash of the two below it.            *)
LEMMA NodeIsHash ==
    ASSUME NEW ls, NEW k \in 0 .. Depth - 1, NEW i \in 0 .. width[k] - 1
    PROVE  /\ 2 * i \in 0 .. width[k + 1] - 1
           /\ 2 * i + 1 \in 0 .. width[k + 1] - 1
           /\ Node(ls)[Depth - k][i] =
                 Hash(Node(ls)[Depth - (k + 1)][2 * i],
                      Node(ls)[Depth - (k + 1)][2 * i + 1])
<1>1. /\ width[k] \in Nat /\ width[k + 1] = 2 * width[k]
      /\ Depth - (k + 1) \in 0 .. Depth - 1
      /\ (Depth - (k + 1)) + 1 = Depth - k
      /\ Depth - (Depth - k) = k
  BY WidthFacts, DepthAssumption
<1>2. Node(ls)[Depth - k] =
         Parents(Node(ls)[Depth - (k + 1)], Depth - k)
  BY <1>1, LevelSteps
<1>3. QED
  BY <1>1, <1>2 DEF Parents

(* The nodes of the padded tree k levels below its root.                   *)
NodesBelow(ls, k) == {Node(ls)[Depth - k][i] : i \in 0 .. width[k] - 1}

(* What stands k levels below a root are the nodes of that level of the    *)
(* padded tree, and nothing else: a hash can be opened in one way only.    *)
LEMMA BelowRoot ==
    ASSUME NEW ls, NEW k \in 0 .. Depth
    PROVE  Below(Node(ls)[Depth][0])[k] = NodesBelow(ls, k)
<1>. DEFINE root == Node(ls)[Depth][0]
            P == {n \in 0 .. Depth : Below(root)[n] = NodesBelow(ls, n)}
<1>1. 0 \in P
  <2>1. width[0] = 1 /\ Depth - 0 = Depth /\ 0 .. 1 - 1 = {0}
    BY WidthFacts, DepthAssumption
  <2>2. NodesBelow(ls, 0) = {root}
    BY <2>1 DEF NodesBelow
  <2>3. Below(root)[0] = {root}
    BY LevelStarts
  <2>4. QED
    BY <2>2, <2>3, DepthAssumption
<1>2. ASSUME NEW n \in 0 .. Depth - 1, n \in P PROVE n + 1 \in P
  <2>1. Below(root)[n + 1] = Parts(NodesBelow(ls, n))
    BY <1>2, LevelSteps
  <2>2. ASSUME NEW x \in Parts(NodesBelow(ls, n))
        PROVE  x \in NodesBelow(ls, n + 1)
    <3>1. PICK i \in 0 .. width[n] - 1 :
              \/ x = Node(ls)[Depth - n][i][1]
              \/ x = Node(ls)[Depth - n][i][2]
      BY <2>2 DEF Parts, NodesBelow
    <3>2. \/ x = Node(ls)[Depth - (n + 1)][2 * i]
          \/ x = Node(ls)[Depth - (n + 1)][2 * i + 1]
      BY <3>1, NodeIsHash DEF Hash
    <3>3. QED
      BY <3>2, NodeIsHash DEF NodesBelow
  <2>3. ASSUME NEW x \in NodesBelow(ls, n + 1)
        PROVE  x \in Parts(NodesBelow(ls, n))
    <3>1. PICK j \in 0 .. width[n + 1] - 1 :
              x = Node(ls)[Depth - (n + 1)][j]
      BY <2>3 DEF NodesBelow
    <3>. DEFINE i == j \div 2
    <3>2. /\ i \in 0 .. width[n] - 1
          /\ j = 2 * i \/ j = 2 * i + 1
      BY WidthFacts, DepthAssumption
    <3>. HIDE DEF i
    <3>3. \/ x = Node(ls)[Depth - n][i][1]
          \/ x = Node(ls)[Depth - n][i][2]
      BY <3>1, <3>2, NodeIsHash DEF Hash
    <3>4. QED
      BY <3>2, <3>3 DEF Parts, NodesBelow
  <2>4. Parts(NodesBelow(ls, n)) = NodesBelow(ls, n + 1)
    BY <2>2, <2>3
  <2>5. Below(root)[n + 1] = NodesBelow(ls, n + 1)
    BY <2>1, <2>4
  <2>6. n + 1 \in 0 .. Depth
    BY DepthAssumption
  <2>. HIDE DEF root
  <2>7. QED
    BY <2>5, <2>6
<1>3. \A n \in 0 .. Depth : n \in P
  <2>. HIDE DEF P
  <2>1. QED
    BY <1>1, <1>2, LevelInduction
<1>4. QED
  BY <1>3

(* The leaves' level of the padded tree: the leaves, and the padding.      *)
LEMMA BelowIsLeaves ==
    ASSUME NEW S, NEW ls \in Seq(S), Len(ls) <= Capacity
    PROVE  {PaddedLeaves(ls)[i] : i \in 0 .. Capacity - 1} \ {EmptyLeaf}
               = {ls[i] : i \in 1 .. Len(ls)} \ {EmptyLeaf}
<1>1. Capacity \in Nat /\ Len(ls) \in Nat
  BY WidthFacts, DepthAssumption DEF Capacity
<1>2. \A i \in 0 .. Capacity - 1 :
          PaddedLeaves(ls)[i] = IF i < Len(ls) THEN ls[i + 1] ELSE EmptyLeaf
  BY DEF PaddedLeaves
<1>3. ASSUME NEW i \in 0 .. Capacity - 1, PaddedLeaves(ls)[i] # EmptyLeaf
      PROVE  \E j \in 1 .. Len(ls) : PaddedLeaves(ls)[i] = ls[j]
  BY <1>1, <1>2, <1>3
<1>4. ASSUME NEW j \in 1 .. Len(ls)
      PROVE  \E i \in 0 .. Capacity - 1 : PaddedLeaves(ls)[i] = ls[j]
  <2>1. j - 1 \in 0 .. Capacity - 1 /\ j - 1 < Len(ls) /\ (j - 1) + 1 = j
    BY <1>1
  <2>2. QED
    BY <1>2, <2>1
<1>5. QED
  BY <1>3, <1>4

(* What the circuit folds to a hash stands below it.                       *)
LEMMA FoldedIsBelow ==
    ASSUME NEW leaf, NEW elements, NEW bits
    PROVE  leaf \in Below(MerkleInclusion(leaf, elements, bits))[Depth]
<1>. DEFINE hashes == LevelHashes(leaf, elements, bits)
            root == hashes[Depth]
            P == {k \in 0 .. Depth : hashes[Depth - k] \in Below(root)[k]}
<1>1. 0 \in P
  <2>1. Depth - 0 = Depth
    BY DepthAssumption
  <2>2. QED
    BY <2>1, LevelStarts, DepthAssumption
<1>2. ASSUME NEW k \in 0 .. Depth - 1, k \in P PROVE k + 1 \in P
  <2>. DEFINE l == Depth - (k + 1)
  <2>1. l \in 0 .. Depth - 1 /\ l + 1 = Depth - k
    BY DepthAssumption
  <2>2. hashes[Depth - k] = SwitchedHash(bits[l], hashes[l], elements[l])
    BY <2>1, HashSteps
  <2>3. \/ hashes[l] = hashes[Depth - k][1]
        \/ hashes[l] = hashes[Depth - k][2]
    BY <2>2 DEF SwitchedHash, Hash
  <2>4. hashes[l] \in Parts(Below(root)[k])
    BY <1>2, <2>3 DEF Parts
  <2>5. hashes[l] \in Below(root)[k + 1]
    BY <2>4, LevelSteps
  <2>6. QED
    BY <2>5, DepthAssumption
<1>3. Depth \in P
  <2>. HIDE DEF P
  <2>1. QED
    BY <1>1, <1>2, LevelInduction, DepthAssumption
<1>4. Depth - Depth = 0
  BY DepthAssumption
<1>5. QED
  BY <1>3, <1>4, HashSteps DEF MerkleInclusion

-----------------------------------------------------------------------------
(* The theorems. *)

(* New starts with no leaf and Append adds one: the leaves are a sequence  *)
(* of leaves.                                                              *)
LeavesOK == leaves \in Seq(Leaf)

LEMMA LeavesTyping == Spec => []LeavesOK
<1>1. Init => LeavesOK
  BY DEF Init, LeavesOK
<1>2. LeavesOK /\ [Next]_leaves => LeavesOK'
  BY DEF LeavesOK, Next, AppendLeaf
<1>3. QED
  BY <1>1, <1>2, PTL DEF Spec

(* Folding only the populated subtrees, layer by layer, gives the root of  *)
(* the full padded tree, for every depth and however many leaves.          *)
THEOREM LayersComputeTheTree == Spec => []RootIsReference
<1>1. LeavesOK => RootIsReference
  BY RootIsNode DEF LeavesOK, RootIsReference
<1>2. QED
  BY <1>1, LeavesTyping, PTL

(* Up to the capacity, Proof returns for every leaf a path that the        *)
(* circuit folds to the root that Root returns.                            *)
THEOREM LeavesProvable == Spec => []EveryLeafProvable
<1>1. LeavesOK => EveryLeafProvable
  BY PathFolds DEF LeavesOK, EveryLeafProvable, WithinCapacity
<1>2. QED
  BY <1>1, LeavesTyping, PTL

(* What stands below the root of a sequence of leaves.                     *)
LEMMA BelowRootOf ==
    ASSUME NEW ls \in Seq(Leaf), Len(ls) <= Capacity
    PROVE  Below(Root(ls))[Depth] \ {EmptyLeaf}
               = {ls[i] : i \in 1 .. Len(ls)}
<1>1. Root(ls) = Node(ls)[Depth][0]
  BY RootIsNode
<1>2. Depth - Depth = 0 /\ Depth \in 0 .. Depth
  BY DepthAssumption
<1>3. Node(ls)[0] = PaddedLeaves(ls)
  BY LevelStarts
<1>4. Below(Root(ls))[Depth] =
         {PaddedLeaves(ls)[i] : i \in 0 .. Capacity - 1}
  <2>1. Below(Root(ls))[Depth] = NodesBelow(ls, Depth)
    BY <1>1, <1>2, BelowRoot
  <2>2. QED
    BY <1>2, <1>3, <2>1 DEF NodesBelow, Capacity
<1>5. {ls[i] : i \in 1 .. Len(ls)} \ {EmptyLeaf} = {ls[i] : i \in 1 .. Len(ls)}
  BY LeafAssumption
<1>6. {PaddedLeaves(ls)[i] : i \in 0 .. Capacity - 1} \ {EmptyLeaf}
         = {ls[i] : i \in 1 .. Len(ls)} \ {EmptyLeaf}
  BY BelowIsLeaves
<1>7. QED
  BY <1>4, <1>5, <1>6, Zenon

(* Up to the capacity, the values some path folds to the root are the      *)
(* leaves appended and, where the tree is padded, the empty leaf.          *)
THEOREM NothingElseProvable == Spec => []OnlyLeavesProvable
<1>1. LeavesOK => OnlyLeavesProvable
  BY BelowRootOf DEF LeavesOK, OnlyLeavesProvable, WithinCapacity
<1>2. QED
  BY <1>1, LeavesTyping, PTL

(* No path is forged: whatever siblings and bits a prover gives, what the  *)
(* circuit folds to a root of the issuer's is a leaf the issuer appended,  *)
(* or the padding of a tree that is not full.                              *)
THEOREM NoForgedPath ==
    ASSUME NEW ls \in Seq(Leaf), Len(ls) <= Capacity,
           NEW leaf, NEW elements, NEW bits \in [0 .. Depth - 1 -> {0, 1}],
           MerkleInclusion(leaf, elements, bits) = Root(ls)
    PROVE  leaf = EmptyLeaf \/ \E i \in 1 .. Len(ls) : leaf = ls[i]
<1>1. leaf \in Below(Root(ls))[Depth]
  BY FoldedIsBelow
<1>2. QED
  BY <1>1, BelowRootOf

-----------------------------------------------------------------------------
(* What a root stands for. *)

(* Equal nodes have equal children, down to the padded leaves.             *)
LEMMA RootFixesNodes ==
    ASSUME NEW ls, NEW others, Node(ls)[Depth][0] = Node(others)[Depth][0]
    PROVE  \A i \in 0 .. Capacity - 1 :
              PaddedLeaves(ls)[i] = PaddedLeaves(others)[i]
<1>. DEFINE P == {k \in 0 .. Depth :
                    \A i \in 0 .. width[k] - 1 :
                       Node(ls)[Depth - k][i] = Node(others)[Depth - k][i]}
<1>1. 0 \in P
  <2>1. width[0] = 1 /\ Depth - 0 = Depth /\ 0 .. 1 - 1 = {0}
    BY WidthFacts, DepthAssumption
  <2>2. QED
    BY <2>1, DepthAssumption
<1>2. ASSUME NEW k \in 0 .. Depth - 1, k \in P PROVE k + 1 \in P
  <2>1. ASSUME NEW j \in 0 .. width[k + 1] - 1
        PROVE  Node(ls)[Depth - (k + 1)][j] = Node(others)[Depth - (k + 1)][j]
    <3>. DEFINE i == j \div 2
    <3>1. /\ i \in 0 .. width[k] - 1
          /\ j = 2 * i \/ j = 2 * i + 1
      BY WidthFacts, DepthAssumption
    <3>. HIDE DEF i
    <3>2. Node(ls)[Depth - k][i] = Node(others)[Depth - k][i]
      BY <1>2, <3>1
    <3>3. QED
      BY <3>1, <3>2, NodeIsHash DEF Hash
  <2>2. QED
    BY <2>1, DepthAssumption
<1>3. Depth \in P
  <2>. HIDE DEF P
  <2>1. QED
    BY <1>1, <1>2, LevelInduction, DepthAssumption
<1>4. Depth - Depth = 0
  BY DepthAssumption
<1>5. QED
  BY <1>3, <1>4, LevelStarts DEF Capacity

(* A root is a name for the sequence of leaves below it: up to the         *)
(* capacity no two sequences of leaves share one.  This is why a root is   *)
(* that sequence in the models of the issuer and of kycctl.                *)
THEOREM RootNamesLeaves ==
    ASSUME NEW ls \in Seq(Leaf), Len(ls) <= Capacity,
           NEW others \in Seq(Leaf), Len(others) <= Capacity,
           Root(ls) = Root(others)
    PROVE  ls = others
<1>1. \A i \in 0 .. Capacity - 1 :
         PaddedLeaves(ls)[i] = PaddedLeaves(others)[i]
  BY RootIsNode, RootFixesNodes
<1>2. Capacity \in Nat
  BY WidthFacts, DepthAssumption DEF Capacity
<1>3. \A i \in 0 .. Capacity - 1 : i < Len(ls) <=> i < Len(others)
  <2>1. \A i \in 0 .. Capacity - 1 :
          /\ i < Len(ls)     => ls[i + 1] \in Leaf
          /\ i < Len(others) => others[i + 1] \in Leaf
    BY <1>2
  <2>2. QED
    BY <1>1, <2>1, LeafAssumption DEF PaddedLeaves
<1>4. Len(ls) = Len(others)
  <2>1. /\ ~ Len(ls) < Len(others)
        /\ ~ Len(others) < Len(ls)
    BY <1>2, <1>3
  <2>2. QED
    BY <2>1
<1>5. ASSUME NEW j \in 1 .. Len(ls) PROVE ls[j] = others[j]
  <2>1. /\ j - 1 \in 0 .. Capacity - 1 /\ (j - 1) + 1 = j
        /\ j - 1 < Len(ls) /\ j - 1 < Len(others)
    BY <1>2, <1>4
  <2>2. /\ PaddedLeaves(ls)[j - 1] = ls[j]
        /\ PaddedLeaves(others)[j - 1] = others[j]
    BY <2>1 DEF PaddedLeaves
  <2>3. QED
    BY <1>1, <2>1, <2>2
<1>6. QED
  BY <1>4, <1>5

(* New folds every layer, but the root is read at the first node of the    *)
(* last one: leaves past the capacity are not under it.                    *)
THEOREM RootStopsAtCapacity ==
    ASSUME NEW ls \in Seq(Leaf), Len(ls) > Capacity
    PROVE  Root(ls) = Root(SubSeq(ls, 1, Capacity))
<1>. DEFINE first == SubSeq(ls, 1, Capacity)
<1>1. Capacity \in Nat
  BY WidthFacts, DepthAssumption DEF Capacity
<1>2. first \in Seq(Leaf) /\ Len(first) = Capacity
      /\ \A j \in 1 .. Capacity : first[j] = ls[j]
  BY <1>1
<1>. HIDE DEF first
<1>3. PaddedLeaves(ls) = PaddedLeaves(first)
  <2>1. \A i \in 0 .. Capacity - 1 :
          /\ i < Len(ls) /\ i < Len(first)
          /\ i + 1 \in 1 .. Capacity
    BY <1>1, <1>2
  <2>2. QED
    BY <1>2, <2>1 DEF PaddedLeaves
<1>4. Node(ls) = Node(first)
  BY <1>3, Zenon DEF Node
<1>5. Root(ls) = Node(ls)[Depth][0] /\ Root(first) = Node(first)[Depth][0]
  BY <1>2, RootIsNode
<1>6. QED
  BY <1>4, <1>5 DEF first

(* Past the capacity as within it, a leaf has a path to the root, made by  *)
(* Proof or by anyone, exactly if it is one of the first 2^depth.  This is *)
(* when circom's witness calculation succeeds; kycctl prove leaves the     *)
(* check to it.                                                            *)
THEOREM ProvableWithinCapacity ==
    ASSUME NEW ls \in Seq(Leaf), NEW leaf \in Leaf
    PROVE  (\E elements : \E bits \in [0 .. Depth - 1 -> {0, 1}] :
               MerkleInclusion(leaf, elements, bits) = Root(ls))
           <=> \E i \in 1 .. Len(ls) : i <= Capacity /\ ls[i] = leaf
<1>1. Capacity \in Nat
  BY WidthFacts, DepthAssumption DEF Capacity
<1>2. PICK covered \in Seq(Leaf) :
          /\ Len(covered) <= Capacity
          /\ Root(covered) = Root(ls)
          /\ (\E i \in 1 .. Len(ls) : i <= Capacity /\ ls[i] = leaf)
                <=> \E i \in 1 .. Len(covered) : covered[i] = leaf
  <2>1. CASE Len(ls) <= Capacity
    <3>1. \A i \in 1 .. Len(ls) : i <= Capacity
      BY <1>1, <2>1
    <3>2. QED
      BY <2>1, <3>1
  <2>2. CASE Len(ls) > Capacity
    <3>. DEFINE first == SubSeq(ls, 1, Capacity)
    <3>1. /\ first \in Seq(Leaf) /\ Len(first) = Capacity
          /\ \A j \in 1 .. Capacity : first[j] = ls[j]
      BY <1>1, <2>2
    <3>2. Root(first) = Root(ls)
      BY <2>2, RootStopsAtCapacity
    <3>. HIDE DEF first
    <3>3. \A i : i \in 1 .. Len(ls) /\ i <= Capacity <=> i \in 1 .. Len(first)
      BY <1>1, <2>2, <3>1
    <3>4. (\E i \in 1 .. Len(ls) : i <= Capacity /\ ls[i] = leaf)
             <=> \E i \in 1 .. Len(first) : first[i] = leaf
      BY <3>1, <3>3
    <3>5. Len(first) <= Capacity
      BY <1>1, <3>1
    <3>6. QED
      BY <3>1, <3>2, <3>4, <3>5
  <2>3. QED
    BY <1>1, <2>1, <2>2
<1>3. ASSUME NEW elements, NEW bits \in [0 .. Depth - 1 -> {0, 1}],
             MerkleInclusion(leaf, elements, bits) = Root(ls)
      PROVE  \E i \in 1 .. Len(covered) : covered[i] = leaf
  BY <1>2, <1>3, NoForgedPath, LeafAssumption
<1>4. ASSUME NEW i \in 1 .. Len(covered), covered[i] = leaf
      PROVE  \E elements : \E bits \in [0 .. Depth - 1 -> {0, 1}] :
                 MerkleInclusion(leaf, elements, bits) = Root(ls)
  <2>. DEFINE p == Proof(covered, i - 1)
  <2>1. i - 1 \in 0 .. Len(covered) - 1 /\ (i - 1) + 1 = i
    OBVIOUS
  <2>2. MerkleInclusion(leaf, p.pathElements, p.pathIndices) = Root(ls)
    BY <1>2, <1>4, <2>1, PathFolds
  <2>3. p.pathIndices \in [0 .. Depth - 1 -> {0, 1}]
    BY <2>1, PathBits
  <2>4. QED
    BY <2>2, <2>3
<1>5. QED
  BY <1>2, <1>3, <1>4

(* How many nodes a level has against how many its part of the tree has    *)
(* is settled at the leaves.                                               *)
LEMMA LevelFits ==
    ASSUME NEW S, NEW ls \in Seq(S), NEW k \in 0 .. Depth
    PROVE  Len(Layers(ls)[k]) <= width[Depth - k] <=> Len(ls) <= Capacity
<1>. DEFINE P == {n \in 0 .. Depth :
                    Len(Layers(ls)[n]) <= width[Depth - n]
                        <=> Len(ls) <= Capacity}
<1>1. 0 \in P
  <2>1. Depth - 0 = Depth
    BY DepthAssumption
  <2>2. QED
    BY <2>1, LevelStarts, DepthAssumption DEF Capacity
<1>2. ASSUME NEW n \in 0 .. Depth - 1, n \in P PROVE n + 1 \in P
  <2>. DEFINE layer == Layers(ls)[n]
              next  == Layers(ls)[n + 1]
              w     == width[Depth - (n + 1)]
  <2>1. /\ Depth - (n + 1) \in 0 .. Depth - 1
        /\ Depth - (n + 1) \in 0 .. Depth
        /\ (Depth - (n + 1)) + 1 = Depth - n
        /\ n + 1 \in 0 .. Depth
    BY DepthAssumption
  <2>2. w \in Nat /\ w > 0 /\ width[Depth - n] = 2 * w
    BY <2>1, WidthFacts
  <2>3. IsLayer(layer) /\ next = NextLevel(layer, n)
    BY LayersStandForNodes, LevelSteps, DepthAssumption DEF StandsFor
  <2>. HIDE DEF layer, next, w
  <2>4. Len(next) <= w <=> Len(layer) <= 2 * w
    <3>1. CASE layer = <<>>
      <4>1. Len(layer) = 0 /\ Len(next) = 1
        BY <2>3, <3>1 DEF NextLevel
      <4>2. QED
        BY <2>2, <4>1
    <3>2. CASE layer # <<>>
      <4>1. Len(next) = (Len(layer) + 1) \div 2
        BY <2>3, <3>2, NextLevelLength
      <4>2. QED
        BY <2>2, <2>3, <4>1 DEF IsLayer
    <3>3. QED
      BY <3>1, <3>2
  <2>5. QED
    BY <1>2, <2>1, <2>2, <2>4 DEF layer, next, w
<1>3. k \in P
  <2>. HIDE DEF P
  <2>1. QED
    BY <1>1, <1>2, LevelInduction
<1>4. QED
  BY <1>3

(* What tree.go says of the top layer, "always length 1", holds exactly as *)
(* long as the issuer has not appended more leaves than the tree holds,    *)
(* which Append does not check.                                            *)
THEOREM TopLayerUpToCapacity ==
    Spec => [](TopLayerIsSingle <=> WithinCapacity)
<1>1. ASSUME LeavesOK PROVE TopLayerIsSingle <=> WithinCapacity
  <2>1. /\ Depth \in 0 .. Depth /\ Depth # 0 /\ Depth - Depth = 0
        /\ width[0] = 1
    BY WidthFacts, DepthAssumption
  <2>2. StandsFor(Layers(leaves)[Depth], Node(leaves)[Depth], Depth)
    BY <1>1, <2>1, LayersStandForNodes DEF LeavesOK
  <2>. DEFINE nodes == Len(Layers(leaves)[Depth])
  <2>3. nodes \in Nat /\ nodes > 0
    BY <2>1, <2>2 DEF StandsFor, IsLayer
  <2>4. nodes <= 1 <=> WithinCapacity
    BY <1>1, <2>1, LevelFits DEF LeavesOK, WithinCapacity
  <2>. HIDE DEF nodes
  <2>5. nodes = 1 <=> WithinCapacity
    BY <2>3, <2>4
  <2>6. QED
    BY <2>5 DEF nodes, TopLayerIsSingle
<1>2. LeavesOK => (TopLayerIsSingle <=> WithinCapacity)
  BY <1>1
<1>3. QED
  BY <1>2, LeavesTyping, PTL

=============================================================================
