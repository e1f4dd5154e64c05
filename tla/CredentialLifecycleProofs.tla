---------------------- MODULE CredentialLifecycleProofs ----------------------
(***************************************************************************)
(* Proofs about the path of a credential.  The lifecycle implements the    *)
(* registry's specification, so what is proved of the registry holds of    *)
(* it; calldata is of use to its holder only; and what was redeemed had    *)
(* been issued.                                                            *)
(***************************************************************************)
EXTENDS CredentialLifecycle, ZKComplianceRegistryProofs, FiniteSetTheorems,
        SequenceTheorems

(* Every calldata in circulation is bound to the account of its secret.    *)
ProofsBound ==
    /\ proofs \subseteq PubSignals
    /\ \A s \in proofs : s.holderAddr = HolderOf[s.nullifier.secret]

Started == {p \in Issuance : issuePc[p] # "start"}

Appended(c) == \E p \in Issuance : issuePc[p] # "start" /\ LeafOf[p] = c

(* Every tree there is has only leaves that issue commands appended, and   *)
(* no more of them than commands were started.                             *)
Tree(s) ==
    /\ s \in Seq(Credential)
    /\ Len(s) <= Cardinality(Started)
    /\ \A n \in 1 .. Len(s) : Appended(s[n])

IssuePcs == {"start", "loaded", "truncated", "saved", "done", "failed"}

(* What the off-chain part keeps, whatever the registry does. *)
TreesInv ==
    /\ issuePc \in [Issuance -> IssuePcs]
    /\ DOMAIN memory = Issuance
    /\ file \in {NoFile} \cup Issuing!Unparsable \cup Seq(Credential)
    /\ Issuing!Parsed => Tree(file)
    /\ \A p \in Issuance : Tree(memory[p])
    /\ \A r \in printed : Tree(r)

(* The published root is a printed one, or none. *)
PublishedInv == currentRoot \in printed \cup {NoTree}

LInv ==
    /\ TypeOK /\ TreesInv /\ PublishedInv /\ ProofsBound
    /\ OnlyHolderRedeems /\ RedeemedWereIssued

-----------------------------------------------------------------------------
(* Every tree has a root that could be published.                          *)
LEMMA TreesAreRoots ==
    ASSUME NEW s, Tree(s)
    PROVE  s \in Root
<1>1. /\ IsFiniteSet(Started) /\ Cardinality(Started) \in Nat
      /\ Cardinality(Started) <= Cardinality(Issuance)
      /\ Cardinality(Issuance) \in Nat
  <2>1. Started \subseteq Issuance
    BY DEF Started
  <2>2. QED
    BY <2>1, IssueAssumption, FS_Subset, FS_CardinalityType
<1>2. /\ s \in Seq(Credential) /\ Len(s) \in Nat
      /\ Len(s) \in 0 .. Cardinality(Issuance)
  BY <1>1 DEF Tree
<1>3. \A n \in 1 .. Len(s) : s[n] \in Issuable
  BY DEF Tree, Appended, Issuable
<1>4. s \in [1 .. Len(s) -> Issuable]
  BY <1>2, <1>3
<1>5. QED
  BY <1>2, <1>4, RootAssumption

(* The empty tree is one.                                                  *)
LEMMA NoTreeIsTree ==
    Tree(NoTree) /\ NoTree \in Root /\ ToSet(NoTree) = {}
<1>1. Started \subseteq Issuance
  BY DEF Started
<1>2. Cardinality(Started) \in Nat
  BY <1>1, IssueAssumption, FS_Subset, FS_CardinalityType
<1>3. Tree(NoTree)
  BY <1>2 DEF Tree, NoTree
<1>4. QED
  BY <1>3, TreesAreRoots DEF NoTree, ToSet

(* Trees stay trees as more commands start.                                *)
LEMMA TreesStay ==
    ASSUME \A p \in Issuance : issuePc[p] # "start" => issuePc'[p] # "start"
    PROVE  \A s : Tree(s) => Tree(s)'
<1>1. Started \subseteq Started' /\ Started' \subseteq Issuance
  BY DEF Started
<1>2. /\ Cardinality(Started) <= Cardinality(Started')
      /\ Cardinality(Started) \in Nat /\ Cardinality(Started') \in Nat
  BY <1>1, IssueAssumption, FS_Subset, FS_CardinalityType
<1>3. ASSUME NEW s, Tree(s)
      PROVE  s \in Seq(Credential) /\ Len(s) <= Cardinality(Started')
  BY <1>2, <1>3 DEF Tree
<1>4. \A c : Appended(c) => Appended(c)'
  BY DEF Appended
<1>5. QED
  BY <1>3, <1>4 DEF Tree

(* A command that starts makes a tree by appending its leaf.               *)
LEMMA TreeGrows ==
    ASSUME NEW s, Tree(s), NEW p \in Issuance, issuePc[p] = "start",
           issuePc \in [Issuance -> IssuePcs],
           issuePc' = [issuePc EXCEPT ![p] = "loaded"],
           NEW t, t = Append(s, LeafOf[p])
    PROVE  /\ t \in Seq(Credential)
           /\ Len(t) <= Cardinality(Started')
           /\ \A n \in 1 .. Len(t) : Appended(t[n])'
<1> DEFINE c == LeafOf[p]
<1>1. c \in Credential
  BY IssueAssumption
<1>2. Started' = Started \cup {p} /\ p \notin Started
  BY DEF Started
<1>3. /\ Cardinality(Started') = Cardinality(Started) + 1
      /\ Cardinality(Started) \in Nat
  <2>1. Started \subseteq Issuance
    BY DEF Started
  <2>2. IsFiniteSet(Started)
    BY <2>1, IssueAssumption, FS_Subset
  <2>3. QED
    BY <1>2, <2>2, FS_AddElement, FS_CardinalityType
<1>4. Appended(c)' /\ \A d : Appended(d) => Appended(d)'
  BY DEF Appended
<1>5. s \in Seq(Credential) /\ Len(s) <= Cardinality(Started)
  BY DEF Tree
<1> HIDE DEF c
<1>6. /\ t \in Seq(Credential) /\ Len(t) = Len(s) + 1
      /\ \A n \in 1 .. Len(t) :
            t[n] = c \/ (n \in 1 .. Len(s) /\ t[n] = s[n])
  BY <1>1, <1>5 DEF c
<1>7. QED
  BY <1>3, <1>4, <1>5, <1>6 DEF Tree

(* Taking a leaf out of a tree leaves a tree.                              *)
LEMMA TreeShrinks ==
    ASSUME NEW s, Tree(s), NEW i \in DOMAIN s
    PROVE  Tree(RemoveAt(s, i))
<1> DEFINE t == RemoveAt(s, i)
<1>1. /\ s \in Seq(Credential) /\ Len(s) \in Nat /\ i \in 1 .. Len(s)
      /\ Len(s) <= Cardinality(Started)
  BY DEF Tree
<1>2. Cardinality(Started) \in Nat
  <2>1. Started \subseteq Issuance
    BY DEF Started
  <2>2. QED
    BY <2>1, IssueAssumption, FS_Subset, FS_CardinalityType
<1> DEFINE a == SubSeq(s, 1, i - 1)
           b == SubSeq(s, i + 1, Len(s))
<1>3. /\ a \in Seq(Credential) /\ Len(a) = i - 1
      /\ b \in Seq(Credential) /\ Len(b) = Len(s) - i
      /\ t = a \o b
  BY <1>1 DEF RemoveAt
<1>4. /\ \A n \in 1 .. i - 1 : n \in 1 .. Len(s) /\ a[n] = s[n]
      /\ \A n \in 1 .. Len(s) - i : n + i \in 1 .. Len(s) /\ b[n] = s[n + i]
  BY <1>1
<1> HIDE DEF t, a, b
<1>5. /\ t \in Seq(Credential) /\ Len(t) = Len(a) + Len(b)
      /\ \A n \in 1 .. Len(a) + Len(b) :
            t[n] = IF n <= Len(a) THEN a[n] ELSE b[n - Len(a)]
  BY <1>3, ConcatProperties
<1>6. \A n \in 1 .. Len(t) : \E m \in 1 .. Len(s) : t[n] = s[m]
  <2>. SUFFICES ASSUME NEW n \in 1 .. Len(t)
                PROVE  \E m \in 1 .. Len(s) : t[n] = s[m]
    OBVIOUS
  <2>1. /\ n \in 1 .. Len(a) + Len(b)
        /\ n \in Int /\ i \in Int /\ Len(a) = i - 1 /\ Len(s) \in Int
        /\ Len(b) = Len(s) - i
    BY <1>1, <1>3, <1>5
  <2>2. CASE n <= Len(a)
    <3>1. t[n] = a[n]
      BY <1>5, <2>1, <2>2
    <3>2. n \in 1 .. i - 1
      BY <2>1, <2>2
    <3>3. QED
      BY <1>4, <3>1, <3>2
  <2>3. CASE ~ n <= Len(a)
    <3>1. t[n] = b[n - Len(a)]
      BY <1>5, <2>1, <2>3
    <3>2. n - Len(a) \in 1 .. Len(s) - i
      <4>. DEFINE l == Len(a)
                  k == Len(s)
      <4>1. /\ l \in Int /\ k \in Int /\ i \in Int /\ n \in Int
            /\ n <= l + (k - i) /\ ~ n <= l
        BY <2>1, <2>3
      <4>. HIDE DEF l, k
      <4>2. n - l \in 1 .. k - i
        BY <4>1
      <4>3. QED
        BY <4>2 DEF l, k
    <3>3. /\ (n - Len(a)) + i \in 1 .. Len(s)
          /\ b[n - Len(a)] = s[(n - Len(a)) + i]
      BY <1>4, <3>2
    <3>4. QED
      BY <3>1, <3>3
  <2>4. QED
    BY <2>2, <2>3
<1>7. \A n \in 1 .. Len(t) : Appended(t[n])
  BY <1>6 DEF Tree
<1>8. Len(t) <= Cardinality(Started)
  BY <1>1, <1>2, <1>3, <1>5
<1>9. QED
  BY <1>5, <1>7, <1>8 DEF Tree, t

-----------------------------------------------------------------------------
(* Every step is one of the issuer's, the owner's, a holder's, an agent's  *)
(* or the clock's.                                                         *)
LEMMA LifecycleCases ==
    ASSUME LifecycleNext, NEW P,
           \A p \in Issuance : Issue(p) => P,
           PrintRoot => P,
           \A i \in 1 .. Cardinality(Issuance) : RemoveLeaf(i) => P,
           \A root \in printed \cup {NoTree} : Publish(root) => P,
           \A c \in Issuable : Prove(c) => P,
           \A caller \in Callers :
              \A s \in proofs \cup OwnSignals(caller) : Submit(caller, s) => P,
           \A account \in Callers : RevokeHolder(account) => P,
           TimePasses => P
    PROVE  P
BY DEF LifecycleNext

(* What prove prints is well typed, and bound to the holder. *)
LEMMA SignalsBound ==
    ASSUME NEW c \in Issuable, NEW root \in Root
    PROVE  /\ SignalsOf(c, root) \in PubSignals
           /\ SignalsOf(c, root).holderAddr
                = HolderOf[SignalsOf(c, root).nullifier.secret]
<1>1. c.secret \in Secret /\ c.expiry \in 0 .. Field - 1
  <2>1. c \in Credential
    BY IssueAssumption DEF Issuable
  <2>2. QED
    BY <2>1 DEF Credential
<1>2. c.expiry \in Uint
  BY <1>1, FieldAssumption DEF Uint
<1>3. HolderOf[c.secret] \in Account
  BY <1>1, HolderAssumption DEF Callers
<1>4. NullifierOf(c.secret, root) \in Nullifier
  BY <1>1 DEF NullifierOf, Nullifier, Wraps
<1>5. SignalsOf(c, root) \in PubSignals
  BY <1>2, <1>3, <1>4 DEF SignalsOf, PubSignals
<1>6. SignalsOf(c, root).nullifier.secret = c.secret
  BY DEF SignalsOf, NullifierOf
<1>7. QED
  BY <1>5, <1>6 DEF SignalsOf

(* So is what a user makes up for secrets of its own.                      *)
LEMMA OwnSignalsBound ==
    ASSUME currentRoot \in Root, NEW caller \in Callers,
           NEW s \in OwnSignals(caller)
    PROVE  s \in PubSignals /\ s.holderAddr = HolderOf[s.nullifier.secret]
<1>1. PICK k \in Secret, w \in Wraps, e \in Uint :
         /\ HolderOf[k] = caller
         /\ s = [nullifier  |-> [secret |-> k, root |-> currentRoot,
                                 wraps |-> w],
                 root       |-> currentRoot,
                 holderAddr |-> caller,
                 expiry     |-> e]
  BY DEF OwnSignals
<1>2. [secret |-> k, root |-> currentRoot, wraps |-> w] \in Nullifier
  BY DEF Nullifier
<1>3. caller \in Account
  BY DEF Callers
<1>4. QED
  BY <1>1, <1>2, <1>3 DEF PubSignals

(* Every step is one of the registry's, or leaves the registry alone.      *)
LEMMA StepOfRegistry ==
    ASSUME TypeOK, TreesInv, ProofsBound, [LifecycleNext]_lifecycleVars
    PROVE  [Next]_registryVars
<1>1. owner \in Callers /\ currentRoot \in Root
  BY DEF TypeOK, RolesTypeOK
<1>2. ASSUME NEW root \in printed \cup {NoTree}, Publish(root)
      PROVE  [Next]_registryVars
  <2>1. root \in Root
    BY NoTreeIsTree, TreesAreRoots DEF TreesInv
  <2>2. QED
    BY <1>1, <1>2, <2>1 DEF Publish, Next, Transaction
<1>3. ASSUME NEW caller \in Callers,
             NEW s \in proofs \cup OwnSignals(caller), Submit(caller, s)
      PROVE  [Next]_registryVars
  <2>1. s \in PubSignals
    BY <1>1, OwnSignalsBound DEF ProofsBound
  <2>2. QED
    BY <1>3, <2>1 DEF Submit, Next, Transaction
<1>4. ASSUME NEW account \in Callers, RevokeHolder(account)
      PROVE  [Next]_registryVars
  BY <1>1, <1>4 DEF RevokeHolder, Callers, Next, Transaction
<1>5. CASE TimePasses
  BY <1>5 DEF TimePasses, Next
<1>6. CASE UNCHANGED lifecycleVars
  BY <1>6 DEF lifecycleVars
<1>7. QED
  <2>. DEFINE P == [Next]_registryVars
  <2>1. ASSUME LifecycleNext PROVE P
    <3>1. /\ \A p \in Issuance : Issue(p) => P
          /\ PrintRoot => P
          /\ \A i \in 1 .. Cardinality(Issuance) : RemoveLeaf(i) => P
          /\ \A c \in Issuable : Prove(c) => P
      BY DEF Issue, PrintRoot, RemoveLeaf, Prove
    <3>. HIDE DEF P
    <3>2. /\ \A account \in Callers : RevokeHolder(account) => P
          /\ \A caller \in Callers :
                \A s \in proofs \cup OwnSignals(caller) :
                   Submit(caller, s) => P
          /\ \A root \in printed \cup {NoTree} : Publish(root) => P
          /\ TimePasses => P
      BY <1>2, <1>3, <1>4, <1>5 DEF P
    <3>3. QED
      BY <2>1, <3>1, <3>2, LifecycleCases
  <2>2. QED
    BY <1>6, <2>1

-----------------------------------------------------------------------------
(* What the step of an issue command does to the file, to its memory and   *)
(* to what is printed.                                                     *)
LEMMA IssueFacts ==
    ASSUME TreesInv, NEW p \in Issuance, Issue(p)
    PROVE  /\ UNCHANGED <<registryVars, proofs>>
           /\ file' \in {file, memory[p]} \cup Issuing!Unparsable
           /\ printed' \subseteq printed \cup {memory[p]}
           /\ printed \subseteq printed'
           /\ \E stage \in IssuePcs \ {"start"} :
                 issuePc' = [issuePc EXCEPT ![p] = stage]
           /\ \/ memory' = memory
              \/ /\ issuePc[p] = "start"
                 /\ issuePc' = [issuePc EXCEPT ![p] = "loaded"]
                 /\ memory' = [memory EXCEPT ![p] =
                         Append(IF Issuing!Parsed THEN file ELSE <<>>,
                                LeafOf[p])]
<1>1. UNCHANGED <<registryVars, proofs>>
  BY DEF Issue
<1>2. CASE Issuing!Load(p) /\ UNCHANGED printed
  <2>1. /\ issuePc[p] = "start"
        /\ issuePc' = [issuePc EXCEPT ![p] = "loaded"]
        /\ UNCHANGED file
        /\ memory' = [memory EXCEPT ![p] =
                         Append(IF Issuing!Parsed THEN file ELSE <<>>,
                                LeafOf[p])]
    BY <1>2 DEF Issuing!Load, Issuing!Loaded
  <2>2. QED
    BY <1>1, <1>2, <2>1 DEF IssuePcs
<1>3. CASE Issuing!LoadFails(p) /\ UNCHANGED printed
  BY <1>1, <1>3 DEF Issuing!LoadFails, IssuePcs
<1>4. CASE Issuing!Truncate(p) /\ UNCHANGED printed
  BY <1>1, <1>4 DEF Issuing!Truncate, Issuing!Unparsable, IssuePcs
<1>5. CASE Issuing!Write(p) /\ UNCHANGED printed
  <2>1. file' \in {memory[p], Garbled}
    BY <1>5 DEF Issuing!Write, Issuing!Overwritten
  <2>2. QED
    BY <1>1, <1>5, <2>1 DEF Issuing!Write, Issuing!Unparsable, IssuePcs
<1>6. CASE Issuing!Finish(p) /\ printed' = printed \cup {memory[p]}
  BY <1>1, <1>6 DEF Issuing!Finish, IssuePcs
<1>7. CASE Issuing!Crash(p) /\ UNCHANGED printed
  BY <1>1, <1>7 DEF Issuing!Crash, Issuing!Unparsable, IssuePcs
<1>8. QED
  BY <1>2, <1>3, <1>4, <1>5, <1>6, <1>7 DEF Issue

(* No race, crash or torn file makes a tree with a leaf that no command    *)
(* appended.                                                               *)
LEMMA IssueKeepsTrees ==
    ASSUME TreesInv, NEW p \in Issuance, Issue(p)
    PROVE  TreesInv'
<1>1. /\ file' \in {file, memory[p]} \cup Issuing!Unparsable
      /\ printed' \subseteq printed \cup {memory[p]}
      /\ \E stage \in IssuePcs \ {"start"} :
            issuePc' = [issuePc EXCEPT ![p] = stage]
      /\ \/ memory' = memory
         \/ /\ issuePc[p] = "start"
            /\ issuePc' = [issuePc EXCEPT ![p] = "loaded"]
            /\ memory' = [memory EXCEPT ![p] =
                    Append(IF Issuing!Parsed THEN file ELSE <<>>, LeafOf[p])]
  BY IssueFacts
<1>2. /\ issuePc \in [Issuance -> IssuePcs]
      /\ issuePc' \in [Issuance -> IssuePcs]
      /\ \A q \in Issuance : issuePc[q] # "start" => issuePc'[q] # "start"
  BY <1>1 DEF TreesInv
<1>3. \A s : Tree(s) => Tree(s)'
  BY <1>2, TreesStay
<1>4. /\ Issuing!Parsed => Tree(file)
      /\ \A q \in Issuance : Tree(memory[q])
      /\ \A r \in printed : Tree(r)
      /\ DOMAIN memory = Issuance
  BY DEF TreesInv
<1>5. DOMAIN memory' = Issuance
  BY <1>1, <1>4
<1>6. Issuing!Parsed' => Tree(file)'
  <2>1. SUFFICES ASSUME Issuing!Parsed' PROVE Tree(file)'
    OBVIOUS
  <2>2. Tree(file')
    BY <1>1, <1>4, <2>1, IssueAssumption DEF Issuing!Parsed
  <2>3. QED
    BY <1>3, <2>2 DEF Tree
<1>7. ASSUME NEW q \in Issuance
      PROVE  Tree(memory[q])'
  <2>1. CASE memory'[q] = memory[q]
    BY <1>3, <1>4, <2>1 DEF Tree
  <2>2. CASE memory'[q] # memory[q]
    <3> DEFINE old == IF Issuing!Parsed THEN file ELSE <<>>
    <3>1. /\ q = p /\ issuePc[p] = "start"
          /\ issuePc' = [issuePc EXCEPT ![p] = "loaded"]
          /\ memory'[q] = Append(old, LeafOf[p])
      BY <1>1, <1>4, <2>2
    <3>2. Tree(old)
      BY <1>4, NoTreeIsTree DEF NoTree
    <3> HIDE DEF old
    <3>3. QED
      BY <1>2, <3>1, <3>2, TreeGrows DEF Tree
  <2>3. QED
    BY <2>1, <2>2
<1>8. ASSUME NEW r \in printed'
      PROVE  Tree(r)'
  <2>1. Tree(r)
    BY <1>1, <1>4
  <2>2. QED
    BY <1>3, <2>1
<1>9. file' \in {NoFile} \cup Issuing!Unparsable' \cup Seq(Credential)
  BY <1>1, <1>4 DEF TreesInv, Tree, Issuing!Unparsable
<1>10. QED
  BY <1>2, <1>5, <1>6, <1>7, <1>8, <1>9 DEF TreesInv

(* Printing, removing, proving and what happens on the chain keep the      *)
(* trees too.                                                              *)
LEMMA OthersKeepTrees ==
    ASSUME TreesInv,
           \/ PrintRoot
           \/ \E i \in 1 .. Cardinality(Issuance) : RemoveLeaf(i)
           \/ UNCHANGED <<fileVars, printed>>
    PROVE  TreesInv'
<1>1. ASSUME NEW i \in 1 .. Cardinality(Issuance), RemoveLeaf(i)
      PROVE  TreesInv'
  <2>1. /\ file' = RemoveAt(file, i) /\ i \in DOMAIN file /\ Tree(file)
        /\ UNCHANGED <<issuePc, memory, printed>>
    BY <1>1 DEF RemoveLeaf, TreesInv
  <2>2. \A s : Tree(s) => Tree(s)'
    BY <2>1, TreesStay
  <2>3. Tree(file')
    BY <2>1, TreeShrinks
  <2>4. Tree(file)' /\ file' \in Seq(Credential)
    BY <2>2, <2>3 DEF Tree
  <2>5. \A p \in Issuance : Tree(memory[p])'
    BY <2>1 DEF TreesInv, Tree, Appended, Started
  <2>6. QED
    BY <2>1, <2>2, <2>4, <2>5 DEF TreesInv, Issuing!Unparsable
<1>2. CASE PrintRoot
  <2>1. /\ printed' = printed \cup {file} /\ Issuing!Parsed
        /\ UNCHANGED <<file, issuePc, memory>>
    BY <1>2 DEF PrintRoot, fileVars
  <2>2. /\ Tree(file)' /\ \A p \in Issuance : Tree(memory[p])'
        /\ \A r \in printed : Tree(r)'
    BY <2>1 DEF TreesInv, Tree, Appended, Started
  <2>3. \A r \in printed' : Tree(r)'
    BY <2>1, <2>2 DEF Tree
  <2>4. QED
    BY <2>1, <2>2, <2>3 DEF TreesInv, Issuing!Unparsable
<1>3. CASE UNCHANGED <<fileVars, printed>>
  <2>1. /\ Issuing!Parsed' => Tree(file)'
        /\ \A p \in Issuance : Tree(memory[p])'
    BY <1>3 DEF fileVars, TreesInv, Tree, Appended, Started, Issuing!Parsed
  <2>2. \A r \in printed' : Tree(r)'
    BY <1>3 DEF fileVars, TreesInv, Tree, Appended, Started
  <2>3. QED
    BY <1>3, <2>1, <2>2 DEF fileVars, TreesInv, Issuing!Unparsable
<1>4. QED
  BY <1>1, <1>2, <1>3

(* What the steps off the chain, and the rotation, leave of what is on it. *)
LEMMA OffChainFacts ==
    ASSUME TreesInv,
           \/ \E p \in Issuance : Issue(p)
           \/ PrintRoot
           \/ \E i \in 1 .. Cardinality(Issuance) : RemoveLeaf(i)
           \/ \E c \in Issuable : Prove(c)
    PROVE  /\ UNCHANGED registryVars
           /\ printed \subseteq printed'
           /\ \A p \in Issuance : issuePc[p] # "start"
                                    => issuePc'[p] # "start"
<1>1. ASSUME NEW p \in Issuance, Issue(p)
      PROVE  /\ UNCHANGED registryVars
             /\ printed \subseteq printed'
             /\ \A q \in Issuance : issuePc[q] # "start"
                                      => issuePc'[q] # "start"
  <2>1. PICK stage \in IssuePcs \ {"start"} :
           issuePc' = [issuePc EXCEPT ![p] = stage]
    BY <1>1, IssueFacts
  <2>2. \A q \in Issuance : issuePc[q] # "start" => issuePc'[q] # "start"
    BY <2>1 DEF TreesInv
  <2>3. QED
    BY <1>1, <2>2, IssueFacts
<1>2. CASE \/ PrintRoot
           \/ \E i \in 1 .. Cardinality(Issuance) : RemoveLeaf(i)
           \/ \E c \in Issuable : Prove(c)
  BY <1>2 DEF PrintRoot, RemoveLeaf, Prove, fileVars
<1>3. QED
  BY <1>1, <1>2

(* The steps off the chain touch no redemption, and take no root back.     *)
LEMMA OffChainKeeps ==
    ASSUME LInv,
           \/ \E p \in Issuance : Issue(p)
           \/ PrintRoot
           \/ \E i \in 1 .. Cardinality(Issuance) : RemoveLeaf(i)
           \/ \E c \in Issuable : Prove(c)
    PROVE  /\ TreesInv' /\ PublishedInv' /\ ProofsBound'
           /\ OnlyHolderRedeems' /\ RedeemedWereIssued'
<1>1. /\ UNCHANGED <<currentRoot, redemptions>>
      /\ printed \subseteq printed'
      /\ \A p \in Issuance : issuePc[p] # "start" => issuePc'[p] # "start"
  BY OffChainFacts DEF LInv, registryVars
<1>2. TreesInv'
  <2>1. CASE \E c \in Issuable : Prove(c)
    BY <2>1, OthersKeepTrees DEF Prove, LInv
  <2>2. CASE ~ \E c \in Issuable : Prove(c)
    BY <2>2, IssueKeepsTrees, OthersKeepTrees DEF LInv
  <2>3. QED
    BY <2>1, <2>2
<1>3. PublishedInv'
  BY <1>1 DEF LInv, PublishedInv, NoTree
<1>4. ProofsBound'
  <2>1. ASSUME NEW c \in Issuable, Prove(c)
        PROVE  ProofsBound'
    <3>1. file \in Root /\ proofs' = proofs \cup {SignalsOf(c, file)}
      BY <2>1, TreesAreRoots DEF Prove, InFile, LInv, TreesInv
    <3>2. QED
      BY <3>1, SignalsBound DEF LInv, ProofsBound
  <2>2. CASE UNCHANGED proofs
    BY <2>2 DEF LInv, ProofsBound
  <2>3. QED
    BY <2>1, <2>2 DEF Issue, PrintRoot, RemoveLeaf
<1>5. OnlyHolderRedeems'
  BY <1>1 DEF LInv, OnlyHolderRedeems
<1>6. RedeemedWereIssued'
  BY <1>1 DEF LInv, RedeemedWereIssued
<1>7. QED
  BY <1>2, <1>3, <1>4, <1>5, <1>6

(* Nor do rotation, revocation and time: the owner publishes what was      *)
(* printed.                                                                *)
LEMMA OnChainKeeps ==
    ASSUME LInv,
           \/ \E root \in printed \cup {NoTree} : Publish(root)
           \/ \E account \in Callers : RevokeHolder(account)
           \/ TimePasses
           \/ UNCHANGED lifecycleVars
    PROVE  /\ TreesInv' /\ PublishedInv' /\ ProofsBound'
           /\ OnlyHolderRedeems' /\ RedeemedWereIssued'
<1>1. /\ UNCHANGED <<file, issuePc, memory, printed, proofs, redemptions>>
      /\ UNCHANGED <<fileVars, printed>>
  BY DEF Publish, SetRoot, historyVars, RevokeHolder, Revoke, TimePasses,
         Tick, lifecycleVars, registryVars, fileVars
<1>2. TreesInv'
  BY <1>1, OthersKeepTrees DEF LInv
<1>3. PublishedInv'
  <2>1. ASSUME NEW root \in printed \cup {NoTree}, Publish(root)
        PROVE  PublishedInv'
    BY <1>1, <2>1 DEF Publish, SetRoot, PublishedInv, NoTree
  <2>2. CASE UNCHANGED currentRoot
    BY <1>1, <2>2 DEF LInv, PublishedInv, NoTree
  <2>3. QED
    BY <2>1, <2>2 DEF RevokeHolder, Revoke, TimePasses, Tick, storageVars,
                      lifecycleVars, registryVars
<1>4. ProofsBound' /\ OnlyHolderRedeems' /\ RedeemedWereIssued'
  BY <1>1 DEF LInv, ProofsBound, OnlyHolderRedeems, RedeemedWereIssued
<1>5. QED
  BY <1>2, <1>3, <1>4

(* What the verifier contract accepts is of a leaf of the published tree,  *)
(* whatever signals are submitted.                                         *)
LEMMA VerifiedIsIssued ==
    ASSUME LInv, NEW s \in PubSignals, s.root = currentRoot, VerifyProof(s)
    PROVE  /\ s.nullifier.root \in printed
           /\ \E p \in Issuance :
                 /\ issuePc[p] # "start"
                 /\ LeafOf[p].secret = s.nullifier.secret
                 /\ LeafOf[p].expiry = s.expiry
                 /\ LeafOf[p] \in ToSet(s.nullifier.root)
<1>1. /\ currentRoot \in Root /\ Leaves[currentRoot] = ToSet(currentRoot)
      /\ currentRoot \in Seq(Credential)
  BY RootAssumption DEF LInv, TypeOK
<1>2. PICK c \in ToSet(currentRoot) :
         /\ c.expiry = s.expiry % Field
         /\ Residue(s.nullifier) = NullifierOf(c.secret, currentRoot)
  BY <1>1 DEF VerifyProof, Satisfiable
<1>3. s.nullifier.wraps = 0 /\ s.expiry < Field
  BY DEF VerifyProof, CheckField
<1>4. c.expiry = s.expiry
  <2>1. s.expiry \in Nat
    BY FieldAssumption DEF PubSignals, Uint
  <2>2. s.expiry % Field = s.expiry
    BY <1>3, <2>1, FieldAssumption
  <2>3. QED
    BY <1>2, <2>2
<1>5. s.nullifier.secret = c.secret /\ s.nullifier.root = currentRoot
  <2>1. s.nullifier \in Nullifier
    BY DEF PubSignals
  <2>2. /\ Residue(s.nullifier).secret = s.nullifier.secret
        /\ Residue(s.nullifier).root = s.nullifier.root
    BY <2>1 DEF Residue, Nullifier
  <2>3. QED
    BY <1>2, <2>2 DEF NullifierOf
<1>6. currentRoot \in printed /\ Tree(currentRoot)
  BY <1>2, NoTreeIsTree DEF LInv, PublishedInv, TreesInv
<1>7. PICK n \in 1 .. Len(currentRoot) : c = currentRoot[n]
  BY <1>1 DEF ToSet
<1>8. Appended(c)
  BY <1>6, <1>7 DEF Tree
<1>9. QED
  BY <1>2, <1>4, <1>5, <1>6, <1>8 DEF Appended

(* A redemption is of its sender's own secret, and of an issued credential *)
(* below the root published at that moment.                                *)
LEMMA SubmitKeeps ==
    ASSUME LInv, NEW caller \in Callers,
           NEW s \in proofs \cup OwnSignals(caller), Submit(caller, s)
    PROVE  /\ TreesInv' /\ PublishedInv' /\ ProofsBound'
           /\ OnlyHolderRedeems' /\ RedeemedWereIssued'
<1>1. s \in PubSignals /\ s.holderAddr = HolderOf[s.nullifier.secret]
  BY OwnSignalsBound DEF LInv, TypeOK, ProofsBound
<1>2. /\ RedeemProof(caller, s) /\ s.holderAddr = caller
      /\ s.root = currentRoot /\ VerifyProof(s)
  BY DEF Submit, RedeemProof
<1>3. /\ UNCHANGED <<file, issuePc, memory, printed, proofs, currentRoot>>
      /\ UNCHANGED <<fileVars, printed>>
  BY DEF Submit, RedeemProof, Redeem, fileVars
<1>4. PICK n \in Nat : n = Len(redemptions)
  BY DEF LInv, TypeOK
<1> DEFINE new == [holder |-> caller, nullifier |-> s.nullifier,
                   expiry |-> s.expiry]
<1>5. /\ Len(redemptions') = n + 1
      /\ \A i \in 1 .. n : redemptions'[i] = redemptions[i]
      /\ redemptions'[n + 1] = new
  BY <1>1, <1>2, <1>4, RedeemFacts DEF LInv
<1>6. /\ new.holder = caller /\ new.nullifier = s.nullifier
      /\ new.expiry = s.expiry
  OBVIOUS
<1> HIDE DEF new
<1>7. \A i \in 1 .. n + 1 : i \in 1 .. n \/ i = n + 1
  OBVIOUS
<1>8. OnlyHolderRedeems'
  <2>1. ASSUME NEW i \in 1 .. n + 1
        PROVE  redemptions'[i].holder
                 = HolderOf[redemptions'[i].nullifier.secret]
    <3>1. CASE i \in 1 .. n
      BY <1>4, <1>5, <3>1 DEF LInv, OnlyHolderRedeems
    <3>2. CASE i = n + 1
      BY <1>1, <1>2, <1>5, <1>6, <3>2
    <3>3. QED
      BY <1>7, <3>1, <3>2
  <2>2. QED
    BY <1>5, <2>1 DEF OnlyHolderRedeems
<1>9. RedeemedWereIssued'
  <2> DEFINE Backed(r) ==
          /\ r.nullifier.root \in printed
          /\ \E p \in Issuance :
                /\ issuePc[p] # "start"
                /\ LeafOf[p].secret = r.nullifier.secret
                /\ LeafOf[p].expiry = r.expiry
                /\ LeafOf[p] \in ToSet(r.nullifier.root)
  <2>1. \A i \in 1 .. n : Backed(redemptions[i])
    BY <1>4 DEF LInv, RedeemedWereIssued
  <2>2. Backed(new)
    BY <1>1, <1>2, <1>6, VerifiedIsIssued
  <2>3. \A i \in 1 .. n + 1 : Backed(redemptions'[i])
    <3> HIDE DEF Backed
    <3>1. QED
      BY <1>5, <1>7, <2>1, <2>2
  <2>4. QED
    BY <1>3, <1>5, <2>3 DEF RedeemedWereIssued
<1>10. TreesInv' /\ PublishedInv' /\ ProofsBound'
  <2>1. TreesInv'
    BY <1>3, OthersKeepTrees DEF LInv
  <2>2. QED
    BY <1>3, <2>1 DEF LInv, PublishedInv, ProofsBound, NoTree
<1>11. QED
  BY <1>8, <1>9, <1>10

(* The invariant holds in every reachable state. *)
LEMMA LifecycleInvariance == LifecycleSpec => []LInv
<1>1. LifecycleInit => LInv
  <2>. SUFFICES ASSUME LifecycleInit PROVE LInv
    OBVIOUS
  <2>1. TypeOK
    BY InitTyping DEF LifecycleInit
  <2>2. /\ file = NoFile /\ memory = [p \in Issuance |-> <<>>]
        /\ issuePc = [p \in Issuance |-> "start"]
        /\ printed = {} /\ currentRoot = NoTree /\ proofs = {}
        /\ redemptions = <<>>
    BY DEF LifecycleInit, Init, Issuing!FileInit
  <2>3. TreesInv
    BY <2>2, IssueAssumption, NoTreeIsTree
       DEF TreesInv, IssuePcs, Issuing!Parsed, NoTree
  <2>4. PublishedInv /\ ProofsBound /\ OnlyHolderRedeems /\ RedeemedWereIssued
    BY <2>2 DEF PublishedInv, ProofsBound, OnlyHolderRedeems,
                RedeemedWereIssued
  <2>5. QED
    BY <2>1, <2>3, <2>4 DEF LInv
<1>2. ASSUME LInv, [LifecycleNext]_lifecycleVars
      PROVE  LInv'
  <2>1. TypeOK'
    BY <1>2, StepOfRegistry, StepTyping DEF LInv
  <2> DEFINE P == /\ TreesInv' /\ PublishedInv' /\ ProofsBound'
                  /\ OnlyHolderRedeems' /\ RedeemedWereIssued'
  <2>2. P
    BY <1>2, OffChainKeeps, OnChainKeeps, SubmitKeeps DEF LifecycleNext
  <2>3. QED
    BY <2>1, <2>2 DEF LInv
<1>3. QED
  BY <1>1, <1>2, PTL DEF LifecycleSpec

-----------------------------------------------------------------------------
(* Issuing, printing and proving change nothing in the registry, and what  *)
(* is published and submitted is what anyone could: the lifecycle          *)
(* implements the registry's specification.                                *)
THEOREM RegistryImplementedInLifecycle == LifecycleSpec => Spec
<1>1. LifecycleInit => Init
  BY DEF LifecycleInit
<1>2. LInv /\ [LifecycleNext]_lifecycleVars => [Next]_registryVars
  BY StepOfRegistry DEF LInv
<1>3. QED
  BY <1>1, <1>2, LifecycleInvariance, PTL DEF LifecycleSpec, Spec

(* Whoever submits a calldata, only the account it was proved for is       *)
(* verified by it.                                                         *)
THEOREM CalldataUselessToOthers == LifecycleSpec => []OnlyHolderRedeems
<1>1. LInv => OnlyHolderRedeems
  BY DEF LInv
<1>2. QED
  BY <1>1, LifecycleInvariance, PTL

(* What was redeemed had been appended by an issue command, with that      *)
(* expiry, and was under a printed root -- for any number of commands that *)
(* race and are killed, of removals and of rotations, and whatever signals *)
(* users make up (issue, root, setRoot, prove and redeemProof, each on     *)
(* what it saw last).                                                      *)
THEOREM RegistryNeverAhead == LifecycleSpec => []RedeemedWereIssued
<1>1. LInv => RedeemedWereIssued
  BY DEF LInv
<1>2. QED
  BY <1>1, LifecycleInvariance, PTL

=============================================================================
