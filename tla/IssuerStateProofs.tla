-------------------------- MODULE IssuerStateProofs --------------------------
(***************************************************************************)
(* Proofs about the state file and the issue commands, for any number of   *)
(* commands and of crashes: what overlapping commands can lose, and what   *)
(* stays true as long as none overlap.                                     *)
(***************************************************************************)
EXTENDS IssuerState, FiniteSetTheorems, TLAPS

Active == {"loaded", "truncated", "saved"}
Stages == Active \cup {"start", "done", "failed"}

Shapes ==
    /\ file \in {NoFile} \cup Unparsable \cup Seq(Leaf)
    /\ pc \in [Issuance -> Stages]
    /\ state \in [Issuance -> Seq(Leaf)]
    /\ receipts \in [Issuance -> [index : Nat, root : Seq(Leaf)]]
    /\ printed \subseteq Seq(Leaf)
    /\ crashes \in Nat
    /\ overlap \in [Issuance -> SUBSET Issuance]

(* What is in a process's memory ends with the leaf it issues. *)
EndsWith(s, leaf) == Len(s) > 0 /\ s[Len(s)] = leaf

Memory(p) ==
    /\ pc[p] = "start" => overlap[p] = {}
    /\ pc[p] \in Active => EndsWith(state[p], LeafOf[p])
    /\ pc[p] = "done" =>
          /\ EndsWith(receipts[p].root, LeafOf[p])
          /\ receipts[p].root \in printed
          /\ receipts[p].index = Len(receipts[p].root) - 1

(* An issuance that overlapped with none: while it runs, it is alone; once *)
(* it has written, every content has its leaf, and so has every process    *)
(* that has loaded the file since.                                         *)
Undisturbed(p) ==
    /\ pc[p] \in Active => \A q \in Issuance \ {p} : pc[q] \notin Active
    /\ pc[p] = "truncated" => file = Empty
    /\ pc[p] \in {"saved", "done"} =>
          /\ file # NoFile
          /\ Parsed => LeafOf[p] \in ToSet(file)
          /\ \A q \in Issuance \ {p} :
                pc[q] \in Active => LeafOf[p] \in ToSet(state[q])

SharedInv ==
    /\ Shapes
    /\ \A p \in Issuance : Memory(p) /\ (overlap[p] = {} => Undisturbed(p))

(* A list of leaves that every content, now or about to be written, has as *)
(* its beginning.                                                          *)
Kept(leaves) ==
    /\ Parsed => IsPrefix(leaves, file)
    /\ \A q \in Issuance : pc[q] \in Active => IsPrefix(leaves, state[q])

(* While no issuances have overlapped: the file is the running one's view  *)
(* of it, broken only after a crash, and the roots that were printed are   *)
(* kept, and of one line.                                                  *)
AloneInv ==
    /\ \A p \in Issuance :
          /\ pc[p] = "loaded" => (Parsed => IsPrefix(file, state[p]))
          /\ pc[p] = "saved" => file = state[p]
    /\ \A r \in printed : file # NoFile /\ Kept(r)
    /\ \A r, s \in printed : IsPrefix(r, s) \/ IsPrefix(s, r)
    /\ file \in Unparsable =>
          crashes > 0 \/ \E p \in Issuance : pc[p] = "truncated"

IssuerInv == SharedInv /\ (NoOverlap => AloneInv)

(* The file is unusable, and nobody is about to write it. *)
Broken == Running = {} /\ file \in Unparsable

(* The leaves of a list were each appended by an issuance of its own,      *)
(* which has loaded the file.                                              *)
AppendedBy(s, by) ==
    /\ by \in Seq(Issuance) /\ IsInjective(by) /\ Len(by) = Len(s)
    /\ \A i \in 1 .. Len(s) :
          s[i] = LeafOf[by[i]] /\ pc[by[i]] # "start" /\ state[by[i]] # <<>>

Once(s) == \E by \in Seq(Issuance) : AppendedBy(s, by)

(* Every content and every process's memory is such a list; and the        *)
(* commands that ended without an answer although they had loaded the file *)
(* were killed, or failed to write.                                        *)
Lost == {p \in Issuance : pc[p] = "failed" /\ state[p] # <<>>}

OnceInv ==
    /\ Parsed => Once(file)
    /\ \A p \in Issuance : pc[p] \in Active => Once(state[p])
    /\ \A p \in Issuance : pc[p] = "start" => state[p] = <<>>
    /\ Cardinality(Lost) <= crashes

-----------------------------------------------------------------------------
(* Appending a leaf, as issue does, keeps the list below it and puts the   *)
(* leaf last.                                                              *)
LEMMA AppendFacts ==
    ASSUME NEW s \in Seq(Leaf), NEW e \in Leaf
    PROVE  /\ Append(s, e) \in Seq(Leaf)
           /\ EndsWith(Append(s, e), e)
           /\ e \in ToSet(Append(s, e))
           /\ ToSet(s) \subseteq ToSet(Append(s, e))
           /\ IsPrefix(s, Append(s, e))
BY DEF EndsWith, ToSet, IsPrefix

(* What is at the beginning of a list stays there when a leaf is appended. *)
LEMMA PrefixAppend ==
    ASSUME NEW s \in Seq(Leaf), NEW t \in Seq(Leaf),
           NEW e \in Leaf, IsPrefix(s, t)
    PROVE  IsPrefix(s, Append(t, e))
BY DEF IsPrefix

(* A list is at its own beginning.                                         *)
LEMMA PrefixSelf ==
    ASSUME NEW s \in Seq(Leaf)
    PROVE  IsPrefix(s, s)
BY DEF IsPrefix

(* The empty list is at the beginning of every list.                       *)
LEMMA EmptyPrefix ==
    ASSUME NEW s \in Seq(Leaf)
    PROVE  IsPrefix(<<>>, s)
BY DEF IsPrefix

(* The leaves of a prefix have the same indices in the longer list.        *)
LEMMA PrefixElement ==
    ASSUME NEW s \in Seq(Leaf), NEW t \in Seq(Leaf), IsPrefix(s, t),
           NEW i \in 1 .. Len(s)
    PROVE  i <= Len(t) /\ t[i] = s[i]
<1>1. Len(s) <= Len(t) /\ Len(s) \in Nat /\ Len(t) \in Nat
  BY DEF IsPrefix
<1>2. SubSeq(s, 1, Len(s))[i] = s[i] /\ SubSeq(t, 1, Len(s))[i] = t[i]
  BY <1>1
<1>3. QED
  BY <1>1, <1>2 DEF IsPrefix

(* The leaf a list ends with is in it.                                     *)
LEMMA LastInSet ==
    ASSUME NEW s \in Seq(Leaf), NEW e, EndsWith(s, e)
    PROVE  e \in ToSet(s)
BY DEF EndsWith, ToSet

-----------------------------------------------------------------------------
(* Without a state file and before any command the invariant holds.        *)
LEMMA InitEstablishes ==
    ASSUME Init
    PROVE  IssuerInv
<1>1. Shapes
  BY DEF Init, FileInit, Shapes, Stages, NoReceipt
<1>2. ASSUME NEW p \in Issuance
      PROVE  Memory(p) /\ Undisturbed(p)
  BY DEF Init, FileInit, Memory, Undisturbed, Active
<1>3. AloneInv
  BY FileAssumption DEF Init, FileInit, AloneInv
<1>4. QED
  BY <1>1, <1>2, <1>3 DEF IssuerInv, SharedInv

(* LoadOrCreateState and the append: the process takes over every leaf     *)
(* that a finished, undisturbed issuance has put into the file.            *)
LEMMA LoadKeepsShared ==
    ASSUME SharedInv, NEW p \in Issuance, Begin(p)
    PROVE  SharedInv'
<1>1. /\ pc[p] = "start"
      /\ state' = [state EXCEPT ![p] = Append(Loaded, LeafOf[p])]
      /\ pc' = [pc EXCEPT ![p] = "loaded"]
      /\ UNCHANGED <<file, receipts, printed, crashes>>
      /\ file \notin Unparsable
  BY DEF Begin, Load, Loadable, told
<1>2. /\ overlap'[p] = Running
      /\ \A q \in Running : overlap'[q] = overlap[q] \cup {p}
      /\ \A q \in Issuance \ (Running \cup {p}) : overlap'[q] = overlap[q]
      /\ overlap' \in [Issuance -> SUBSET Issuance]
  BY <1>1 DEF Begin, Load, SharedInv, Shapes, Running
<1>3. Loaded \in Seq(Leaf) /\ LeafOf[p] \in Leaf
  BY LeafAssumption DEF Loaded, Parsed
<1>4. Shapes'
  BY <1>1, <1>2, <1>3, AppendFacts DEF SharedInv, Shapes, Stages, Active
<1>5. ASSUME NEW q \in Issuance
      PROVE  Memory(q)'
  <2>1. CASE q = p
    BY <1>1, <1>3, <2>1, AppendFacts DEF SharedInv, Shapes, Memory, Active
  <2>2. CASE q # p
    BY <1>1, <1>2, <2>2 DEF SharedInv, Shapes, Memory, Active, Running
  <2>3. QED
    BY <2>1, <2>2
<1>6. ASSUME NEW q \in Issuance, overlap'[q] = {}
      PROVE  Undisturbed(q)'
  <2>1. CASE q = p
    BY <1>1, <1>2, <1>6, <2>1
       DEF SharedInv, Shapes, Undisturbed, Active, Running
  <2>2. CASE q # p
    <3>1. q \notin Running /\ overlap[q] = {}
      BY <1>2, <1>6, <2>2
    <3>2. pc'[q] = pc[q] /\ pc[q] \notin Active
      BY <1>1, <2>2, <3>1 DEF SharedInv, Shapes, Running, Active
    <3>3. CASE pc[q] = "done"
      <4>1. file \in Seq(Leaf) /\ LeafOf[q] \in ToSet(file)
        BY <1>1, <3>1, <3>3 DEF SharedInv, Shapes, Undisturbed, Parsed
      <4>2. LeafOf[q] \in ToSet(state'[p])
        <5>1. state'[p] = Append(file, LeafOf[p])
          BY <1>1, <4>1 DEF Loaded, Parsed, SharedInv, Shapes
        <5>2. QED
          BY <1>3, <4>1, <5>1, AppendFacts
      <4>3. QED
        BY <1>1, <2>2, <3>1, <3>2, <3>3, <4>2
           DEF SharedInv, Shapes, Undisturbed, Active, Parsed
    <3>4. CASE pc[q] # "done"
      BY <3>2, <3>4 DEF Undisturbed, Active
    <3>5. QED
      BY <3>3, <3>4
  <2>3. QED
    BY <2>1, <2>2
<1>7. QED
  BY <1>4, <1>5, <1>6 DEF SharedInv

(* What a write leaves is the writer's content, or nothing that parses. *)
LEMMA WriteFacts ==
    ASSUME SharedInv, NEW p \in Issuance, Save(p)
    PROVE  /\ file' \in {state[p], Garbled}
           /\ file = Empty => file' = state[p]
           /\ Parsed' => file' = state[p]
           /\ state[p] \in Seq(Leaf)
           /\ file' # NoFile
<1>1. file' \in {state[p], Garbled} /\ (file = Empty => file' = state[p])
  BY DEF Save, Write, Overwritten
<1>2. state[p] \in Seq(Leaf)
  BY DEF SharedInv, Shapes
<1>3. QED
  BY <1>1, <1>2, FileAssumption DEF Parsed, Unparsable

(* The rest of an issue command, its failures and its crashes keep the     *)
(* part of the invariant that holds with any number of processes.          *)
LEMMA OthersKeepShared ==
    ASSUME SharedInv, NEW p \in Issuance,
           Unseen(p) \/ Save(p) \/ PrintResult(p)
    PROVE  SharedInv'
<1>1. UNCHANGED <<state, overlap>>
  BY DEF Unseen, LoadFails, Truncate, Save, Write, PrintResult, Finish,
         Crash, told
<1>2. PICK stage \in Stages \ {"start", "loaded"} :
         pc' = [pc EXCEPT ![p] = stage]
  BY DEF Unseen, LoadFails, Truncate, Save, Write, PrintResult, Finish,
         Crash, told, Stages, Active
<1>3. \A q \in Issuance : pc'[q] = IF q = p THEN stage ELSE pc[q]
  BY <1>2 DEF SharedInv, Shapes
<1>4. pc'[p] \in Active => pc[p] \in Active
  BY <1>3 DEF Unseen, LoadFails, Truncate, Save, Write, PrintResult, Finish,
              Crash, told, Active,
              SharedInv, Shapes
<1>5. file' \in {file, state[p]} \cup Unparsable
  BY WriteFacts DEF Unseen, LoadFails, Truncate, Save, Write, PrintResult,
                    Finish, Crash, told, Unparsable
<1>6. \/ UNCHANGED <<receipts, printed>>
      \/ /\ pc[p] = "saved" /\ stage = "done"
         /\ receipts' = [receipts EXCEPT ![p] =
                            [index |-> Len(state[p]) - 1, root |-> state[p]]]
         /\ printed' = printed \cup {state[p]}
  <2>1. CASE PrintResult(p)
    BY <1>3, <2>1 DEF PrintResult, Finish, told, SharedInv, Shapes
  <2>2. CASE ~ PrintResult(p)
    BY <2>2 DEF Unseen, LoadFails, Truncate, Save, Write, Crash, told
  <2>3. QED
    BY <2>1, <2>2
<1>7. Shapes'
  <2>1. receipts' \in [Issuance -> [index : Nat, root : Seq(Leaf)]]
    <3>1. CASE UNCHANGED receipts
      BY <3>1 DEF SharedInv, Shapes
    <3>2. CASE ~ UNCHANGED receipts
      <4>1. EndsWith(state[p], LeafOf[p]) /\ state[p] \in Seq(Leaf)
        BY <1>6, <3>2 DEF SharedInv, Shapes, Memory, Active
      <4>2. Len(state[p]) - 1 \in Nat
        BY <4>1 DEF EndsWith
      <4> DEFINE receipt == [index |-> Len(state[p]) - 1, root |-> state[p]]
      <4>3. receipt \in [index : Nat, root : Seq(Leaf)]
        BY <4>1, <4>2
      <4>4. receipts' = [receipts EXCEPT ![p] = receipt]
        BY <1>6, <3>2
      <4> HIDE DEF receipt
      <4>5. QED
        BY <4>3, <4>4 DEF SharedInv, Shapes
    <3>3. QED
      BY <3>1, <3>2
  <2>2. crashes' \in Nat
    BY DEF Unseen, LoadFails, Truncate, Save, Write, PrintResult, Finish,
           Crash, told, SharedInv, Shapes
  <2>3. pc' \in [Issuance -> Stages]
    BY <1>2 DEF SharedInv, Shapes
  <2>4. file' \in {NoFile} \cup Unparsable \cup Seq(Leaf)
    BY <1>5 DEF SharedInv, Shapes
  <2>5. /\ state' \in [Issuance -> Seq(Leaf)]
        /\ printed' \subseteq Seq(Leaf)
        /\ overlap' \in [Issuance -> SUBSET Issuance]
    BY <1>1, <1>6 DEF SharedInv, Shapes
  <2>6. QED
    BY <2>1, <2>2, <2>3, <2>4, <2>5 DEF Shapes
<1>8. ASSUME NEW q \in Issuance
      PROVE  Memory(q)'
  <2>1. CASE q = p
    <3>1. CASE stage = "done"
      <4>1. (pc[p] = "saved" /\ ~ UNCHANGED receipts) \/ PrintResult(p)
        BY <1>3, <3>1 DEF Unseen, LoadFails, Truncate, Save, Write,
                          PrintResult, Finish, Crash, told,
                          SharedInv, Shapes
      <4>2. /\ pc[p] = "saved"
            /\ receipts'[p] = [index |-> Len(state[p]) - 1, root |-> state[p]]
        BY <1>6, <4>1 DEF PrintResult, Finish, told, SharedInv, Shapes
      <4>3. QED
        <5>1. EndsWith(state[p], LeafOf[p])
          BY <4>2 DEF SharedInv, Memory, Active
        <5>2. state[p] \in printed'
          BY <1>6, <3>1, <4>1 DEF PrintResult
        <5>3. QED
          BY <1>3, <2>1, <3>1, <4>2, <5>1, <5>2 DEF Memory, Active
    <3>2. CASE stage # "done"
      BY <1>1, <1>2, <1>3, <1>4, <2>1, <3>2 DEF SharedInv, Memory, Active
    <3>3. QED
      BY <3>1, <3>2
  <2>2. CASE q # p
    <3>1. Memory(q)
      BY DEF SharedInv
    <3>2. /\ pc'[q] = pc[q] /\ overlap'[q] = overlap[q]
          /\ state'[q] = state[q] /\ receipts'[q] = receipts[q]
          /\ printed \subseteq printed'
      BY <1>1, <1>3, <1>6, <2>2 DEF SharedInv, Shapes
    <3>3. QED
      BY <3>1, <3>2 DEF Memory
  <2>3. QED
    BY <2>1, <2>2
<1>9. ASSUME NEW q \in Issuance, overlap'[q] = {}
      PROVE  Undisturbed(q)'
  <2>1. Undisturbed(q)
    BY <1>1, <1>9 DEF SharedInv
  <2>2. pc'[q] \in Active =>
            \A r \in Issuance \ {q} : pc'[r] \notin Active
    BY <1>3, <1>4, <2>1 DEF Undisturbed
  <2>3. pc'[q] = "truncated" => file' = Empty
    <3>1. CASE q = p
      BY <1>3, <3>1 DEF Unseen, LoadFails, Truncate, Save, Write,
                        PrintResult, Finish, Crash, told,
                        SharedInv, Shapes
    <3>2. CASE q # p /\ pc[q] = "truncated"
      <4>1. pc[p] \notin Active /\ file = Empty
        BY <2>1, <3>2 DEF Undisturbed, Active
      <4>2. LoadFails(p)
        BY <4>1 DEF Unseen, LoadFails, Truncate, Save, Write, PrintResult,
                    Finish, Crash, told, Active,
                    Running
      <4>3. QED
        BY <4>1, <4>2 DEF LoadFails
    <3>3. QED
      BY <1>3, <3>1, <3>2
  <2>4. ASSUME pc'[q] \in {"saved", "done"}
        PROVE  /\ file' # NoFile
               /\ Parsed' => LeafOf[q] \in ToSet(file')
               /\ \A r \in Issuance \ {q} :
                     pc'[r] \in Active => LeafOf[q] \in ToSet(state'[r])
    <3>1. CASE q = p
      <4>1. Save(p) \/ PrintResult(p)
        BY <1>3, <2>4, <3>1
           DEF Unseen, LoadFails, Truncate, Save, Write, PrintResult, Finish,
               Crash, told, SharedInv, Shapes
      <4>2. \A r \in Issuance \ {q} : pc'[r] \notin Active
        BY <1>3, <2>1, <3>1, <4>1 DEF Undisturbed, Save, Write, PrintResult,
                                      Finish, Active
      <4>3. CASE Save(p)
        <5>1. LeafOf[q] \in ToSet(state[p])
          BY <3>1, <4>3, LastInSet DEF Save, Write, SharedInv, Shapes,
                                       Memory, Active
        <5>2. QED
          BY <4>2, <4>3, <5>1, WriteFacts
      <4>4. CASE PrintResult(p)
        BY <2>1, <3>1, <4>2, <4>4 DEF PrintResult, Finish, told, Undisturbed,
                                      Parsed
      <4>5. QED
        BY <4>1, <4>3, <4>4
    <3>2. CASE q # p
      <4>1. pc[q] \in {"saved", "done"}
        BY <1>3, <2>4, <3>2
      <4>2. \A r \in Issuance \ {q} :
               pc'[r] \in Active => LeafOf[q] \in ToSet(state'[r])
        BY <1>1, <1>3, <1>4, <2>1, <4>1 DEF Undisturbed
      <4>3. CASE UNCHANGED file
        BY <2>1, <4>1, <4>2, <4>3 DEF Undisturbed, Parsed
      <4>4. CASE Truncate(p) \/ Crash(p)
        <5>1. file' = file \/ file' \in Unparsable
          BY <4>4 DEF Truncate, Crash, Unparsable
        <5>2. file' \in Unparsable => file' # NoFile /\ ~ Parsed'
          BY FileAssumption DEF Parsed
        <5>3. QED
          BY <4>2, <4>3, <5>1, <5>2
      <4>5. CASE Save(p)
        <5>1. LeafOf[q] \in ToSet(state[p])
          BY <2>1, <3>2, <4>1, <4>5 DEF Undisturbed, Save, Write, Active
        <5>2. QED
          BY <4>2, <4>5, <5>1, WriteFacts
      <4>6. QED
        BY <4>3, <4>4, <4>5 DEF Unseen, LoadFails, PrintResult, Finish
    <3>3. QED
      BY <3>1, <3>2
  <2>5. QED
    BY <2>2, <2>3, <2>4 DEF Undisturbed
<1>10. QED
  BY <1>7, <1>8, <1>9 DEF SharedInv

(* kycctl root touches neither file nor process.                           *)
LEMMA RootKeepsShared ==
    ASSUME SharedInv, PrintRoot
    PROVE  SharedInv'
<1>1. /\ UNCHANGED <<file, pc, state, crashes, receipts, overlap>>
      /\ printed' = printed \cup {file} /\ file \in Seq(Leaf)
  BY DEF PrintRoot, fileVars, Parsed
<1>2. Shapes'
  BY <1>1 DEF SharedInv, Shapes
<1>3. QED
  BY <1>1, <1>2 DEF SharedInv, Memory, Undisturbed, Parsed

-----------------------------------------------------------------------------
(* What has not overlapped yet had not before. *)
LEMMA OverlapGrows ==
    ASSUME SharedInv, Next, NoOverlap'
    PROVE  NoOverlap
<1>1. ASSUME NEW p \in Issuance, Begin(p)
      PROVE  NoOverlap
  BY <1>1 DEF Begin, Load, SharedInv, Shapes, Memory, NoOverlap
<1>2. CASE UNCHANGED overlap
  BY <1>2 DEF NoOverlap
<1>3. QED
  BY <1>1, <1>2 DEF Next, Issue, Unseen, LoadFails, Truncate, Save, Write,
                    PrintResult, Finish, Crash, told,
                    PrintRoot, fileVars

(* With one command at a time, a load extends what was there.              *)
LEMMA LoadKeepsAlone ==
    ASSUME SharedInv, AloneInv, NEW p \in Issuance, Begin(p), NoOverlap'
    PROVE  AloneInv'
<1>1. /\ pc[p] = "start"
      /\ state' = [state EXCEPT ![p] = Append(Loaded, LeafOf[p])]
      /\ pc' = [pc EXCEPT ![p] = "loaded"]
      /\ UNCHANGED <<file, receipts, printed, crashes>>
      /\ file \notin Unparsable
  BY DEF Begin, Load, Loadable, told
<1>2. \A q \in Issuance : pc[q] \notin Active
  BY DEF Begin, Load, NoOverlap, SharedInv, Shapes, Running, Active
<1>3. /\ \A q \in Issuance : pc'[q] = IF q = p THEN "loaded" ELSE pc[q]
      /\ state'[p] = Append(Loaded, LeafOf[p])
  BY <1>1 DEF SharedInv, Shapes
<1>4. ASSUME NEW leaves \in Seq(Leaf), Kept(leaves), file # NoFile
      PROVE  Kept(leaves)'
  <2>1. file \in Seq(Leaf) /\ Loaded = file /\ IsPrefix(leaves, file)
    BY <1>1, <1>4 DEF SharedInv, Shapes, Kept, Parsed, Loaded
  <2>2. IsPrefix(leaves, state'[p])
    BY <1>3, <2>1, PrefixAppend, LeafAssumption
  <2>3. QED
    BY <1>1, <1>2, <1>3, <2>1, <2>2 DEF Kept, Parsed
<1>5. ASSUME NEW q \in Issuance
      PROVE  /\ pc'[q] = "loaded" => (Parsed' => IsPrefix(file', state'[q]))
             /\ pc'[q] = "saved" => file' = state'[q]
  <2>1. CASE q = p
    <3>1. ASSUME Parsed
          PROVE  IsPrefix(file, Append(Loaded, LeafOf[p]))
      <4>1. file \in Seq(Leaf) /\ Loaded = file /\ LeafOf[p] \in Leaf
        BY <3>1, LeafAssumption DEF Parsed, Loaded
      <4>2. IsPrefix(file, Append(file, LeafOf[p]))
        BY <4>1, AppendFacts
      <4>3. QED
        BY <4>1, <4>2
    <3>2. /\ pc'[q] = "loaded" /\ state'[q] = Append(Loaded, LeafOf[p])
          /\ file' = file /\ (Parsed' <=> Parsed)
      BY <1>1, <1>3, <2>1 DEF Parsed
    <3>3. Parsed' => IsPrefix(file', state'[q])
      BY <3>1, <3>2
    <3>4. QED
      BY <3>2, <3>3
  <2>2. CASE q # p
    BY <1>2, <1>3, <2>2 DEF Active
  <2>3. QED
    BY <2>1, <2>2
<1>6. \A r \in printed : file # NoFile /\ Kept(r)'
  BY <1>4 DEF AloneInv, SharedInv, Shapes
<1>7. QED
  BY <1>1, <1>5, <1>6 DEF AloneInv

(* With one command at a time, truncation, write, answer and crash keep    *)
(* every printed list at the beginning of the contents.                    *)
LEMMA OthersKeepAlone ==
    ASSUME SharedInv, AloneInv, NoOverlap, SharedInv', NoOverlap',
           NEW p \in Issuance,
           Unseen(p) \/ Save(p) \/ PrintResult(p)
    PROVE  AloneInv'
<1>1. UNCHANGED state
  BY DEF Unseen, LoadFails, Truncate, Save, Write, PrintResult, Finish,
         Crash, told
<1>2. PICK stage \in Stages \ {"start", "loaded"} :
         \A q \in Issuance : pc'[q] = IF q = p THEN stage ELSE pc[q]
  BY DEF Unseen, LoadFails, Truncate, Save, Write, PrintResult, Finish,
         Crash, told, Stages, Active,
         SharedInv, Shapes
<1>3. pc'[p] \in Active => pc[p] \in Active
  BY <1>2 DEF Unseen, LoadFails, Truncate, Save, Write, PrintResult, Finish,
              Crash, told, Active,
              SharedInv, Shapes
<1>4. /\ file' \in {file, state[p]} \cup Unparsable
      /\ file' # file => pc[p] \in Active
  BY WriteFacts DEF Unseen, LoadFails, Truncate, Save, Write, PrintResult,
                    Finish, Crash, told,
                    Unparsable, Active
<1>5. pc[p] \in Active => \A q \in Issuance \ {p} : pc[q] \notin Active
  BY DEF SharedInv, NoOverlap, Undisturbed
<1>6. pc[p] \notin Active => LoadFails(p)
  BY DEF Unseen, Truncate, Save, Write, PrintResult, Finish, Crash,
         Active, Running
<1>7. ASSUME NEW leaves \in Seq(Leaf), Kept(leaves)
      PROVE  Kept(leaves)'
  <2>1. ASSUME Parsed'
        PROVE  IsPrefix(leaves, file')
    <3>1. file' = file \/ (file' = state[p] /\ pc[p] \in Active)
      <4>1. file' \notin Unparsable
        BY <2>1, FileAssumption DEF Parsed
      <4>2. QED
        BY <1>4, <4>1
    <3>2. QED
      BY <1>7, <2>1, <3>1 DEF Kept, Parsed
  <2>2. \A q \in Issuance : pc'[q] \in Active => IsPrefix(leaves, state'[q])
    BY <1>1, <1>2, <1>3, <1>7 DEF Kept
  <2>3. QED
    BY <2>1, <2>2 DEF Kept
<1>8. ASSUME NEW q \in Issuance, pc'[q] = "loaded"
      PROVE  Parsed' => IsPrefix(file', state'[q])
  <2>1. q # p /\ pc[q] = "loaded"
    BY <1>2, <1>8
  <2>2. UNCHANGED file
    BY <1>5, <1>6, <2>1 DEF LoadFails, Active
  <2>3. QED
    BY <1>1, <2>1, <2>2 DEF AloneInv, Parsed
<1>9. ASSUME NEW q \in Issuance, pc'[q] = "saved"
      PROVE  file' = state'[q]
  <2>1. CASE q = p
    <3>1. Save(p)
      BY <1>2, <1>9, <2>1 DEF Unseen, LoadFails, Truncate, PrintResult,
                              Finish, Crash,
                              SharedInv, Shapes
    <3>2. file = Empty
      BY <3>1 DEF Save, Write, SharedInv, NoOverlap, Undisturbed
    <3>3. QED
      BY <1>1, <2>1, <3>1, <3>2, WriteFacts
  <2>2. CASE q # p
    <3>1. pc[q] = "saved"
      BY <1>2, <1>9, <2>2
    <3>2. UNCHANGED file
      BY <1>5, <1>6, <2>2, <3>1 DEF LoadFails, Active
    <3>3. QED
      BY <1>1, <3>1, <3>2 DEF AloneInv
  <2>3. QED
    BY <2>1, <2>2
<1>10. ASSUME NEW r \in printed
       PROVE  file' # NoFile /\ Kept(r)'
  <2>1. r \in Seq(Leaf) /\ Kept(r) /\ file # NoFile
    BY DEF AloneInv, SharedInv, Shapes
  <2>2. file' # NoFile
    <3>1. state[p] \in Seq(Leaf)
      BY DEF SharedInv, Shapes
    <3>2. QED
      BY <1>4, <2>1, <3>1, FileAssumption
  <2>3. QED
    BY <1>7, <2>1, <2>2
<1>11. /\ \A r \in printed' : file' # NoFile /\ Kept(r)'
       /\ \A r, s \in printed' : IsPrefix(r, s) \/ IsPrefix(s, r)
  <2>1. CASE UNCHANGED printed
    BY <1>10, <2>1 DEF AloneInv
  <2>2. CASE ~ UNCHANGED printed
    <3>1. PrintResult(p)
      BY <2>2 DEF Unseen, Save, told
    <3>2. /\ printed' = printed \cup {state[p]}
          /\ pc[p] = "saved" /\ pc'[p] = "done"
          /\ UNCHANGED file
      BY <3>1 DEF PrintResult, Finish, SharedInv, Shapes
    <3>3. file = state[p] /\ state[p] \in Seq(Leaf)
      BY <3>2 DEF AloneInv, SharedInv, Shapes
    <3>4. \A q \in Issuance : pc'[q] \notin Active
      BY <1>2, <1>5, <3>2 DEF Active
    <3>5. file' # NoFile
      BY <3>2, <3>3, FileAssumption
    <3>6. \A r \in printed : IsPrefix(r, state[p])
      BY <3>3 DEF AloneInv, Kept, Parsed
    <3>7. IsPrefix(state[p], state[p])
      BY <3>3, PrefixSelf
    <3>8. \A r \in printed' : file' # NoFile /\ Kept(r)'
      <4>1. ASSUME NEW r \in printed'
            PROVE  file' # NoFile /\ Kept(r)'
        <5>1. CASE r \in printed
          BY <1>10, <5>1
        <5>2. CASE r = state[p]
          <6>1. \A q \in Issuance : pc'[q] \in Active
                   => IsPrefix(r, state'[q])
            BY <3>4
          <6>2. Parsed' => IsPrefix(r, file')
            BY <3>2, <3>3, <3>7, <5>2
          <6>3. QED
            BY <3>5, <6>1, <6>2 DEF Kept
        <5>3. QED
          BY <3>2, <4>1, <5>1, <5>2
      <4>2. QED
        BY <4>1
    <3>9. QED
      BY <3>2, <3>6, <3>7, <3>8 DEF AloneInv
  <2>3. QED
    BY <2>1, <2>2
<1>12. ASSUME file' \in Unparsable
       PROVE  crashes' > 0 \/ \E q \in Issuance : pc'[q] = "truncated"
  <2>1. CASE LoadFails(p)
    <3>1. UNCHANGED <<file, crashes>> /\ pc[p] = "start"
      BY <2>1 DEF LoadFails
    <3>2. QED
      BY <1>2, <1>12, <3>1 DEF AloneInv
  <2>2. CASE Truncate(p)
    BY <2>2 DEF Truncate, SharedInv, Shapes
  <2>3. CASE Save(p)
    <3>1. file = Empty
      BY <2>3 DEF Save, Write, SharedInv, NoOverlap, Undisturbed
    <3>2. file' \in Seq(Leaf)
      BY <2>3, <3>1, WriteFacts
    <3>3. QED
      BY <1>12, <3>2, FileAssumption
  <2>4. CASE PrintResult(p)
    <3>1. UNCHANGED <<file, crashes>> /\ pc[p] = "saved"
      BY <2>4 DEF PrintResult, Finish, told
    <3>2. QED
      BY <1>2, <1>12, <3>1 DEF AloneInv
  <2>5. CASE Crash(p)
    BY <2>5 DEF Crash, SharedInv, Shapes
  <2>6. QED
    BY <2>1, <2>2, <2>3, <2>4, <2>5 DEF Unseen
<1>13. QED
  BY <1>8, <1>9, <1>11, <1>12 DEF AloneInv

(* With one command at a time, the root that kycctl root prints is at the  *)
(* beginning of what the running command is about to write, and extends    *)
(* every root printed before.                                              *)
LEMMA RootKeepsAlone ==
    ASSUME SharedInv, AloneInv, NoOverlap, PrintRoot
    PROVE  AloneInv'
<1>1. /\ printed' = printed \cup {file} /\ file \in Seq(Leaf)
      /\ UNCHANGED <<file, pc, state, receipts, crashes>>
  BY DEF PrintRoot, fileVars, Parsed
<1>2. ASSUME NEW q \in Issuance, pc[q] \in Active
      PROVE  IsPrefix(file, state[q])
  <2>1. CASE pc[q] = "loaded"
    BY <1>1, <2>1 DEF AloneInv, Parsed
  <2>2. CASE pc[q] = "truncated"
    BY <1>1, <2>2, FileAssumption
       DEF SharedInv, NoOverlap, Undisturbed, Unparsable
  <2>3. CASE pc[q] = "saved"
    BY <1>1, <2>3, PrefixSelf DEF AloneInv
  <2>4. QED
    BY <1>2, <2>1, <2>2, <2>3 DEF Active
<1>3. /\ Kept(file) /\ file # NoFile /\ IsPrefix(file, file)
  BY <1>1, <1>2, PrefixSelf, FileAssumption DEF Kept
<1>4. \A r \in printed : IsPrefix(r, file)
  BY <1>1 DEF AloneInv, Kept, Parsed
<1>5. \A r \in printed' : file # NoFile /\ Kept(r)
  BY <1>1, <1>3 DEF AloneInv
<1>6. \A r, s \in printed' : IsPrefix(r, s) \/ IsPrefix(s, r)
  BY <1>1, <1>3, <1>4 DEF AloneInv
<1>7. QED
  BY <1>1, <1>5, <1>6 DEF AloneInv, Kept, Parsed

-----------------------------------------------------------------------------
(* Every step keeps the invariant.                                         *)
LEMMA NextKeeps ==
    ASSUME IssuerInv, [Next]_vars
    PROVE  IssuerInv'
<1>1. CASE UNCHANGED vars
  BY <1>1 DEF vars, fileVars, told, IssuerInv, SharedInv, AloneInv, Shapes,
              Memory, Undisturbed, NoOverlap, Kept, Parsed
<1>2. ASSUME NEW p \in Issuance, Begin(p)
      PROVE  IssuerInv'
  <2>1. SharedInv'
    BY <1>2, LoadKeepsShared DEF IssuerInv
  <2>2. NoOverlap' => NoOverlap
    BY <1>2, OverlapGrows DEF IssuerInv, Next, Issue
  <2>3. QED
    BY <1>2, <2>1, <2>2, LoadKeepsAlone DEF IssuerInv
<1>3. ASSUME NEW p \in Issuance,
             Unseen(p) \/ Save(p) \/ PrintResult(p)
      PROVE  IssuerInv'
  <2>1. SharedInv'
    BY <1>3, OthersKeepShared DEF IssuerInv
  <2>2. NoOverlap' => NoOverlap
    BY <1>3, OverlapGrows DEF IssuerInv, Next, Issue
  <2>3. QED
    BY <1>3, <2>1, <2>2, OthersKeepAlone DEF IssuerInv
<1>4. CASE PrintRoot
  <2>1. SharedInv'
    BY <1>4, RootKeepsShared DEF IssuerInv
  <2>2. NoOverlap' => NoOverlap
    BY <1>4, OverlapGrows DEF IssuerInv, Next
  <2>3. QED
    BY <1>4, <2>1, <2>2, RootKeepsAlone DEF IssuerInv
<1>5. QED
  BY <1>1, <1>2, <1>3, <1>4 DEF Next, Issue

(* The invariant holds of every behaviour of the issue commands. *)
LEMMA IssuerInvariant == Spec => []IssuerInv
<1>1. Init => IssuerInv
  BY InitEstablishes
<1>2. IssuerInv /\ [Next]_vars => IssuerInv'
  BY NextKeeps
<1>3. QED
  BY <1>1, <1>2, PTL DEF Spec

-----------------------------------------------------------------------------
(* Types, and where the leaves of a list come from. *)

(* A list has no more leaves than there are commands. *)
LEMMA OnceBounds ==
    ASSUME NEW s \in Seq(Leaf), Once(s)
    PROVE  Len(s) <= Cardinality(Issuance)
<1>. SUFFICES ASSUME Cardinality(Issuance) < Len(s) PROVE FALSE
  BY IssuanceAssumption, FS_CardinalityType
<1>1. PICK by : AppendedBy(s, by)
  BY DEF Once
<1>2. /\ Len(s) \in Nat
      /\ IsFiniteSet(1 .. Len(s)) /\ Cardinality(1 .. Len(s)) = Len(s)
  BY FS_Interval
<1>3. by \in [1 .. Len(s) -> Issuance]
  BY <1>1 DEF AppendedBy
<1>4. \E i, j \in 1 .. Len(s) : i # j /\ by[i] = by[j]
  BY <1>2, <1>3, IssuanceAssumption, FS_PigeonHole
<1>5. QED
  BY <1>1, <1>3, <1>4 DEF AppendedBy, IsInjective

(* issue appends the leaf of a command that had not loaded the file.       *)
LEMMA AppendOnce ==
    ASSUME NEW s \in Seq(Leaf), NEW by, AppendedBy(s, by),
           NEW p \in Issuance, pc[p] = "start"
    PROVE  LET t == Append(s, LeafOf[p])  c == Append(by, p) IN
           /\ c \in Seq(Issuance) /\ IsInjective(c) /\ Len(c) = Len(t)
           /\ \A i \in 1 .. Len(t) :
                 /\ t[i] = LeafOf[c[i]]
                 /\ c[i] = p \/ (pc[c[i]] # "start" /\ state[c[i]] # <<>>)
<1> DEFINE n == Len(s)
           t == Append(s, LeafOf[p])
           c == Append(by, p)
<1>1. /\ by \in Seq(Issuance) /\ n \in Nat /\ Len(by) = n
      /\ IsInjective(by) /\ LeafOf[p] \in Leaf
  BY LeafAssumption DEF AppendedBy
<1>2. /\ c \in Seq(Issuance) /\ DOMAIN c = 1 .. n + 1
      /\ Len(c) = n + 1 /\ Len(t) = n + 1
      /\ DOMAIN by = 1 .. n
  BY <1>1
<1>3. \A i \in 1 .. n + 1 :
         /\ c[i] = IF i = n + 1 THEN p ELSE by[i]
         /\ t[i] = IF i = n + 1 THEN LeafOf[p] ELSE s[i]
  BY <1>1
<1>4. \A i \in 1 .. n :
         s[i] = LeafOf[by[i]] /\ pc[by[i]] # "start" /\ state[by[i]] # <<>>
  BY DEF AppendedBy
<1> HIDE DEF n, t, c
<1>5. \A i, j \in 1 .. n : by[i] = by[j] => i = j
  BY <1>1, <1>2 DEF IsInjective
<1>6. \A i \in 1 .. n : by[i] # p
  BY <1>4
<1>7. \A i \in 1 .. n + 1 : i = n + 1 \/ i \in 1 .. n
  BY <1>1
<1>8. IsInjective(c)
  BY <1>2, <1>3, <1>5, <1>6, <1>7 DEF IsInjective
<1>9. QED
  BY <1>2, <1>3, <1>4, <1>7, <1>8 DEF t, c

(* The types and the origin of the leaves hold at the start ...            *)
LEMMA InitTypes == Init => TypeOK /\ OnceInv
<1>. SUFFICES ASSUME Init PROVE TypeOK /\ OnceInv
  OBVIOUS
<1>1. ASSUME NEW p \in Issuance
      PROVE  NoReceipt \in Receipt
  <2>1. Cardinality(Issuance) \in Nat /\ Cardinality(Issuance) # 0
    BY IssuanceAssumption, FS_CardinalityType, FS_EmptySet
  <2>2. QED
    BY <2>1 DEF NoReceipt, Receipt
<1>2. TypeOK
  BY <1>1, CrashesAssumption DEF Init, FileInit, TypeOK
<1>3. Lost = {} /\ Cardinality(Lost) = 0
  BY FS_EmptySet DEF Init, FileInit, Lost
<1>4. OnceInv
  BY <1>3, FileAssumption DEF Init, FileInit, OnceInv, Parsed, Active
<1>5. QED
  BY <1>2, <1>4

(* What a step of issue does to the commands: p loads the file and takes   *)
(* its leaves over, or its copy stays; and only a crash loses a command.   *)
LEMMA IssueFacts ==
    ASSUME SharedInv, TypeOK, OnceInv, NEW p \in Issuance, Issue(p)
    PROVE  /\ file' \in {file, state[p]} \cup Unparsable
           /\ file' # file => pc[p] \in Active
           /\ \A q \in Issuance \ {p} : pc'[q] = pc[q] /\ state'[q] = state[q]
           /\ pc'[p] \in Stages \ {"start"}
           /\ \/ /\ Begin(p) /\ pc[p] = "start" /\ pc'[p] = "loaded"
                 /\ state'[p] = Append(Loaded, LeafOf[p])
                 /\ crashes' = crashes
              \/ /\ pc[p] \in Active /\ state'[p] = state[p]
                 /\ pc'[p] = "failed" /\ crashes' = crashes + 1
              \/ /\ pc[p] \in Active /\ state'[p] = state[p]
                 /\ pc'[p] # "failed" /\ crashes' = crashes
              \/ /\ pc[p] = "start" /\ state'[p] = state[p]
                 /\ pc'[p] = "failed" /\ crashes' = crashes
<1>1. CASE Begin(p)
  BY <1>1 DEF Begin, Load, TypeOK, Stages, Active
<1>2. CASE Unseen(p)
  BY <1>2 DEF Unseen, LoadFails, Truncate, Crash, TypeOK, Stages, Active,
              Running, Unparsable
<1>3. CASE Save(p)
  BY <1>3, WriteFacts DEF Save, Write, TypeOK, Stages, Active, Unparsable
<1>4. CASE PrintResult(p)
  BY <1>4 DEF PrintResult, Finish, TypeOK, Stages, Active
<1>5. QED
  BY <1>1, <1>2, <1>3, <1>4 DEF Issue

(* ... the types are kept by every step of issue ...                       *)
LEMMA IssueTypes ==
    ASSUME SharedInv, TypeOK, OnceInv, NEW p \in Issuance, Issue(p)
    PROVE  TypeOK'
<1>1. /\ state[p] \in Seq(Leaf) /\ Loaded \in Seq(Leaf)
      /\ Append(Loaded, LeafOf[p]) \in Seq(Leaf)
  BY LeafAssumption DEF TypeOK, Loaded, Parsed
<1>2. file' \in {NoFile} \cup Unparsable \cup Seq(Leaf)
  BY <1>1, IssueFacts DEF TypeOK
<1>3. receipts' \in [Issuance -> Receipt] /\ printed' \subseteq Seq(Leaf)
  <2>1. CASE PrintResult(p)
    <3>1. pc[p] = "saved"
      BY <2>1 DEF PrintResult, Finish
    <3>2. Once(state[p]) /\ Len(state[p]) > 0
      BY <3>1 DEF SharedInv, Memory, EndsWith, Active, OnceInv
    <3>3. Len(state[p]) - 1 \in 0 .. Cardinality(Issuance) - 1
      BY <1>1, <3>2, OnceBounds, IssuanceAssumption, FS_CardinalityType
    <3>4. QED
      BY <1>1, <2>1, <3>3 DEF PrintResult, TypeOK, Receipt
  <2>2. CASE UNCHANGED told
    BY <2>2 DEF TypeOK, told
  <2>3. QED
    BY <2>1, <2>2 DEF Issue, Begin, Unseen, Save
<1>4. state' \in [Issuance -> Seq(Leaf)]
  BY <1>1 DEF Issue, Begin, Load, Unseen, LoadFails, Truncate, Save, Write,
              PrintResult, Finish, Crash, TypeOK
<1>5. pc' \in [Issuance ->
                 {"start", "loaded", "truncated", "saved", "done", "failed"}]
  BY DEF Issue, Begin, Load, Unseen, LoadFails, Truncate, Save, Write,
         PrintResult, Finish, Crash, TypeOK
<1>6. crashes' \in 0 .. MaxCrashes
  BY CrashesAssumption
     DEF Issue, Begin, Load, Unseen, LoadFails, Truncate, Save, Write,
         PrintResult, Finish, Crash, TypeOK
<1>7. overlap' \in [Issuance -> SUBSET Issuance]
  <2>1. /\ Running \in SUBSET Issuance
        /\ overlap \in [Issuance -> SUBSET Issuance]
    BY DEF Running, TypeOK
  <2>2. CASE Begin(p)
    <3>1. \A q \in Issuance :
             overlap[q] \in SUBSET Issuance
                /\ overlap[q] \cup {p} \in SUBSET Issuance
      BY <2>1
    <3>2. QED
      BY <2>1, <2>2, <3>1 DEF Begin
  <2>3. CASE UNCHANGED overlap
    BY <2>1, <2>3
  <2>4. QED
    BY <2>2, <2>3 DEF Issue, Unseen, Save, PrintResult
<1>8. committed' \in Seq(Leaf)
  BY <1>1 DEF Issue, Begin, Unseen, Save, PrintResult, TypeOK
<1>9. QED
  BY <1>2, <1>3, <1>4, <1>5, <1>6, <1>7, <1>8 DEF TypeOK

(* ... and so is the origin of the leaves: no command is forgotten, one    *)
(* that loads adds itself, and one that fails afterwards was counted.      *)
LEMMA IssueOnce ==
    ASSUME SharedInv, TypeOK, OnceInv, NEW p \in Issuance, Issue(p)
    PROVE  OnceInv'
<1>1. /\ state[p] \in Seq(Leaf) /\ Loaded \in Seq(Leaf)
      /\ LeafOf[p] \in Leaf
      /\ pc[p] \in Active => state[p] # <<>>
  BY LeafAssumption
     DEF TypeOK, Loaded, Parsed, SharedInv, Memory, EndsWith
<1>2. \A q \in Issuance :
         pc[q] # "start" /\ state[q] # <<>>
            => pc'[q] # "start" /\ state'[q] # <<>>
  BY IssueFacts DEF Active
<1>3. Parsed' => Once(file)'
  <2>1. SUFFICES ASSUME Parsed' PROVE Once(file)'
    OBVIOUS
  <2>2. \/ file' = file /\ Parsed
        \/ file' = state[p] /\ pc[p] \in Active
    BY <2>1, IssueFacts, FileAssumption DEF Parsed
  <2>3. PICK by : AppendedBy(file', by)
    BY <2>2 DEF OnceInv, Once
  <2>4. \A i \in 1 .. Len(by) : by[i] \in Issuance
    BY <2>3 DEF AppendedBy
  <2>5. QED
    BY <1>2, <2>3, <2>4 DEF AppendedBy, Once
<1>4. ASSUME NEW q \in Issuance, pc'[q] \in Active
      PROVE  Once(state[q])'
  <2>1. CASE q = p /\ Begin(p)
    <3>1. /\ pc[p] = "start" /\ file \notin Unparsable
          /\ pc'[p] # "start" /\ state'[p] = Append(Loaded, LeafOf[p])
      BY <2>1 DEF Begin, Load, Loadable, TypeOK
    <3>2. PICK by : AppendedBy(Loaded, by)
      <4>1. CASE Parsed
        BY <4>1 DEF OnceInv, Loaded, Once
      <4>2. CASE ~ Parsed
        <5>1. AppendedBy(<<>>, <<>>)
          BY DEF AppendedBy, IsInjective
        <5>2. QED
          BY <4>2, <5>1 DEF Loaded
      <4>3. QED
        BY <4>1, <4>2
    <3> DEFINE t == Append(Loaded, LeafOf[p])
               c == Append(by, p)
    <3>3. /\ c \in Seq(Issuance) /\ IsInjective(c) /\ Len(c) = Len(t)
          /\ \A i \in 1 .. Len(t) :
                /\ t[i] = LeafOf[c[i]]
                /\ c[i] = p \/ (pc[c[i]] # "start" /\ state[c[i]] # <<>>)
      BY <1>1, <3>1, <3>2, AppendOnce
    <3>4. t # <<>>
      BY <1>1
    <3>5. state'[q] = t /\ state'[p] = t
      BY <2>1, <3>1
    <3> HIDE DEF t, c
    <3>6. \A i \in 1 .. Len(t) : c[i] \in Issuance
      BY <3>3
    <3>7. \A i \in 1 .. Len(t) : pc'[c[i]] # "start" /\ state'[c[i]] # <<>>
      BY <1>2, <3>1, <3>3, <3>4, <3>5, <3>6
    <3>8. AppendedBy(state[q], c)'
      BY <3>3, <3>5, <3>7 DEF AppendedBy
    <3>9. \E b \in Seq(Issuance) : AppendedBy(state[q], b)'
      BY <3>3, <3>8
    <3>10. QED
      BY <3>9 DEF Once
  <2>2. CASE ~ (q = p /\ Begin(p))
    <3>1. state'[q] = state[q] /\ pc[q] \in Active
      BY <1>4, <2>2, IssueFacts DEF Active
    <3>2. PICK by : AppendedBy(state[q], by)
      BY <3>1 DEF OnceInv, Once
    <3>3. \A i \in 1 .. Len(by) : by[i] \in Issuance
      BY <3>2 DEF AppendedBy
    <3>4. AppendedBy(state[q], by)'
      BY <1>2, <3>1, <3>2, <3>3 DEF AppendedBy
    <3>5. \E b \in Seq(Issuance) : AppendedBy(state[q], b)'
      BY <3>2, <3>4 DEF AppendedBy
    <3>6. QED
      BY <3>5 DEF Once
  <2>3. QED
    BY <2>1, <2>2
<1>5. \A q \in Issuance : pc'[q] = "start" => state'[q] = <<>>
  BY IssueFacts DEF OnceInv
<1>6. Cardinality(Lost') <= crashes'
  <2>1. /\ IsFiniteSet(Lost) /\ Cardinality(Lost) \in Nat
        /\ Cardinality(Lost) <= crashes /\ crashes \in Nat
    <3>1. Lost \subseteq Issuance
      BY DEF Lost
    <3>2. QED
      BY <3>1, IssuanceAssumption, FS_Subset, FS_CardinalityType
         DEF OnceInv, SharedInv, Shapes
  <2>2. CASE crashes' = crashes + 1
    <3>1. Lost' \subseteq Lost \cup {p}
      BY IssueFacts DEF Lost
    <3>2. /\ IsFiniteSet(Lost \cup {p})
          /\ Cardinality(Lost \cup {p}) <= Cardinality(Lost) + 1
      <4>1. Cardinality(Lost \cup {p}) =
               IF p \in Lost THEN Cardinality(Lost) ELSE Cardinality(Lost) + 1
        BY <2>1, FS_AddElement
      <4>2. CASE p \in Lost
        BY <2>1, <4>1, <4>2, FS_AddElement
      <4>3. CASE p \notin Lost
        BY <2>1, <4>1, <4>3, FS_AddElement
      <4>4. QED
        BY <4>2, <4>3
    <3>3. /\ Cardinality(Lost') \in Nat
          /\ Cardinality(Lost') <= Cardinality(Lost \cup {p})
          /\ Cardinality(Lost \cup {p}) \in Nat
      BY <3>1, <3>2, FS_Subset, FS_CardinalityType
    <3>4. QED
      BY <2>1, <2>2, <3>2, <3>3
  <2>3. CASE crashes' # crashes + 1
    <3>1. crashes' = crashes
      BY <2>3, IssueFacts
    <3>2. Lost' \subseteq Lost
      BY <2>3, IssueFacts DEF Lost, OnceInv, Active
    <3>3. Cardinality(Lost') \in Nat /\ Cardinality(Lost') <= Cardinality(Lost)
      BY <2>1, <3>2, FS_Subset, FS_CardinalityType
    <3>4. QED
      BY <2>1, <3>1, <3>3
  <2>4. QED
    BY <2>2, <2>3
<1>7. QED
  BY <1>3, <1>4, <1>5, <1>6 DEF OnceInv

(* ... and both are kept by kycctl root.                                   *)
LEMMA RootTypes ==
    ASSUME TypeOK, OnceInv, PrintRoot
    PROVE  TypeOK' /\ OnceInv'
<1>1. TypeOK'
  BY DEF PrintRoot, fileVars, TypeOK, Parsed
<1>2. OnceInv'
  BY DEF PrintRoot, fileVars, OnceInv, Once, AppendedBy, Lost, Parsed
<1>3. QED
  BY <1>1, <1>2

(* So they hold of every behaviour of the issue commands.                  *)
LEMMA TypesHold == Spec => [](TypeOK /\ OnceInv)
<1>1. IssuerInv /\ TypeOK /\ OnceInv /\ [Next]_vars => TypeOK' /\ OnceInv'
  <2>1. ASSUME TypeOK, OnceInv, UNCHANGED vars
        PROVE  TypeOK' /\ OnceInv'
    BY <2>1 DEF vars, fileVars, told, TypeOK, OnceInv, Once, AppendedBy, Lost,
                Parsed
  <2>2. QED
    BY <2>1, IssueTypes, IssueOnce, RootTypes DEF IssuerInv, Next
<1>2. QED
  BY <1>1, InitTypes, IssuerInvariant, PTL DEF Spec

(* The types hold, the bound on a printed index among them: the index that *)
(* issue prints counts the leaves before the new one, and each of those    *)
(* has a command of its own.                                               *)
THEOREM IssuerTypes == Spec => []TypeOK
BY TypesHold, PTL

(* However many commands race, crash or tear the file, the leaves of a     *)
(* file that parses match one-to-one with commands that loaded it: a leaf  *)
(* is in it twice only if two commands had the same arguments, and none is *)
(* made up by writes that mix.                                             *)
THEOREM LeavesAreOfCommands ==
    Spec => [](Parsed => \E by \in Seq(Issuance) :
                   /\ IsInjective(by) /\ Len(by) = Len(file)
                   /\ \A i \in 1 .. Len(file) :
                         file[i] = LeafOf[by[i]] /\ pc[by[i]] # "start")
<1>1. OnceInv => (Parsed => \E by \in Seq(Issuance) :
                      /\ IsInjective(by) /\ Len(by) = Len(file)
                      /\ \A i \in 1 .. Len(file) :
                            file[i] = LeafOf[by[i]] /\ pc[by[i]] # "start")
  BY DEF OnceInv, Once, AppendedBy
<1>2. QED
  BY <1>1, TypesHold, PTL

(* A leaf whose secret nobody was told was left by a command that was      *)
(* killed or could not write: between SaveState and the answer nothing     *)
(* fails.  (Each stranded leaf has a command of its own, and that command  *)
(* was lost.)                                                              *)
THEOREM CrashesStrand == Spec => []StrandedOnlyByCrash
<1>1. ASSUME SharedInv, OnceInv, Parsed, Running = {}
      PROVE  Cardinality(Stranded) <= crashes
  <2>1. PICK by : AppendedBy(file, by)
    BY <1>1 DEF OnceInv, Once
  <2>2. file \in Seq(Leaf) /\ DOMAIN file = 1 .. Len(file)
    BY <1>1 DEF Parsed
  <2>3. \A i \in Stranded : i \in DOMAIN by /\ by[i] \in Lost
    <3>1. TAKE i \in Stranded
    <3>2. /\ i \in 1 .. Len(file) /\ by \in Seq(Issuance)
          /\ Len(by) = Len(file)
      BY <2>1, <2>2 DEF Stranded, AppendedBy
    <3>3. /\ by[i] \in Issuance /\ file[i] = LeafOf[by[i]]
          /\ pc[by[i]] # "start" /\ state[by[i]] # <<>>
      BY <2>1, <3>2 DEF AppendedBy
    <3>4. pc[by[i]] # "done"
      BY <3>3 DEF Stranded, Issued
    <3>5. pc[by[i]] \in Stages
      BY <1>1, <3>3 DEF SharedInv, Shapes
    <3>6. pc[by[i]] \notin {"loaded", "truncated", "saved"}
      BY <1>1, <3>3 DEF Running
    <3>7. QED
      BY <3>2, <3>3, <3>4, <3>5, <3>6 DEF Stages, Active, Lost
  <2> DEFINE g == [i \in Stranded |-> by[i]]
  <2>4. g \in Injection(Stranded, Lost)
    <3>1. g \in [Stranded -> Lost]
      BY <2>3
    <3>2. \A i, j \in Stranded : by[i] = by[j] => i = j
      BY <2>1, <2>3 DEF AppendedBy, IsInjective
    <3>3. QED
      BY <3>1, <3>2 DEF Injection, IsInjective
  <2>5. IsFiniteSet(Lost)
    <3>1. Lost \subseteq Issuance
      BY DEF Lost
    <3>2. QED
      BY <3>1, IssuanceAssumption, FS_Subset
  <2>6. /\ Cardinality(Stranded) <= Cardinality(Lost)
        /\ Cardinality(Stranded) \in Nat /\ Cardinality(Lost) \in Nat
    BY <2>4, <2>5, FS_Injection, FS_CardinalityType
  <2>7. Cardinality(Lost) <= crashes /\ crashes \in Nat
    BY <1>1 DEF OnceInv, SharedInv, Shapes
  <2>8. QED
    BY <2>6, <2>7
<1>2. SharedInv /\ OnceInv => StrandedOnlyByCrash
  BY <1>1 DEF StrandedOnlyByCrash
<1>3. IssuerInv => SharedInv
  BY DEF IssuerInv
<1>4. QED
  BY <1>2, <1>3, TypesHold, IssuerInvariant, PTL

-----------------------------------------------------------------------------
(* A printed credential that is missing from a file that parses belongs to *)
(* an issue command that overlapped with another, however many commands    *)
(* raced, crashed or tore the file (SaveState after LoadOrCreateState,     *)
(* without a lock).                                                        *)
THEOREM OnlyOverlapLoses == Spec => []LostOnlyByOverlap
<1>1. IssuerInv => LostOnlyByOverlap
  BY DEF IssuerInv, SharedInv, Undisturbed, LostOnlyByOverlap, Issued
<1>2. QED
  BY <1>1, IssuerInvariant, PTL

(* With one command at a time, the index and root that kycctl issue        *)
(* printed stay true: the leaf is at that index of every later content,    *)
(* and every later tree extends that root's.                               *)
THEOREM ReceiptsHold == Spec => []ReceiptsStayTrue
<1>1. ASSUME IssuerInv, NoOverlap, Parsed, NEW p \in Issued
      PROVE  /\ IsPrefix(receipts[p].root, file)
             /\ receipts[p].index < Len(file)
             /\ file[receipts[p].index + 1] = LeafOf[p]
  <2> DEFINE root == receipts[p].root
  <2>1. p \in Issuance /\ pc[p] = "done"
    BY DEF Issued
  <2>2. IsPrefix(root, file)
    BY <1>1, <2>1 DEF IssuerInv, SharedInv, Memory, AloneInv, Kept
  <2>3. /\ root \in Seq(Leaf) /\ file \in Seq(Leaf)
        /\ EndsWith(root, LeafOf[p]) /\ receipts[p].index = Len(root) - 1
    BY <1>1, <2>1 DEF IssuerInv, SharedInv, Shapes, Memory, Parsed
  <2> HIDE DEF root
  <2>4. Len(root) \in 1 .. Len(root) /\ root[Len(root)] = LeafOf[p]
    BY <2>3 DEF EndsWith
  <2>5. Len(root) <= Len(file) /\ file[Len(root)] = LeafOf[p]
    BY <2>2, <2>3, <2>4, PrefixElement
  <2>6. Len(root) \in Nat /\ Len(file) \in Nat
    BY <2>3
  <2>7. /\ receipts[p].index < Len(file)
        /\ receipts[p].index + 1 = Len(root)
    BY <2>3, <2>5, <2>6
  <2>8. QED
    BY <2>2, <2>5, <2>7 DEF root
<1>2. IssuerInv => ReceiptsStayTrue
  BY <1>1 DEF ReceiptsStayTrue
<1>3. QED
  BY <1>2, IssuerInvariant, PTL

(* With one command at a time, a file that does not parse while none runs  *)
(* was left so by a command that was killed, or whose write failed,        *)
(* between os.WriteFile's truncation and its last byte.                    *)
THEOREM CrashesTear == Spec => []TornOnlyByCrash
<1>1. IssuerInv => TornOnlyByCrash
  BY DEF IssuerInv, AloneInv, TornOnlyByCrash, Running
<1>2. QED
  BY <1>1, IssuerInvariant, PTL

(* With one command at a time, of any two roots that issue or root printed *)
(* one extends the other, whenever they were printed: the trees the owner  *)
(* may publish are one tree at different times.                            *)
THEOREM RootsOnOneLine == Spec => []RootsOfOneTree
<1>1. IssuerInv => RootsOfOneTree
  BY DEF IssuerInv, AloneInv, RootsOfOneTree
<1>2. QED
  BY <1>1, IssuerInvariant, PTL

(* Once the file is unusable and no command is in the middle of writing    *)
(* it, LoadOrCreateState fails in every later command, so nothing repairs  *)
(* or replaces it.                                                         *)
THEOREM TornForGood == Spec => UnusableForever
<1>1. ASSUME Shapes, Broken, [Next]_vars
      PROVE  Broken'
  <2>1. \A p \in Issuance : pc[p] \notin Active
    BY <1>1 DEF Broken, Running, Active
  <2>2. /\ UNCHANGED file
        /\ \A p \in Issuance : pc'[p] \notin Active
    <3>1. ASSUME NEW p \in Issuance, LoadFails(p)
          PROVE  /\ UNCHANGED file
                 /\ \A q \in Issuance : pc'[q] \notin Active
      BY <1>1, <2>1, <3>1 DEF LoadFails, Shapes, Active
    <3>2. CASE PrintRoot \/ UNCHANGED vars
      BY <2>1, <3>2 DEF PrintRoot, fileVars, vars
    <3>3. QED
      BY <1>1, <2>1, <3>1, <3>2
         DEF Next, Issue, Begin, Load, Loadable, Unseen, LoadFails, Truncate,
             Save, Write, PrintResult, Finish, Crash,
             Broken, Active, Running
  <2>3. QED
    BY <1>1, <2>2 DEF Broken, Running, Active
<1>2. IssuerInv => Shapes
  BY DEF IssuerInv, SharedInv
<1>3. Broken /\ Shapes /\ [Next]_vars => Broken'
  BY <1>1
<1>4. Broken <=> Running = {} /\ file \in Unparsable
  BY DEF Broken
<1>5. Broken => file \in Unparsable
  BY DEF Broken
<1>6. QED
  BY <1>2, <1>3, <1>4, <1>5, IssuerInvariant, PTL DEF Spec, UnusableForever

=============================================================================
