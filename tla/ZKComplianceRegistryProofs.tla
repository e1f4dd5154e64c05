--------------------- MODULE ZKComplianceRegistryProofs ---------------------
(***************************************************************************)
(* Proofs about the compliance registry, for every set of accounts,        *)
(* secrets and roots, every assignment of credentials to roots, and every  *)
(* field order.  The inductive invariant relates the three records of a    *)
(* redemption: the nullifier map, the expiry map and the event log.  With  *)
(* it, every step is shown to be one of the abstract ledger of grants.     *)
(***************************************************************************)
EXTENDS ComplianceRefinement, TLAPS

-----------------------------------------------------------------------------
(* The roles the registry inherits.                                        *)

(* The constructor establishes them. *)
LEMMA RolesInitTyping == ASSUME RolesInit PROVE RolesTypeOK
<1>1. PICK initialOwner \in Callers :
          /\ owner = initialOwner
          /\ agents = [a \in Account |-> a = initialOwner]
  BY DEF RolesInit
<1>2. ~ agents[ZeroAddress]
  BY <1>1, ZeroAddressAssumption DEF Callers
<1>3. agents \in [Account -> BOOLEAN]
  BY <1>1
<1>4. QED
  BY <1>1, <1>2, <1>3 DEF RolesTypeOK

(* transferOwnership and setAgent keep them. *)
LEMMA RolesTyping ==
    ASSUME RolesTypeOK, RolesNext
    PROVE  RolesTypeOK'
<1>1. PICK caller \in Callers, account \in Account :
          \/ TransferOwnership(caller, account)
          \/ \E enabled \in BOOLEAN : SetAgent(caller, account, enabled)
  BY DEF RolesNext
<1>2. CASE TransferOwnership(caller, account)
  BY <1>2 DEF TransferOwnership, RolesTypeOK, Callers
<1>3. ASSUME NEW enabled \in BOOLEAN, SetAgent(caller, account, enabled)
      PROVE  RolesTypeOK'
  BY <1>3 DEF SetAgent, RolesTypeOK
<1>4. QED
  BY <1>1, <1>2, <1>3

-----------------------------------------------------------------------------
(* The inductive invariant. *)

(* A nullifier is marked spent exactly when an event carries it. *)
SpentMatchesEvents ==
    \A n \in Nullifier :
        spentNullifiers[n] <=>
            \E i \in 1 .. Len(redemptions) : redemptions[i].nullifier = n

(* No two events carry the same representation of a nullifier... *)
EventsDistinct ==
    \A i, j \in 1 .. Len(redemptions) :
        redemptions[i].nullifier = redemptions[j].nullifier => i = j

(* ... and each event carries the canonical one, with the expiry of a      *)
(* credential that is in the tree of its root.                             *)
EventsGenuine ==
    \A i \in 1 .. Len(redemptions) :
        /\ redemptions[i].nullifier.wraps = 0
        /\ redemptions[i].expiry # 0
        /\ \E c \in Leaves[redemptions[i].nullifier.root] :
              /\ c.secret = redemptions[i].nullifier.secret
              /\ c.expiry = redemptions[i].expiry

IInv ==
    /\ TypeOK
    /\ SpentMatchesEvents
    /\ EventsDistinct
    /\ EventsGenuine
    /\ StorageMatchesEvents

-----------------------------------------------------------------------------
(* A step of the registry is one of its transactions or the clock's, with  *)
(* well-typed arguments.                                                   *)
LEMMA NextCases ==
    ASSUME Next, NEW P,
           \A caller \in Callers, s \in PubSignals : RedeemProof(caller, s) => P,
           \A caller \in Callers, newRoot \in Root : SetRoot(caller, newRoot) => P,
           \A caller \in Callers, account \in Account : Revoke(caller, account) => P,
           ManageRoles => P,
           Tick => P
    PROVE  P
BY DEF Next, Transaction

(* The initial state is well typed. *)
LEMMA InitTyping == ASSUME Init PROVE TypeOK
<1>1. RolesTypeOK
  BY RolesInitTyping DEF Init
<1>2. 0 \in Uint /\ 0 \in 0 .. MaxTime
  BY FieldAssumption, MaxTimeAssumption DEF Uint
<1>3. redemptions \in Seq(Redemption) /\ Len(redemptions) = 0
  BY DEF Init
<1>4. QED
  BY <1>1, <1>2, <1>3 DEF Init, TypeOK

(* Every step keeps the registry's variables in their types. *)
LEMMA StepTyping == ASSUME TypeOK, [Next]_registryVars PROVE TypeOK'
<1>. USE DEF TypeOK
<1>1. ASSUME NEW caller \in Callers, NEW s \in PubSignals,
             RedeemProof(caller, s)
      PROVE  TypeOK'
  <2>1. /\ s.nullifier \in Nullifier
        /\ s.expiry \in Uint
        /\ caller \in Account
    BY DEF PubSignals, Callers
  <2>2. redemptions' \in Seq(Redemption)
    BY <1>1, <2>1 DEF RedeemProof, Redeem, Redemption
  <2>3. revokedAt' \in [Account -> 0 .. Len(redemptions')]
    BY <1>1 DEF RedeemProof, Redeem
  <2>4. /\ spentNullifiers' \in [Nullifier -> BOOLEAN]
        /\ verifiedUntil' \in [Account -> Uint]
    BY <1>1, <2>1 DEF RedeemProof, Redeem
  <2>5. RolesTypeOK' /\ currentRoot' \in Root /\ now' \in 0 .. MaxTime
    BY <1>1 DEF RedeemProof, Redeem, rolesVars, RolesTypeOK
  <2>6. QED
    BY <2>2, <2>3, <2>4, <2>5
<1>2. ASSUME NEW caller \in Callers, NEW newRoot \in Root,
             SetRoot(caller, newRoot)
      PROVE  TypeOK'
  BY <1>2 DEF SetRoot, rolesVars, historyVars, RolesTypeOK
<1>3. ASSUME NEW caller \in Callers, NEW account \in Account,
             Revoke(caller, account)
      PROVE  TypeOK'
  <2>1. 0 \in Uint
    BY FieldAssumption DEF Uint
  <2>2. Len(redemptions) \in 0 .. Len(redemptions)
    OBVIOUS
  <2>3. /\ verifiedUntil' \in [Account -> Uint]
        /\ revokedAt' \in [Account -> 0 .. Len(redemptions')]
    BY <1>3, <2>1, <2>2 DEF Revoke
  <2>4. QED
    BY <1>3, <2>3 DEF Revoke, rolesVars, RolesTypeOK
<1>4. CASE ManageRoles
  BY <1>4, RolesTyping DEF ManageRoles, storageVars, historyVars
<1>5. CASE Tick
  BY <1>5, MaxTimeAssumption
     DEF Tick, rolesVars, storageVars, historyVars, RolesTypeOK
<1>6. CASE UNCHANGED registryVars
  BY <1>6 DEF registryVars, RolesTypeOK
<1>7. QED
  BY <1>1, <1>2, <1>3, <1>4, <1>5, <1>6, NextCases

(* The registry's variables keep their types.                              *)
THEOREM TypeInvariant == Spec => []TypeOK
BY InitTyping, StepTyping, PTL DEF Spec

-----------------------------------------------------------------------------
(* What an accepted redemption is: the nullifier it burns is the canonical *)
(* one of a credential in the published tree, and was unspent; the event   *)
(* it emits comes after all the others.                                    *)
LEMMA RedeemFacts ==
    ASSUME TypeOK, NEW caller \in Callers, NEW s \in PubSignals,
           RedeemProof(caller, s)
    PROVE  /\ s.nullifier \in Nullifier
           /\ s.nullifier.wraps = 0
           /\ s.nullifier.root = currentRoot
           /\ ~ spentNullifiers[s.nullifier]
           /\ s.expiry \in Nat /\ s.expiry # 0
           /\ \E c \in Leaves[currentRoot] :
                 /\ c.secret = s.nullifier.secret
                 /\ c.expiry = s.expiry
           /\ Len(redemptions) \in Nat
           /\ Len(redemptions') = Len(redemptions) + 1
           /\ \A i \in 1 .. Len(redemptions) : redemptions'[i] = redemptions[i]
           /\ redemptions'[Len(redemptions) + 1]
                 = [holder |-> caller, nullifier |-> s.nullifier,
                    expiry |-> s.expiry]
<1>1. /\ s.nullifier \in Nullifier
      /\ s.expiry \in 0 .. 2 * Field - 1
      /\ s.root = currentRoot
      /\ s.expiry > now
      /\ now \in Nat
      /\ ~ spentNullifiers[s.nullifier]
      /\ s.nullifier.wraps = 0
      /\ s.expiry < Field
      /\ Satisfiable(s)
  BY DEF RedeemProof, VerifyProof, CheckField, PubSignals, Uint, TypeOK
<1>2. s.expiry \in 0 .. Field - 1 /\ s.expiry % Field = s.expiry
  BY <1>1, FieldAssumption
<1>3. PICK c \in Leaves[currentRoot] :
          /\ c.expiry = s.expiry
          /\ Residue(s.nullifier) = NullifierOf(c.secret, currentRoot)
  BY <1>1, <1>2 DEF Satisfiable
<1>4. Residue(s.nullifier) = s.nullifier
  BY <1>1 DEF Residue, Nullifier
<1>5. s.nullifier.secret = c.secret /\ s.nullifier.root = currentRoot
  BY <1>3, <1>4 DEF NullifierOf
<1>6. redemptions \in Seq(Redemption) /\ Len(redemptions) \in Nat
  BY DEF TypeOK
<1>7. redemptions' = Append(redemptions, [holder |-> caller,
                                          nullifier |-> s.nullifier,
                                          expiry |-> s.expiry])
  BY DEF RedeemProof, Redeem
<1>8. [holder |-> caller, nullifier |-> s.nullifier, expiry |-> s.expiry]
          \in Redemption
  BY <1>1 DEF Redemption, Callers, Uint
<1>9. /\ Len(redemptions') = Len(redemptions) + 1
      /\ \A i \in 1 .. Len(redemptions) : redemptions'[i] = redemptions[i]
      /\ redemptions'[Len(redemptions) + 1]
            = [holder |-> caller, nullifier |-> s.nullifier,
               expiry |-> s.expiry]
  BY <1>6, <1>7, <1>8
<1>10. QED
  BY <1>1, <1>2, <1>3, <1>5, <1>6, <1>9

(* A step that leaves the three records alone keeps what relates them. *)
LEMMA RecordsUnchanged ==
    ASSUME IInv, UNCHANGED <<spentNullifiers, verifiedUntil, historyVars>>
    PROVE  (SpentMatchesEvents /\ EventsDistinct /\ EventsGenuine
              /\ StorageMatchesEvents)'
BY DEF IInv, historyVars, SpentMatchesEvents, EventsDistinct, EventsGenuine,
       StorageMatchesEvents, Standing

LEMMA InitInv == ASSUME Init PROVE IInv
<1>1. TypeOK
  BY InitTyping
<1>2. Len(redemptions) = 0
  BY DEF Init
<1>3. SpentMatchesEvents /\ EventsDistinct /\ EventsGenuine
  BY <1>2 DEF Init, SpentMatchesEvents, EventsDistinct, EventsGenuine
<1>4. StorageMatchesEvents
  <2>1. \A a \in Account : verifiedUntil[a] = 0
    BY DEF Init
  <2>2. 1 .. Len(redemptions) = {}
    BY <1>2
  <2>3. QED
    BY <2>1, <2>2, Zenon DEF StorageMatchesEvents
<1>5. QED
  BY <1>1, <1>3, <1>4 DEF IInv

(* Redeeming: the new event is the only one with its nullifier, and is the *)
(* one its sender's verification now rests on.                             *)
LEMMA RedeemInv ==
    ASSUME IInv, NEW caller \in Callers, NEW s \in PubSignals,
           RedeemProof(caller, s)
    PROVE  (SpentMatchesEvents /\ EventsDistinct /\ EventsGenuine
              /\ StorageMatchesEvents)'
<1>1. TypeOK
  BY DEF IInv
<1>0. PICK n \in Nat : n = Len(redemptions)
  BY <1>1 DEF TypeOK
<1>2. /\ s.nullifier \in Nullifier
      /\ s.nullifier.wraps = 0
      /\ s.nullifier.root = currentRoot
      /\ ~ spentNullifiers[s.nullifier]
      /\ s.expiry \in Nat /\ s.expiry # 0
      /\ \E c \in Leaves[currentRoot] :
            /\ c.secret = s.nullifier.secret
            /\ c.expiry = s.expiry
      /\ n \in Nat
      /\ Len(redemptions') = n + 1
      /\ \A i \in 1 .. n : redemptions'[i] = redemptions[i]
      /\ redemptions'[n + 1] = [holder |-> caller, nullifier |-> s.nullifier,
                                expiry |-> s.expiry]
  BY <1>0, <1>1, RedeemFacts
<1>3. /\ spentNullifiers' = [spentNullifiers EXCEPT ![s.nullifier] = TRUE]
      /\ verifiedUntil' = [verifiedUntil EXCEPT ![caller] = s.expiry]
      /\ revokedAt' = revokedAt
  BY DEF RedeemProof, Redeem
<1>4. /\ \A i \in 1 .. n + 1 : i \in 1 .. n \/ i = n + 1
      /\ \A i \in 1 .. n : i \in 1 .. n + 1 /\ i # n + 1
      /\ n + 1 \in 1 .. n + 1
  BY <1>2
<1>5. \A i \in 1 .. n : redemptions[i].nullifier # s.nullifier
  BY <1>0, <1>2 DEF IInv, SpentMatchesEvents
<1>6. SpentMatchesEvents'
  <2>. SUFFICES ASSUME NEW m \in Nullifier
                PROVE  spentNullifiers'[m] <=>
                         \E i \in 1 .. n + 1 : redemptions'[i].nullifier = m
    BY <1>2 DEF SpentMatchesEvents
  <2>1. spentNullifiers[m] <=> \E i \in 1 .. n : redemptions[i].nullifier = m
    BY <1>0 DEF IInv, SpentMatchesEvents
  <2>2. CASE m = s.nullifier
    <3>1. spentNullifiers'[m]
      BY <2>2, <1>1, <1>3 DEF TypeOK
    <3>2. redemptions'[n + 1].nullifier = m
      BY <2>2, <1>2
    <3>3. QED
      BY <3>1, <3>2, <1>4
  <2>3. CASE m # s.nullifier
    <3>1. spentNullifiers'[m] <=> spentNullifiers[m]
      BY <2>3, <1>1, <1>2, <1>3 DEF TypeOK
    <3>2. (\E i \in 1 .. n + 1 : redemptions'[i].nullifier = m)
            <=> \E i \in 1 .. n : redemptions[i].nullifier = m
      BY <2>3, <1>2, <1>4
    <3>3. QED
      BY <3>1, <3>2, <2>1
  <2>4. QED
    BY <2>2, <2>3
<1>7. EventsDistinct'
  <2>. SUFFICES ASSUME NEW i \in 1 .. n + 1, NEW j \in 1 .. n + 1,
                       redemptions'[i].nullifier = redemptions'[j].nullifier
                PROVE  i = j
    BY <1>2 DEF EventsDistinct
  <2>1. CASE i \in 1 .. n /\ j \in 1 .. n
    BY <1>0, <2>1, <1>2 DEF IInv, EventsDistinct
  <2>2. CASE i = n + 1 /\ j \in 1 .. n
    BY <2>2, <1>2, <1>5
  <2>3. CASE i \in 1 .. n /\ j = n + 1
    BY <2>3, <1>2, <1>5
  <2>4. QED
    BY <2>1, <2>2, <2>3, <1>4
<1>8. EventsGenuine'
  <2>. SUFFICES ASSUME NEW i \in 1 .. n + 1
                PROVE  /\ redemptions'[i].nullifier.wraps = 0
                       /\ redemptions'[i].expiry # 0
                       /\ \E c \in Leaves[redemptions'[i].nullifier.root] :
                             /\ c.secret = redemptions'[i].nullifier.secret
                             /\ c.expiry = redemptions'[i].expiry
    BY <1>2 DEF EventsGenuine
  <2>1. CASE i \in 1 .. n
    BY <1>0, <2>1, <1>2 DEF IInv, EventsGenuine
  <2>2. CASE i = n + 1
    BY <2>2, <1>2
  <2>3. QED
    BY <2>1, <2>2, <1>4
<1>9. StorageMatchesEvents'
  <2>. SUFFICES ASSUME NEW a \in Account
                PROVE  (IF verifiedUntil[a] = 0
                        THEN \A i \in 1 .. Len(redemptions) : ~ Standing(a, i)
                        ELSE \E i \in 1 .. Len(redemptions) :
                               /\ Standing(a, i)
                               /\ verifiedUntil[a] = redemptions[i].expiry)'
    BY DEF StorageMatchesEvents
  <2>1. revokedAt[a] \in 0 .. n
    BY <1>0, <1>1 DEF TypeOK
  <2>2. CASE a = caller
    <3>1. verifiedUntil'[a] = s.expiry
      BY <2>2, <1>1, <1>3 DEF TypeOK
    <3>2. /\ n + 1 \in revokedAt'[a] + 1 .. Len(redemptions')
          /\ n + 1 \in 1 .. Len(redemptions')
      BY <2>1, <1>2, <1>3
    <3>3. \A j \in n + 1 + 1 .. Len(redemptions') : redemptions'[j].holder # a
      BY <1>2
    <3>4. Standing(a, n + 1)'
      BY <2>2, <3>2, <3>3, <1>2 DEF Standing
    <3>5. QED
      BY <3>1, <3>2, <3>4, <1>2
  <2>3. CASE a # caller
    <3>1. verifiedUntil'[a] = verifiedUntil[a]
      BY <2>3, <1>1, <1>3 DEF TypeOK
    <3>2. ~ Standing(a, n + 1)'
      BY <2>3, <1>2 DEF Standing
    <3>3. ASSUME NEW i \in 1 .. n
          PROVE  Standing(a, i)' <=> Standing(a, i)
      <4>1. \A j \in i + 1 .. n + 1 : j \in i + 1 .. n \/ j = n + 1
        BY <1>2
      <4>2. \A j \in i + 1 .. n : j \in i + 1 .. n + 1 /\ j \in 1 .. n
        BY <1>2
      <4>3. (\A j \in i + 1 .. n + 1 : redemptions'[j].holder # a)
              <=> \A j \in i + 1 .. n : redemptions[j].holder # a
        BY <4>1, <4>2, <2>3, <1>2
      <4>4. i \in revokedAt[a] + 1 .. n + 1 <=> i \in revokedAt[a] + 1 .. n
        BY <2>1, <1>2
      <4>5. redemptions'[i].holder = redemptions[i].holder
        BY <1>2
      <4>6. QED
        BY <1>0, <4>3, <4>4, <4>5, <1>2, <1>3 DEF Standing
    <3>4. IF verifiedUntil[a] = 0
          THEN \A i \in 1 .. n : ~ Standing(a, i)
          ELSE \E i \in 1 .. n :
                 Standing(a, i) /\ verifiedUntil[a] = redemptions[i].expiry
      BY <1>0 DEF IInv, StorageMatchesEvents
    <3>5. CASE verifiedUntil[a] = 0
      BY <3>5, <3>1, <3>2, <3>3, <3>4, <1>2, <1>4
    <3>6. CASE verifiedUntil[a] # 0
      BY <3>6, <3>1, <3>3, <3>4, <1>2, <1>4
    <3>7. QED
      BY <3>5, <3>6
  <2>4. QED
    BY <2>2, <2>3
<1>10. QED
  BY <1>6, <1>7, <1>8, <1>9

(* Revoking: the account's standing redemption now precedes its            *)
(* revocation; nobody else's does.                                         *)
LEMMA RevokeInv ==
    ASSUME IInv, NEW caller \in Callers, NEW account \in Account,
           Revoke(caller, account)
    PROVE  (SpentMatchesEvents /\ EventsDistinct /\ EventsGenuine
              /\ StorageMatchesEvents)'
<1>1. /\ TypeOK
      /\ Len(redemptions) \in Nat
  BY DEF IInv, TypeOK
<1>2. /\ verifiedUntil' = [verifiedUntil EXCEPT ![account] = 0]
      /\ revokedAt' = [revokedAt EXCEPT ![account] = Len(redemptions)]
      /\ UNCHANGED <<spentNullifiers, redemptions>>
  BY DEF Revoke
<1>3. (SpentMatchesEvents /\ EventsDistinct /\ EventsGenuine)'
  BY <1>2 DEF IInv, SpentMatchesEvents, EventsDistinct, EventsGenuine
<1>4. ASSUME NEW a \in Account
      PROVE  (IF verifiedUntil[a] = 0
              THEN \A i \in 1 .. Len(redemptions) : ~ Standing(a, i)
              ELSE \E i \in 1 .. Len(redemptions) :
                     /\ Standing(a, i)
                     /\ verifiedUntil[a] = redemptions[i].expiry)'
  <2>1. CASE a = account
    <3>1. verifiedUntil'[a] = 0 /\ revokedAt'[a] = Len(redemptions)
      BY <2>1, <1>1, <1>2 DEF TypeOK
    <3>2. revokedAt'[a] + 1 .. Len(redemptions') = {}
      BY <3>1, <1>1, <1>2
    <3>3. QED
      BY <3>1, <3>2 DEF Standing
  <2>2. CASE a # account
    <3>1. verifiedUntil'[a] = verifiedUntil[a] /\ revokedAt'[a] = revokedAt[a]
      BY <2>2, <1>1, <1>2 DEF TypeOK
    <3>2. \A i \in 1 .. Len(redemptions) : Standing(a, i)' <=> Standing(a, i)
      BY <3>1, <1>2 DEF Standing
    <3>3. QED
      BY <3>1, <3>2, <1>2 DEF IInv, StorageMatchesEvents
  <2>3. QED
    BY <2>1, <2>2
<1>5. QED
  BY <1>3, <1>4 DEF StorageMatchesEvents

LEMMA StepInv == ASSUME IInv, [Next]_registryVars PROVE IInv'
<1>. DEFINE P == SpentMatchesEvents /\ EventsDistinct /\ EventsGenuine
                   /\ StorageMatchesEvents
<1>1. TypeOK'
  BY StepTyping DEF IInv
<1>2. ASSUME NEW caller \in Callers, NEW s \in PubSignals,
             RedeemProof(caller, s)
      PROVE  P'
  BY <1>2, RedeemInv
<1>3. ASSUME NEW caller \in Callers, NEW newRoot \in Root,
             SetRoot(caller, newRoot)
      PROVE  P'
  BY <1>3, RecordsUnchanged DEF SetRoot
<1>4. ASSUME NEW caller \in Callers, NEW account \in Account,
             Revoke(caller, account)
      PROVE  P'
  BY <1>4, RevokeInv
<1>5. ASSUME ManageRoles PROVE P'
  BY <1>5, RecordsUnchanged DEF ManageRoles, storageVars
<1>6. ASSUME Tick PROVE P'
  BY <1>6, RecordsUnchanged DEF Tick, storageVars
<1>7. ASSUME UNCHANGED registryVars PROVE P'
  BY <1>7, RecordsUnchanged DEF registryVars, historyVars
<1>8. P'
  <2>. HIDE DEF P
  <2>. QED
    BY <1>2, <1>3, <1>4, <1>5, <1>6, <1>7, NextCases
<1>9. QED
  BY <1>1, <1>8 DEF IInv

(* The nullifier of every event is one.                                    *)
LEMMA EventTyping ==
    ASSUME TypeOK, NEW k \in 1 .. Len(redemptions)
    PROVE  redemptions[k].nullifier \in Nullifier
<1>1. redemptions[k] \in Redemption
  BY DEF TypeOK
<1>2. QED
  BY <1>1 DEF Redemption

(* The invariant holds in every reachable state. *)
LEMMA Invariance == Spec => []IInv
BY InitInv, StepInv, PTL DEF Spec

-----------------------------------------------------------------------------
(* Whatever representatives of a nullifier are submitted, and however the  *)
(* root rotates, no credential secret is redeemed twice under one root.    *)
THEOREM SingleRedemption == Spec => []OneRedemptionPerEpoch
<1>1. IInv => OneRedemptionPerEpoch
  <2>. SUFFICES ASSUME IInv,
                       NEW i \in 1 .. Len(redemptions),
                       NEW j \in 1 .. Len(redemptions),
                       Residue(redemptions[i].nullifier)
                         = Residue(redemptions[j].nullifier)
                PROVE  i = j
    BY DEF OneRedemptionPerEpoch
  <2>1. \A k \in 1 .. Len(redemptions) :
            redemptions[k].nullifier \in Nullifier
    BY EventTyping DEF IInv
  <2>2. \A k \in 1 .. Len(redemptions) :
            Residue(redemptions[k].nullifier) = redemptions[k].nullifier
    BY <2>1 DEF IInv, EventsGenuine, Nullifier, Residue
  <2>3. QED
    BY <2>2 DEF IInv, EventsDistinct
<1>2. QED
  BY <1>1, Invariance, PTL

(* The expiry map is what the event log says, through redemptions,         *)
(* revocations and rotations in every order.                               *)
THEOREM EventsDetermineStorage == Spec => []StorageMatchesEvents
<1>1. IInv => StorageMatchesEvents
  BY DEF IInv
<1>2. QED
  BY <1>1, Invariance, PTL

(* A verification never outlives the credential it was granted for.        *)
THEOREM Backing == Spec => []VerificationIsBacked
<1>1. IInv => VerificationIsBacked
  <2>. SUFFICES ASSUME IInv, NEW a \in Account, verifiedUntil[a] # 0
                PROVE  \E r \in Root : \E c \in Leaves[r] :
                          /\ c.expiry = verifiedUntil[a]
                          /\ spentNullifiers[NullifierOf(c.secret, r)]
    BY DEF VerificationIsBacked
  <2>1. PICK i \in 1 .. Len(redemptions) :
            verifiedUntil[a] = redemptions[i].expiry
    BY DEF IInv, StorageMatchesEvents
  <2>. DEFINE n == redemptions[i].nullifier
  <2>2. n \in Nullifier
    BY EventTyping DEF IInv
  <2>3. PICK c \in Leaves[n.root] :
            c.secret = n.secret /\ c.expiry = verifiedUntil[a]
    BY <2>1 DEF IInv, EventsGenuine
  <2>4. n = NullifierOf(c.secret, n.root)
    BY <2>2, <2>3 DEF IInv, EventsGenuine, Nullifier, NullifierOf
  <2>5. spentNullifiers[n]
    BY <2>2 DEF IInv, SpentMatchesEvents
  <2>6. n.root \in Root
    BY <2>2 DEF Nullifier
  <2>7. QED
    BY <2>3, <2>4, <2>5, <2>6
<1>2. QED
  BY <1>1, Invariance, PTL

(* A verification is extended only by burning a fresh nullifier of the     *)
(* root that is published at that moment.                                  *)
THEOREM ExtensionsBurn == Spec => ExtendingBurns
<1>1. ASSUME TypeOK, [Next]_registryVars, NEW a \in Account
      PROVE  BurnsToExtend(a)
  <2>0. verifiedUntil[a] \in Nat
    BY <1>1, FieldAssumption DEF TypeOK, Uint
  <2>1. ASSUME NEW caller \in Callers, NEW s \in PubSignals,
               RedeemProof(caller, s)
        PROVE  BurnsToExtend(a)
    <3>1. /\ s.nullifier \in Nullifier
          /\ s.nullifier = NullifierOf(s.nullifier.secret, currentRoot)
          /\ ~ spentNullifiers[s.nullifier]
      BY <1>1, <2>1, RedeemFacts DEF Nullifier, NullifierOf
    <3>2. spentNullifiers'[s.nullifier]
      BY <1>1, <2>1, <3>1 DEF RedeemProof, Redeem, TypeOK
    <3>3. s.nullifier.secret \in Secret
      BY <3>1 DEF Nullifier
    <3>4. QED
      BY <3>1, <3>2, <3>3 DEF BurnsToExtend
  <2>2. ASSUME NEW caller \in Callers, NEW newRoot \in Root,
               SetRoot(caller, newRoot)
        PROVE  BurnsToExtend(a)
    BY <2>0, <2>2 DEF SetRoot, BurnsToExtend
  <2>3. ASSUME NEW caller \in Callers, NEW account \in Account,
               Revoke(caller, account)
        PROVE  BurnsToExtend(a)
    <3>1. verifiedUntil'[a] = 0 \/ verifiedUntil'[a] = verifiedUntil[a]
      BY <1>1, <2>3 DEF Revoke, TypeOK
    <3>2. QED
      BY <2>0, <3>1 DEF BurnsToExtend
  <2>4. CASE ManageRoles
    BY <2>0, <2>4 DEF ManageRoles, storageVars, BurnsToExtend
  <2>5. CASE Tick
    BY <2>0, <2>5 DEF Tick, storageVars, BurnsToExtend
  <2>6. CASE UNCHANGED registryVars
    BY <2>0, <2>6 DEF registryVars, BurnsToExtend
  <2>7. QED
    BY <1>1, <2>1, <2>2, <2>3, <2>4, <2>5, <2>6, NextCases
<1>2. TypeOK /\ [Next]_registryVars
        => [\A a \in Account : BurnsToExtend(a)]_registryVars
  BY <1>1
<1>3. QED
  BY <1>2, TypeInvariant, PTL DEF Spec, ExtendingBurns

-----------------------------------------------------------------------------
(* The registry implements the ledger.  Only the redemption needs the      *)
(* inductive invariant: that no alias of an unspent nullifier is spent.    *)

(* What is marked spent is the canonical nullifier of its secret and root. *)
LEMMA SpentCanonical ==
    ASSUME IInv, NEW n \in Nullifier, spentNullifiers[n]
    PROVE  n = NullifierOf(n.secret, n.root)
<1>1. n.wraps = 0
  BY DEF IInv, SpentMatchesEvents, EventsGenuine
<1>2. QED
  BY <1>1 DEF Nullifier, NullifierOf

(* Burned depends on the nullifier map alone. *)
LEMMA BurnedUnchanged ==
    ASSUME UNCHANGED spentNullifiers PROVE UNCHANGED Burned
BY DEF Burned

(* Redeeming burns exactly the pair of the nullifier's secret and root. *)
LEMMA RedeemBurns ==
    ASSUME TypeOK, NEW n \in Nullifier,
           spentNullifiers' = [spentNullifiers EXCEPT ![n] = TRUE]
    PROVE  Burned' = Burned \cup {<<n.secret, n.root>>}
<1>1. \A m \in Nullifier :
          spentNullifiers'[m] <=> (spentNullifiers[m] \/ m = n)
  BY DEF TypeOK
<1>2. {m \in Nullifier : spentNullifiers'[m]}
        = {m \in Nullifier : spentNullifiers[m]} \cup {n}
  BY <1>1
<1>3. QED
  BY <1>2 DEF Burned

(* A redemption is a grant to its sender, for a credential in the tree.    *)
LEMMA RedeemGrants ==
    ASSUME IInv, NEW caller \in Callers, NEW s \in PubSignals,
           RedeemProof(caller, s)
    PROVE  Ledger!LedgerNext
<1>1. TypeOK
  BY DEF IInv
<1>2. PICK c \in Leaves[currentRoot] :
          c.secret = s.nullifier.secret /\ c.expiry = s.expiry
  BY <1>1, RedeemFacts
<1>3. /\ s.nullifier \in Nullifier
      /\ s.nullifier = NullifierOf(c.secret, currentRoot)
      /\ ~ spentNullifiers[s.nullifier]
  BY <1>1, <1>2, RedeemFacts DEF Nullifier, NullifierOf
<1>4. /\ spentNullifiers' = [spentNullifiers EXCEPT ![s.nullifier] = TRUE]
      /\ verifiedUntil' = [verifiedUntil EXCEPT ![caller] = s.expiry]
      /\ UNCHANGED <<currentRoot, now>>
      /\ s.expiry > now
  BY DEF RedeemProof, Redeem
<1>5. <<c.secret, currentRoot>> \notin Burned
  <2>. SUFFICES ASSUME NEW n \in Nullifier, spentNullifiers[n],
                       n.secret = c.secret, n.root = currentRoot
                PROVE  FALSE
    BY DEF Burned
  <2>1. n = NullifierOf(c.secret, currentRoot)
    BY SpentCanonical
  <2>2. QED
    BY <2>1, <1>3
<1>6. Burned' = Burned \cup {<<c.secret, currentRoot>>}
  <2>1. Burned' = Burned \cup {<<s.nullifier.secret, s.nullifier.root>>}
    BY <1>1, <1>3, <1>4, RedeemBurns
  <2>2. s.nullifier.secret = c.secret /\ s.nullifier.root = currentRoot
    BY <1>3 DEF NullifierOf
  <2>3. QED
    BY <2>1, <2>2
<1>7. c \in Credential
  BY <1>1, LeavesAssumption DEF TypeOK
<1>8. Ledger!Grant(caller, c)
  BY <1>2, <1>4, <1>5, <1>6 DEF Ledger!Grant
<1>9. QED
  BY <1>7, <1>8 DEF Ledger!LedgerNext, Ledger!Callers, Callers,
                    Ledger!Credential, Credential

(* Every step of the registry is one of the ledger, or stutters. *)
LEMMA StepRefines ==
    ASSUME IInv, [Next]_registryVars
    PROVE  [Ledger!LedgerNext]_(Ledger!ledgerVars)
<1>1. ASSUME NEW caller \in Callers, NEW s \in PubSignals,
             RedeemProof(caller, s)
      PROVE  Ledger!LedgerNext
  BY <1>1, RedeemGrants
<1>2. ASSUME NEW caller \in Callers, NEW newRoot \in Root,
             SetRoot(caller, newRoot)
      PROVE  Ledger!LedgerNext
  <2>1. Ledger!Replace(newRoot)
    BY <1>2, BurnedUnchanged DEF SetRoot, Ledger!Replace
  <2>2. QED
    BY <2>1 DEF Ledger!LedgerNext
<1>3. ASSUME NEW caller \in Callers, NEW account \in Account,
             Revoke(caller, account)
      PROVE  Ledger!LedgerNext
  <2>1. Ledger!Withdraw(account)
    BY <1>3, BurnedUnchanged DEF Revoke, Ledger!Withdraw
  <2>2. QED
    BY <2>1 DEF Ledger!LedgerNext
<1>4. CASE ManageRoles
  <2>1. UNCHANGED Ledger!ledgerVars
    BY <1>4, BurnedUnchanged DEF ManageRoles, storageVars, Ledger!ledgerVars
  <2>2. QED
    BY <2>1
<1>5. CASE Tick
  <2>1. Ledger!Advance
    BY <1>5, BurnedUnchanged DEF Tick, storageVars, Ledger!Advance
  <2>2. QED
    BY <2>1 DEF Ledger!LedgerNext
<1>6. CASE UNCHANGED registryVars
  <2>1. UNCHANGED Ledger!ledgerVars
    BY <1>6, BurnedUnchanged DEF registryVars, Ledger!ledgerVars
  <2>2. QED
    BY <2>1
<1>7. QED
  BY <1>1, <1>2, <1>3, <1>4, <1>5, <1>6, NextCases

(* The registry's storage changes only as the ledger of grants may.        *)
THEOREM RegistryImplementsLedger == Spec => LedgerImplemented
<1>1. Init => Ledger!LedgerInit
  <2>. SUFFICES ASSUME Init PROVE Ledger!LedgerInit
    OBVIOUS
  <2>1. Burned = {}
    BY DEF Init, Burned
  <2>2. QED
    BY <2>1 DEF Init, Ledger!LedgerInit
<1>2. IInv /\ [Next]_registryVars => [Ledger!LedgerNext]_(Ledger!ledgerVars)
  BY StepRefines
<1>3. QED
  BY <1>1, <1>2, Invariance, PTL
     DEF Spec, LedgerImplemented, Ledger!LedgerSpec

=============================================================================
