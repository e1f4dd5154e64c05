------------------------ MODULE ZKComplianceRegistry ------------------------
(***************************************************************************)
(* The compliance registry (src/ZKComplianceRegistry.sol).  A holder       *)
(* redeems a proof of a credential and is verified until the credential's  *)
(* expiry; the owner rotates the published root, and an agent revokes an   *)
(* address.  Transactions are steps, totally ordered by the chain; the     *)
(* block timestamp advances between them, in steps of its own.             *)
(*                                                                         *)
(* A proof is a bearer object: any account can submit any signals, so      *)
(* caller and signals are chosen independently.                            *)
(***************************************************************************)
EXTENDS Roles, KYCPassCircuit, Sequences

CONSTANT MaxTime    \* bound on the block timestamp

ASSUME MaxTimeAssumption == MaxTime \in Nat

VARIABLES
    currentRoot,        \* the published root
    spentNullifiers,    \* spentNullifiers[n]: n was redeemed
    verifiedUntil,      \* verifiedUntil[a]: 0 if never verified, or revoked
    now,                \* block.timestamp
    (* History, read by no action: *)
    redemptions,        \* the ProofRedeemed events, in order
    revokedAt           \* how many of them precede a's last revocation

storageVars  == <<currentRoot, spentNullifiers, verifiedUntil>>
historyVars  == <<redemptions, revokedAt>>
registryVars == <<owner, agents, currentRoot, spentNullifiers, verifiedUntil,
                  now, redemptions, revokedAt>>

Redemption == [holder : Account, nullifier : Nullifier, expiry : Uint]

TypeOK ==
    /\ RolesTypeOK
    /\ currentRoot \in Root
    /\ spentNullifiers \in [Nullifier -> BOOLEAN]
    /\ verifiedUntil \in [Account -> Uint]
    /\ now \in 0 .. MaxTime
    /\ redemptions \in Seq(Redemption)
    /\ revokedAt \in [Account -> 0 .. Len(redemptions)]

-----------------------------------------------------------------------------
(* The deployment publishes any root; the chain is at any time.            *)
Init ==
    /\ RolesInit
    /\ currentRoot \in Root
    /\ spentNullifiers = [n \in Nullifier |-> FALSE]
    /\ verifiedUntil = [a \in Account |-> 0]
    /\ now = 0
    /\ redemptions = <<>>
    /\ revokedAt = [a \in Account |-> 0]

(* A faulty variant of isVerified: not strict. *)
IsVerifiedAtExpiry(account) == verifiedUntil[account] >= now

(* Strict: a credential that expires exactly now reads as expired. *)
IsVerified(account) == verifiedUntil[account] > now

(* What redeemProof writes, and the event it emits. *)
Redeem(caller, s) ==
    /\ spentNullifiers' = [spentNullifiers EXCEPT ![s.nullifier] = TRUE]
    /\ verifiedUntil' = [verifiedUntil EXCEPT ![caller] = s.expiry]
    /\ redemptions' = Append(redemptions, [holder    |-> caller,
                                           nullifier |-> s.nullifier,
                                           expiry    |-> s.expiry])
    /\ UNCHANGED <<rolesVars, currentRoot, now, revokedAt>>

(* Faulty variants of redeemProof: with one of its checks left out, or     *)
(* never shortening a verification.                                        *)
RedeemKeepsLonger(caller, s) ==
    /\ s.root = currentRoot
    /\ s.holderAddr = caller
    /\ s.expiry > now
    /\ ~ spentNullifiers[s.nullifier]
    /\ VerifyProof(s)
    /\ spentNullifiers' = [spentNullifiers EXCEPT ![s.nullifier] = TRUE]
    /\ verifiedUntil' = [verifiedUntil EXCEPT
                             ![caller] = IF s.expiry > @ THEN s.expiry ELSE @]
    /\ redemptions' = Append(redemptions, [holder    |-> caller,
                                           nullifier |-> s.nullifier,
                                           expiry    |-> s.expiry])
    /\ UNCHANGED <<rolesVars, currentRoot, now, revokedAt>>

RedeemUnproved(caller, s) ==
    /\ s.root = currentRoot
    /\ s.holderAddr = caller
    /\ s.expiry > now
    /\ ~ spentNullifiers[s.nullifier]
    /\ Redeem(caller, s)

RedeemAnyRoot(caller, s) ==
    /\ s.holderAddr = caller
    /\ s.expiry > now
    /\ ~ spentNullifiers[s.nullifier]
    /\ VerifyProof(s)
    /\ Redeem(caller, s)

RedeemAnyCaller(caller, s) ==
    /\ s.root = currentRoot
    /\ s.expiry > now
    /\ ~ spentNullifiers[s.nullifier]
    /\ VerifyProof(s)
    /\ Redeem(caller, s)

RedeemProof(caller, s) ==
    /\ s.root = currentRoot
    /\ s.holderAddr = caller
    /\ s.expiry > now
    /\ ~ spentNullifiers[s.nullifier]
    /\ VerifyProof(s)
    /\ Redeem(caller, s)

SetRoot(caller, newRoot) ==
    /\ OnlyOwner(caller)
    /\ currentRoot' = newRoot
    /\ UNCHANGED <<rolesVars, spentNullifiers, verifiedUntil, now, historyVars>>

(* The spent nullifier stays spent.  The account need not be verified. *)
Revoke(caller, account) ==
    /\ OnlyAgent(caller)
    /\ verifiedUntil' = [verifiedUntil EXCEPT ![account] = 0]
    /\ revokedAt' = [revokedAt EXCEPT ![account] = Len(redemptions)]
    /\ UNCHANGED <<rolesVars, currentRoot, spentNullifiers, now, redemptions>>

(* The inherited role management. *)
ManageRoles == RolesNext /\ UNCHANGED <<storageVars, now, historyVars>>

(* The next block has a later timestamp. *)
Tick ==
    /\ now < MaxTime
    /\ now' = now + 1
    /\ UNCHANGED <<rolesVars, storageVars, historyVars>>

Transaction ==
    \/ \E caller \in Callers :
          \/ \E s \in PubSignals : RedeemProof(caller, s)
          \/ \E newRoot \in Root : SetRoot(caller, newRoot)
          \/ \E account \in Account : Revoke(caller, account)
    \/ ManageRoles

Next == Transaction \/ Tick

Spec == Init /\ [][Next]_registryVars

(* Blocks keep coming.  No account is obliged to send any transaction. *)
FairSpec == Spec /\ WF_registryVars(Tick)

-----------------------------------------------------------------------------
(* A credential is redeemed at most once under one root, whoever submits   *)
(* it, however the root rotates in between and whatever aliases of its     *)
(* nullifier are tried: no two ProofRedeemed events have the same secret   *)
(* and root.  (spentNullifiers, with the verifier's range check.)          *)
OneRedemptionPerEpoch ==
    \A i, j \in 1 .. Len(redemptions) :
        Residue(redemptions[i].nullifier) = Residue(redemptions[j].nullifier)
            => i = j

(* The redemption that account a's verification rests on: its last one, if *)
(* no revocation came after it.                                            *)
Standing(a, i) ==
    /\ i \in revokedAt[a] + 1 .. Len(redemptions)
    /\ redemptions[i].holder = a
    /\ \A j \in i + 1 .. Len(redemptions) : redemptions[j].holder # a

(* verifiedUntil is what an indexer of the contract's events computes: the *)
(* expiry of the account's last redemption since its last revocation, or 0 *)
(* if there is none.                                                       *)
StorageMatchesEvents ==
    \A a \in Account :
        IF verifiedUntil[a] = 0
        THEN \A i \in 1 .. Len(redemptions) : ~ Standing(a, i)
        ELSE \E i \in 1 .. Len(redemptions) :
                 Standing(a, i) /\ verifiedUntil[a] = redemptions[i].expiry

(* Nobody is verified for longer than a credential allows: a verification  *)
(* ends at the expiry of a credential that was in the published tree, and  *)
(* whose secret's nullifier was burned for it.                             *)
VerificationIsBacked ==
    \A a \in Account : verifiedUntil[a] # 0 =>
        \E r \in Root : \E c \in Leaves[r] :
            /\ c.expiry = verifiedUntil[a]
            /\ spentNullifiers[NullifierOf(c.secret, r)]

(* The expiry of an account grows, or comes back after a revocation, only  *)
(* by burning a nullifier of the root published at that moment that was    *)
(* unspent until then: neither rotating the root nor replaying a proof     *)
(* extends a verification.                                                 *)
BurnsToExtend(a) ==
    verifiedUntil'[a] > verifiedUntil[a] =>
        \E secret \in Secret :
            LET n == NullifierOf(secret, currentRoot) IN
            /\ ~ spentNullifiers[n]
            /\ spentNullifiers'[n]

ExtendingBurns == [][\A a \in Account : BurnsToExtend(a)]_registryVars

(* Every verification lapses with no transaction: whatever is submitted,   *)
(* and although nobody calls revoke, there comes a time after which the    *)
(* account is verified no more.                                            *)
VerificationLapses == \A a \in Account : <>[] ~ IsVerified(a)

(* src/ZKComplianceRegistry.sol says of revoke: "Its spent nullifier is    *)
(* NOT released, so a revoked holder cannot re-redeem the same credential  *)
(* to undo this."  That is: what an account redeems after it was revoked   *)
(* is not a credential it redeemed before.                                 *)
RevocationIsFinal ==
    \A i, j \in 1 .. Len(redemptions) :
        LET a == redemptions[j].holder IN
        (i <= revokedAt[a] /\ revokedAt[a] < j /\ redemptions[i].holder = a)
            => \/ redemptions[i].nullifier.secret # redemptions[j].nullifier.secret
               \/ redemptions[i].expiry # redemptions[j].expiry

=============================================================================
