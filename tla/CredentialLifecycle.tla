------------------------- MODULE CredentialLifecycle -------------------------
(***************************************************************************)
(* A credential from its issuance to its redemption: kycctl issue and root *)
(* at the issuer, the owner's setRoot, kycctl prove at the holder, and     *)
(* redeemProof.  Each works on what it saw last: issue commands may run at *)
(* the same time and drop each other's leaves; the owner publishes any of  *)
(* the roots that were printed, or takes all back; a proof is made from    *)
(* the file, which may be ahead of the published root, or no longer in its *)
(* line, and is submitted later, when the root may have moved on.          *)
(*                                                                         *)
(* A root is the sequence of the leaves below it, as in CredentialProof.   *)
(* The deployer is the issuer, the owner and the only agent.               *)
(***************************************************************************)
EXTENDS ZKComplianceRegistry, SequencesExt

CONSTANTS
    Issuance, LeafOf,       \* the issue commands, and what each appends
    HolderOf,               \* HolderOf[s]: the account whose user holds s
    NoFile, Empty, Garbled, MaxRunning, MaxCrashes, \* as in StateFile
    MaxSetbacks             \* bound on what the operator takes back

VARIABLES
    file, issuePc, memory, crashes,  \* of the issue commands, as in StateFile
    printed,        \* the roots printed so far, by issue and by root
    setbacks,       \* how often the operator took credentials back
    proofs          \* the calldata that kycctl prove has printed, for anyone

fileVars      == <<file, issuePc, memory, crashes>>
lifecycleVars == <<registryVars, fileVars, printed, setbacks, proofs>>

Issuing == INSTANCE StateFile
    WITH Leaf <- Credential, pc <- issuePc, state <- memory

Issuable == {LeafOf[p] : p \in Issuance}

ASSUME IssueAssumption ==
    /\ IsFiniteSet(Issuance) /\ LeafOf \in [Issuance -> Credential]
    /\ MaxCrashes \in Nat
    /\ NoFile \notin Issuing!Unparsable
    /\ ({NoFile} \cup Issuing!Unparsable) \cap Seq(Credential) = {}
ASSUME HolderAssumption == HolderOf \in [Secret -> Callers]
ASSUME RootAssumption   ==
    /\ \A n \in 0 .. Cardinality(Issuance) : [1 .. n -> Issuable] \subseteq Root
    /\ \A r \in Root : r \in Seq(Credential) /\ Leaves[r] = ToSet(r)

-----------------------------------------------------------------------------
(* Nothing can be redeemed under the zero root, nor under that of the      *)
(* empty tree; the one stands for both.                                    *)
NoTree == <<>>

LifecycleInit ==
    /\ Init
    /\ currentRoot = NoTree
    /\ Issuing!FileInit
    /\ printed = {}
    /\ setbacks = 0
    /\ proofs = {}

(* An issue command, which prints its root at the end.                     *)
Issue(p) ==
    /\ \/ /\ \/ Issuing!Load(p) \/ Issuing!LoadFails(p) \/ Issuing!Truncate(p)
             \/ Issuing!Write(p) \/ Issuing!Crash(p)
          /\ UNCHANGED printed
       \/ /\ Issuing!Finish(p)
          /\ printed' = printed \cup {memory[p]}
    /\ UNCHANGED <<registryVars, setbacks, proofs>>

PrintRoot ==
    /\ Issuing!Parsed
    /\ printed' = printed \cup {file}
    /\ UNCHANGED <<registryVars, fileVars, setbacks, proofs>>

Setback == setbacks < MaxSetbacks /\ setbacks' = setbacks + 1

(* The operator removes a leaf from the file by hand, for a revoked        *)
(* credential not to come back.                                            *)
RemoveLeaf(i) ==
    /\ Issuing!Parsed /\ i \in DOMAIN file
    /\ Setback
    /\ file' = RemoveAt(file, i)
    /\ UNCHANGED <<registryVars, issuePc, memory, crashes, printed, proofs>>

(* The owner publishes a root that was printed, in whatever order, or none *)
(* at all; and sets the holders back if it is not that of the file.        *)
Publish(root) ==
    /\ root \in printed \cup {NoTree}
    /\ SetRoot(owner, root)
    /\ IF root = file THEN UNCHANGED setbacks ELSE Setback
    /\ UNCHANGED <<fileVars, printed, proofs>>

(* The signals in the calldata for a credential under a root. *)
SignalsOf(c, root) == [nullifier  |-> NullifierOf(c.secret, root),
                       root       |-> root,
                       holderAddr |-> HolderOf[c.secret],
                       expiry     |-> c.expiry]

InFile(c) == Issuing!Parsed /\ c \in ToSet(file)

(* A faulty variant of prove: calldata printed once is printed again.      *)
ProveOnce(c) ==
    /\ InFile(c)
    /\ \A s \in proofs : s.nullifier.secret # c.secret
    /\ proofs' = proofs \cup {SignalsOf(c, file)}
    /\ UNCHANGED <<registryVars, fileVars, printed, setbacks>>

(* The proof is of the root of the file as it is now. *)
Prove(c) ==
    /\ InFile(c)
    /\ proofs' = proofs \cup {SignalsOf(c, file)}
    /\ UNCHANGED <<registryVars, fileVars, printed, setbacks>>

(* What a user may submit with proofs of its own making: any signals for   *)
(* its secrets and the published root.                                     *)
OwnSignals(caller) ==
    {[nullifier  |-> [secret |-> k, root |-> currentRoot, wraps |-> w],
      root       |-> currentRoot,
      holderAddr |-> caller,
      expiry     |-> e] :
        k \in {k \in Secret : HolderOf[k] = caller}, w \in Wraps, e \in Uint}

(* Whoever has seen the calldata can submit it. *)
Submit(caller, s) ==
    /\ s \in proofs \cup OwnSignals(caller)
    /\ RedeemProof(caller, s)
    /\ UNCHANGED <<fileVars, printed, setbacks, proofs>>

RevokeHolder(account) ==
    /\ Revoke(owner, account)
    /\ UNCHANGED <<fileVars, printed, setbacks, proofs>>

TimePasses == Tick /\ UNCHANGED <<fileVars, printed, setbacks, proofs>>

LifecycleNext ==
    \/ \E p \in Issuance : Issue(p)
    \/ PrintRoot
    \/ \E i \in 1 .. Cardinality(Issuance) : RemoveLeaf(i)
    \/ \E root \in printed \cup {NoTree} : Publish(root)
    \/ \E c \in Issuable : Prove(c)
    \/ \E caller \in Callers :
          \E s \in proofs \cup OwnSignals(caller) : Submit(caller, s)
    \/ \E account \in Callers : RevokeHolder(account)
    \/ TimePasses

LifecycleSpec == LifecycleInit /\ [][LifecycleNext]_lifecycleVars

(* The holder of a secret submits what has been proved with it. *)
HolderSubmits(secret) ==
    \E s \in proofs :
        s.nullifier.secret = secret /\ Submit(HolderOf[secret], s)

(* The issuer prints the root again, the owner publishes it and the holder *)
(* proves and submits again, whenever that would change anything.  Nobody  *)
(* has to issue, nor an issue command to go on.                            *)
Fairness ==
    /\ WF_lifecycleVars(PrintRoot)
    /\ WF_lifecycleVars(Publish(file))
    /\ \A c \in Issuable : WF_lifecycleVars(Prove(c))
    /\ \A secret \in Secret : WF_lifecycleVars(HolderSubmits(secret))

FairLifecycle == LifecycleSpec /\ Fairness

-----------------------------------------------------------------------------
(* Calldata is of no use to a thief: whoever submits it, and whatever      *)
(* roots come and go, a redemption of a secret's nullifier verifies the    *)
(* account that the secret's holder proved for, and no other.  (The        *)
(* binding of holderAddr, with the check of msg.sender.)                   *)
OnlyHolderRedeems ==
    \A i \in 1 .. Len(redemptions) :
        redemptions[i].holder = HolderOf[redemptions[i].nullifier.secret]

(* The registry never gets ahead of the issuer: what was redeemed is a     *)
(* credential that an issue command appended, with its own expiry, under a *)
(* root that a command had printed and that has it -- although commands    *)
(* race and are killed, the file drops leaves and may be lost, roots are   *)
(* published late, in any order and again, and holders submit signals of   *)
(* their own making.                                                       *)
RedeemedWereIssued ==
    \A i \in 1 .. Len(redemptions) :
        LET n == redemptions[i].nullifier IN
        /\ n.root \in printed
        /\ \E p \in Issuance :
              /\ issuePc[p] # "start"
              /\ LeafOf[p].secret = n.secret
              /\ LeafOf[p].expiry = redemptions[i].expiry
              /\ LeafOf[p] \in ToSet(n.root)

(* The holder of a credential has had its redemption under a root that has *)
(* it.  (With a renewal below the same root, the two share a nullifier,    *)
(* and the holder has the choice.)                                         *)
Redeemed(c) ==
    \E i \in 1 .. Len(redemptions) :
        LET n == redemptions[i].nullifier IN
        n.secret = c.secret /\ c \in ToSet(n.root)

(* A credential that stays in the file comes to be redeemed, or expires,   *)
(* although proofs are made too early, and are overtaken by rotations, and *)
(* older roots come back: the holder who proves again gets there.          *)
IssuedIsRedeemed ==
    \A c \in Issuable :
        <>[]InFile(c) => <>(Redeemed(c) \/ now >= c.expiry)

=============================================================================
