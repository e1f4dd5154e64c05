--------------------------- MODULE KYCPassCircuit ---------------------------
(***************************************************************************)
(* What a Groth16 proof of circuits/kycpass.circom says, and what the      *)
(* generated verifier (src/Verifier.sol) accepts.                          *)
(*                                                                         *)
(* Poseidon is modelled as a free constructor: a credential leaf is the    *)
(* record of what is hashed into it, a nullifier the pair <secret, root>,  *)
(* a root a name for the set of leaves below it.  This is the collision    *)
(* resistance the design rests on.  The proof system is modelled by its    *)
(* statement: a proof that verifies exists exactly for the signals that    *)
(* have a witness, and the pairing reads every signal modulo the field     *)
(* order.                                                                  *)
(*                                                                         *)
(* A signal is a uint256, wider than the field, so it has aliases: value   *)
(* and value + Field are one field element.  A hash with k multiples of    *)
(* the order added to it is written with wraps = k.  An address has 160    *)
(* bits and is its own only representative.                                *)
(***************************************************************************)
EXTENDS Naturals, Accounts

CONSTANTS
    Secret,         \* holder secrets
    Issuer,         \* issuer ids
    Root,           \* values the owner may publish as Merkle root
    Leaves,         \* Leaves[r]: the credentials in the tree whose root is r
    Field           \* the order of the scalar field, FIELD_MODULUS

Credential == [secret : Secret, expiry : 0 .. Field - 1, issuer : Issuer]

ASSUME FieldAssumption  == Field \in Nat \ {0}
ASSUME LeavesAssumption == Leaves \in [Root -> SUBSET Credential]

(* How far a uint256 signal can lie above the field order. *)
Wraps == 0 .. 1
Uint  == 0 .. 2 * Field - 1

Nullifier == [secret : Secret, root : Root, wraps : Wraps]

(* pubSignals: [nullifier, root, holderAddr, expiry]. *)
PubSignals == [nullifier  : Nullifier,
               root       : Root,
               holderAddr : Account,
               expiry     : Uint]

(* The hash of secret and root, as the field element the circuit outputs. *)
NullifierOf(secret, root) == [secret |-> secret, root |-> root, wraps |-> 0]

(* The residue of a signal modulo the field order. *)
Residue(n) == [n EXCEPT !.wraps = 0]

(* The constraints of KYCPass on the public signals: some credential with  *)
(* the public expiry is below the root (MerkleInclusion), and the          *)
(* nullifier is that of its secret under the root.  The address is an      *)
(* input with no constraint but the one that binds it to the proof, so the *)
(* statement holds for every address.                                      *)
Satisfiable(s) ==
    \E c \in Leaves[s.root] :
        /\ c.expiry = s.expiry % Field
        /\ Residue(s.nullifier) = NullifierOf(c.secret, s.root)

(* Faulty variants of the verifier: without the range check of a signal. *)
NoNullifierRangeCheck(s) == s.expiry < Field
NoExpiryRangeCheck(s) == s.nullifier.wraps = 0

(* checkField on every signal: only canonical representatives pass. *)
CheckField(s) ==
    /\ s.nullifier.wraps = 0
    /\ s.expiry < Field

VerifyProof(s) == CheckField(s) /\ Satisfiable(s)

=============================================================================
