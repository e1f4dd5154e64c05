-------------------------- MODULE MCCredentialProof --------------------------
(* Roots of trees of up to Capacity leaves, each standing for itself.      *)
EXTENDS CredentialProof

CONSTANTS alice, s1, s2, issuer, i1, i2, i3

MCRoot == BoundedSeq(Credential, Capacity)

(* Typed expiries: a negative one, one in the field, and one above it. *)
MCNumeral == {-1, 1, 3}

(* The Poseidon library compares with the field order only from above. *)
MCHashable == {n \in MCNumeral : n < Field}

MCLeaves == [r \in MCRoot |-> ToSet(r)]

(* One issue command more than a root covers; all have leaves of their     *)
(* own, one of them with a negative expiry.                                *)
MCArgs(secret, expiry) == [addr |-> alice, secret |-> secret,
                           expiry |-> expiry, issuer |-> issuer]

MCIssueArgs == (i1 :> MCArgs(s1, 1)) @@ (i2 :> MCArgs(s1, -1))
                  @@ (i3 :> MCArgs(s2, 1))

=============================================================================
