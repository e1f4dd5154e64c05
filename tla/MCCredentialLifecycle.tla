------------------------ MODULE MCCredentialLifecycle ------------------------
(* A credential is renewed, with the same secret and a later expiry, while *)
(* the first may still be in the making.  The issuer and owner is the      *)
(* other user.                                                             *)
EXTENDS CredentialLifecycle, TLC

CONSTANTS s1, issuer, alice, bob, p1, p2

Cred(s, e) == [secret |-> s, expiry |-> e, issuer |-> issuer]

MCLeafOf == (p1 :> Cred(s1, 1)) @@ (p2 :> Cred(s1, 2))

MCHolderOf == s1 :> alice

MCRoot == BoundedSeq(Issuable, Cardinality(Issuance))

MCLeaves == [r \in MCRoot |-> ToSet(r)]

DeployedInit == LifecycleInit /\ owner = bob

FairDeployedSpec ==
    DeployedInit /\ [][LifecycleNext]_lifecycleVars /\ Fairness

=============================================================================
