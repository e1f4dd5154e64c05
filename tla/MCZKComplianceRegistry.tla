----------------------- MODULE MCZKComplianceRegistry -----------------------
(* Small trees for model-checking the registry: the zero root, which has   *)
(* no leaves; a first tree; and the one published later, where the issuer  *)
(* has left s2 out and appended a renewed credential for s1.               *)
EXTENDS ComplianceRefinement, TLC

CONSTANTS s1, s2, issuer, zeroRoot, root1, root2

Cred(s, e) == [secret |-> s, expiry |-> e, issuer |-> issuer]

MCLeaves == (zeroRoot :> {})
         @@ (root1 :> {Cred(s1, 1), Cred(s2, 2)})
         @@ (root2 :> {Cred(s1, 1), Cred(s1, 2)})

(* One credential, which stays in the tree when the root changes. *)
KeptLeaves == (root1 :> {Cred(s1, 1)}) @@ (root2 :> {Cred(s1, 1)})

(* No transaction depends on which account is which, so permuting them is  *)
(* a symmetry of every initial state, action and property of these runs.   *)
AccountSymmetry == Permutations(Callers)

=============================================================================
