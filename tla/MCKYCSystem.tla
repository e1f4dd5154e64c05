---------------------------- MODULE MCKYCSystem ----------------------------
(* The two contracts together, with the roles as deployed: the roles are   *)
(* varied in the runs of each contract alone.                              *)
EXTENDS KYCSystem, TLC

CONSTANTS s1, issuer, root1, root2

Cred(e) == [secret |-> s1, expiry |-> e, issuer |-> issuer]

(* The credential is renewed in the second tree.  Either account may       *)
(* redeem it in either, so one or both come to be verified, at most until  *)
(* different times.                                                        *)
MCLeaves == (root1 :> {Cred(1)}) @@ (root2 :> {Cred(2)})

RolesKept == UNCHANGED <<owner, agents, tokenOwner, tokenAgents>>

DeployedSpec == SystemInit /\ [][SystemNext /\ RolesKept]_systemVars

FairDeployedSpec == DeployedSpec /\ WF_registryVars(Tick /\ RolesKept)

=============================================================================
