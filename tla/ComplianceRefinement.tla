------------------------ MODULE ComplianceRefinement ------------------------
(***************************************************************************)
(* The registry implements the ledger of grants.  A unit of the ledger is  *)
(* burned when any of the uint256 values that stand for its nullifier is   *)
(* marked spent; so a second grant for an alias of a spent nullifier would *)
(* be no step of the ledger.                                               *)
(***************************************************************************)
EXTENDS ZKComplianceRegistry

Burned == {<<n.secret, n.root>> : n \in {m \in Nullifier : spentNullifiers[m]}}

Ledger == INSTANCE ComplianceLedger WITH
              until  <- verifiedUntil,
              burned <- Burned,
              root   <- currentRoot,
              time   <- now

(* Whatever is submitted to the registry, by whomever and in whatever      *)
(* order, its storage changes only as the ledger's may: every redemption   *)
(* is a grant that some credential in the published tree pays for, exactly *)
(* once per tree, and revocations, rotations and time are the only other   *)
(* changes.                                                                *)
LedgerImplemented == Ledger!LedgerSpec

=============================================================================
