-------------------------- MODULE ComplianceLedger --------------------------
(***************************************************************************)
(* What the compliance registry promises to those who rely on it: a ledger *)
(* of grants.  An account is granted verification until the expiry of a    *)
(* credential in the tree in force, at the price of one unit per secret    *)
(* and tree, which is burned.  Grants can be withdrawn, the tree replaced, *)
(* and time passes.  There are no proofs, signals, callers or roles here.  *)
(***************************************************************************)
EXTENDS KYCPassCircuit

VARIABLES
    until,          \* until[a]: when a's grant ends, 0 if it has none
    burned,         \* the <secret, root> pairs that paid for a grant
    root,           \* the tree in force
    time

ledgerVars == <<until, burned, root, time>>

LedgerInit ==
    /\ until = [a \in Account |-> 0]
    /\ burned = {}
    /\ root \in Root
    /\ time = 0

(* A grant runs until its credential's expiry and must not have ended.     *)
(* Nobody but an account that can act gets one.                            *)
Grant(a, c) ==
    /\ c \in Leaves[root]
    /\ <<c.secret, root>> \notin burned
    /\ c.expiry > time
    /\ until' = [until EXCEPT ![a] = c.expiry]
    /\ burned' = burned \cup {<<c.secret, root>>}
    /\ UNCHANGED <<root, time>>

Withdraw(a) ==
    /\ until' = [until EXCEPT ![a] = 0]
    /\ UNCHANGED <<burned, root, time>>

Replace(r) ==
    /\ root' = r
    /\ UNCHANGED <<until, burned, time>>

Advance ==
    /\ time' = time + 1
    /\ UNCHANGED <<until, burned, root>>

LedgerNext ==
    \/ \E a \in Callers, c \in Credential : Grant(a, c)
    \/ \E a \in Account : Withdraw(a)
    \/ \E r \in Root : Replace(r)
    \/ Advance

LedgerSpec == LedgerInit /\ [][LedgerNext]_ledgerVars

=============================================================================
