------------------------------- MODULE Roles -------------------------------
(***************************************************************************)
(* The access-control base contract (src/Roles.sol): one owner, who        *)
(* governs, and a set of agents, who operate.  ZKComplianceRegistry and    *)
(* KYCToken both inherit it, and each keeps its own copy of this storage.  *)
(*                                                                         *)
(* A transaction is a step; its sender is the parameter caller.  A call    *)
(* that reverts changes nothing, so it is a guard that is false.           *)
(***************************************************************************)

EXTENDS Accounts

VARIABLES
    owner,          \* the governance account
    agents          \* agents[a]: may a take agent-gated actions

rolesVars == <<owner, agents>>

RolesTypeOK ==
    /\ owner \in Callers
    /\ agents \in [Account -> BOOLEAN]
    /\ ~ agents[ZeroAddress]

(* The constructor: the deployer is the owner and the first agent. *)
RolesInit ==
    \E initialOwner \in Callers :
        /\ owner = initialOwner
        /\ agents = [a \in Account |-> a = initialOwner]

OnlyOwner(caller) == caller = owner

OnlyAgent(caller) == agents[caller]

(* A faulty variant of transferOwnership: it accepts the zero address. *)
TransferOwnershipUnchecked(caller, newOwner) ==
    /\ OnlyOwner(caller)
    /\ owner' = newOwner
    /\ UNCHANGED agents

TransferOwnership(caller, newOwner) ==
    /\ OnlyOwner(caller)
    /\ newOwner # ZeroAddress
    /\ owner' = newOwner
    /\ UNCHANGED agents

SetAgent(caller, account, enabled) ==
    /\ OnlyOwner(caller)
    /\ account # ZeroAddress
    /\ agents' = [agents EXCEPT ![account] = enabled]
    /\ UNCHANGED owner

RolesNext ==
    \E caller \in Callers, account \in Account :
        \/ TransferOwnership(caller, account)
        \/ \E enabled \in BOOLEAN : SetAgent(caller, account, enabled)

=============================================================================
