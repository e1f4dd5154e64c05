------------------------------ MODULE Accounts ------------------------------
(***************************************************************************)
(* Ethereum addresses, as far as the contracts tell them apart.            *)
(***************************************************************************)
EXTENDS FiniteSets

CONSTANTS
    Account,        \* addresses, the zero address among them
    ZeroAddress     \* address(0), which no transaction is sent from

ASSUME ZeroAddressAssumption == ZeroAddress \in Account

(* An address has 20 bytes. *)
ASSUME AccountAssumption == IsFiniteSet(Account)

Callers == Account \ {ZeroAddress}

=============================================================================
