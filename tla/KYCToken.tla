------------------------------ MODULE KYCToken ------------------------------
(***************************************************************************)
(* The permissioned ERC-20 (src/KYCToken.sol) beside any compliance        *)
(* registry: verified is what the registry's isVerified answers, and the   *)
(* registry may change its answers at any time between two transactions.   *)
(* KYCSystem puts the real registry there.                                 *)
(*                                                                         *)
(* Amounts are words: 0 .. MaxUint stands for uint256, and MaxUint is      *)
(* type(uint256).max, the allowance that never runs out.                   *)
(***************************************************************************)
EXTENDS Naturals, FiniteSetsExt, Roles

CONSTANT MaxUint

ASSUME MaxUintAssumption == MaxUint \in Nat

VARIABLES
    totalSupply,
    balances,           \* balances[a]
    allowances,         \* allowances[holder][spender]
    verified,           \* verified[a]: identityRegistry.isVerified(a)
    (* History, read by no action: *)
    approved,           \* approved[h][s]: the amount of h's last approval of s
    pulled              \* pulled[h][s]: what s took from h since then

ledgerVars  == <<totalSupply, balances, allowances, approved, pulled>>
tokenVars   == <<owner, agents, totalSupply, balances, allowances, verified,
                 approved, pulled>>

Word == 0 .. MaxUint

AllowanceTable == [Account -> [Account -> Word]]

TokenTypeOK ==
    /\ RolesTypeOK
    /\ totalSupply \in Word
    /\ balances \in [Account -> Word]
    /\ allowances \in AllowanceTable
    /\ approved \in AllowanceTable
    /\ pulled \in [Account -> [Account -> Nat]]
    /\ verified \in [Account -> BOOLEAN]

-----------------------------------------------------------------------------
(* A faulty variant of the overflow check, off by one. *)
FitsOffByOne(x, y) == x + y <= MaxUint + 1

(* The checked addition reverts; the unchecked one wraps. *)
Fits(x, y) == x + y <= MaxUint

UncheckedAdd(x, y) ==
    IF Fits(x, y) THEN x + y ELSE x + y - (MaxUint + 1)

NoAllowance == [h \in Account |-> [s \in Account |-> 0]]

LedgerInit ==
    /\ totalSupply = 0
    /\ balances = [a \in Account |-> 0]
    /\ allowances = NoAllowance
    /\ approved = NoAllowance
    /\ pulled = NoAllowance

TokenInit ==
    /\ RolesInit
    /\ LedgerInit
    /\ verified \in [Account -> BOOLEAN]

(* A faulty variant of mint: it does not consult the registry. *)
MintUngated(caller, to, amount) ==
    /\ OnlyAgent(caller)
    /\ to # ZeroAddress
    /\ Fits(totalSupply, amount)
    /\ Fits(balances[to], amount)
    /\ totalSupply' = totalSupply + amount
    /\ balances' = [balances EXCEPT ![to] = @ + amount]
    /\ UNCHANGED <<rolesVars, allowances, verified, approved, pulled>>

Mint(caller, to, amount) ==
    /\ OnlyAgent(caller)
    /\ to # ZeroAddress
    /\ verified[to]
    /\ Fits(totalSupply, amount)
    /\ Fits(balances[to], amount)
    /\ totalSupply' = totalSupply + amount
    /\ balances' = [balances EXCEPT ![to] = @ + amount]
    /\ UNCHANGED <<rolesVars, allowances, verified, approved, pulled>>

(* Replaces the allowance; neither party need be verified. *)
Approve(caller, spender, amount) ==
    /\ spender # ZeroAddress
    /\ allowances' = [allowances EXCEPT ![caller][spender] = amount]
    /\ approved' = [approved EXCEPT ![caller][spender] = amount]
    /\ pulled' = [pulled EXCEPT ![caller][spender] = 0]
    /\ UNCHANGED <<rolesVars, totalSupply, balances, verified>>

(* Faulty variants of _transfer: both balances read before either is       *)
(* written; and only the recipient checked.                                *)
MoveStale(from, to, amount) ==
    /\ to # ZeroAddress
    /\ verified[from]
    /\ verified[to]
    /\ balances[from] >= amount
    /\ LET debited == [balances EXCEPT ![from] = @ - amount]
       IN  balances' = [debited EXCEPT
                            ![to] = UncheckedAdd(balances[to], amount)]

MoveSenderUnchecked(from, to, amount) ==
    /\ to # ZeroAddress
    /\ verified[to]
    /\ balances[from] >= amount
    /\ LET debited == [balances EXCEPT ![from] = @ - amount]
       IN  balances' = [debited EXCEPT ![to] = UncheckedAdd(@, amount)]

(* _transfer.  The second write reads what the first one wrote, which      *)
(* matters when an account transfers to itself.                            *)
Move(from, to, amount) ==
    /\ to # ZeroAddress
    /\ verified[from]
    /\ verified[to]
    /\ balances[from] >= amount
    /\ LET debited == [balances EXCEPT ![from] = @ - amount]
       IN  balances' = [debited EXCEPT ![to] = UncheckedAdd(@, amount)]

Transfer(caller, to, amount) ==
    /\ Move(caller, to, amount)
    /\ UNCHANGED <<rolesVars, totalSupply, allowances, verified, approved,
                   pulled>>

(* A faulty variant of _spendAllowance: it forgets to write the rest.      *)
KeepAllowance(holder, spender, amount) ==
    /\ allowances[holder][spender] >= amount
    /\ UNCHANGED allowances

(* The largest word is an infinite allowance.                              *)
SpendAllowance(holder, spender, amount) ==
    \/ /\ allowances[holder][spender] = MaxUint
       /\ UNCHANGED allowances
    \/ /\ allowances[holder][spender] # MaxUint
       /\ allowances[holder][spender] >= amount
       /\ allowances' = [allowances EXCEPT ![holder][spender] = @ - amount]

(* The allowance is spent before the transfer is checked; if the transfer  *)
(* reverts, so does the spending.                                          *)
TransferFrom(caller, from, to, amount) ==
    /\ SpendAllowance(from, caller, amount)
    /\ Move(from, to, amount)
    /\ pulled' = IF approved[from][caller] = MaxUint THEN pulled
                 ELSE [pulled EXCEPT ![from][caller] = @ + amount]
    /\ UNCHANGED <<rolesVars, totalSupply, verified, approved>>

ManageTokenRoles == RolesNext /\ UNCHANGED <<ledgerVars, verified>>

TokenTransaction ==
    \/ \E caller \in Callers, to \in Account, amount \in Word :
          \/ Mint(caller, to, amount)
          \/ Approve(caller, to, amount)
          \/ Transfer(caller, to, amount)
          \/ \E from \in Account : TransferFrom(caller, from, to, amount)
    \/ ManageTokenRoles

(* The registry and the block time decide who is verified. *)
RegistryChange ==
    /\ verified' \in [Account -> BOOLEAN]
    /\ UNCHANGED <<rolesVars, ledgerVars>>

TokenNext == TokenTransaction \/ RegistryChange

TokenSpec == TokenInit /\ [][TokenNext]_tokenVars

-----------------------------------------------------------------------------
(* The supply is the sum of the balances: no order of mints, transfers,    *)
(* self-transfers and pulls, at any point of the word's range, creates or  *)
(* destroys a token.  (totalSupply: "Equals the sum of all balances"; the  *)
(* unchecked block of _transfer relies on it to not wrap.)                 *)
SupplyIsSumOfBalances ==
    totalSupply = MapThenSumSet(LAMBDA a : balances[a], Account)

(* A spender takes no more than the holder approved, over any sequence of  *)
(* calls: what it took since the approval and what is left of it add up to *)
(* what was approved, unless that was the infinite allowance, which stays. *)
AllowanceAccounting ==
    \A h, s \in Account :
        IF approved[h][s] = MaxUint
        THEN allowances[h][s] = MaxUint
        ELSE pulled[h][s] + allowances[h][s] = approved[h][s]

(* The balance of an account that is not verified at the moment of the     *)
(* transaction neither grows nor shrinks, whoever calls what.              *)
Frozen(a) == balances'[a] # balances[a] => verified[a]

FrozenWhileUnverified == [][\A a \in Account : Frozen(a)]_tokenVars

=============================================================================
