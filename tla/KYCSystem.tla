----------------------------- MODULE KYCSystem -----------------------------
(***************************************************************************)
(* The deployed pair of contracts (script/Deploy.s.sol): a KYCToken whose  *)
(* identity registry is the ZKComplianceRegistry.  Each has its own owner  *)
(* and agents.  Every transaction goes to one of them; the token's reads   *)
(* the registry's storage and the block time when it executes.             *)
(***************************************************************************)
EXTENDS ZKComplianceRegistry

CONSTANT MaxUint    \* type(uint256).max for token amounts

ASSUME WordAssumption == MaxUint \in Nat

VARIABLES
    tokenOwner, tokenAgents,            \* the token's copy of the roles
    totalSupply, balances, allowances,
    approved, pulled                    \* the token's history

Token == INSTANCE KYCToken WITH
             owner    <- tokenOwner,
             agents   <- tokenAgents,
             verified <- [a \in Account |-> IsVerified(a)]

tokenStorage == <<tokenOwner, tokenAgents, totalSupply, balances, allowances,
                  approved, pulled>>
systemVars   == <<registryVars, tokenStorage>>

(* The token is deployed with the registry's address and the same deployer *)
(* as its owner.                                                           *)
SystemInit ==
    /\ Init
    /\ tokenOwner = owner
    /\ tokenAgents = agents
    /\ Token!LedgerInit

RegistryStep == Next /\ UNCHANGED tokenStorage

TokenStep == UNCHANGED registryVars /\ Token!TokenTransaction

SystemNext == RegistryStep \/ TokenStep

SystemSpec == SystemInit /\ [][SystemNext]_systemVars

FairSystemSpec == SystemSpec /\ WF_registryVars(Tick)

-----------------------------------------------------------------------------
(* Tokens are held only by accounts that redeemed a credential themselves: *)
(* a balance is traced back, through mints, transfers and pulls, to a      *)
(* ProofRedeemed event of its holder.                                      *)
HoldersRedeemed ==
    \A a \in Account : balances[a] > 0 =>
        \E i \in 1 .. Len(redemptions) : redemptions[i].holder = a

(* A balance moves, in either direction, only while its account's last     *)
(* redemption stands: it was not revoked since, and the credential it was  *)
(* made with has not expired at that block time.                           *)
Entitled(a) ==
    \E i \in 1 .. Len(redemptions) :
        Standing(a, i) /\ redemptions[i].expiry > now

MovesOnlyIfEntitled ==
    [][\A a \in Account : balances'[a] # balances[a] => Entitled(a)]_systemVars

(* With the credentials issued so far, trading ends by itself: once the    *)
(* last of them has expired no balance ever changes again, with nobody     *)
(* calling revoke.                                                         *)
TradingEnds == <>[][UNCHANGED balances]_systemVars

=============================================================================
