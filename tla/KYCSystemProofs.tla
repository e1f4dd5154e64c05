-------------------------- MODULE KYCSystemProofs --------------------------
(***************************************************************************)
(* Proofs about the two contracts together.  The composition only          *)
(* interleaves their transactions, so what is proved of each contract is   *)
(* true of it here; the theorems combine the two.                          *)
(***************************************************************************)
EXTENDS KYCSystem, ZKComplianceRegistryProofs

(* The theorems about the token, beside this registry. *)
TokenProofs == INSTANCE KYCTokenProofs WITH
                   owner    <- tokenOwner,
                   agents   <- tokenAgents,
                   verified <- [a \in Account |-> IsVerified(a)]

(* What the token assumes of its accounts and its word.                    *)
LEMMA TokenAssumptions ==
    /\ ZeroAddress \in Account
    /\ TokenProofs!IsFiniteSet(Account)
    /\ MaxUint \in Nat
BY ZeroAddressAssumption, AccountAssumption, WordAssumption
   DEF IsFiniteSet, TokenProofs!IsFiniteSet

-----------------------------------------------------------------------------
(* The token's transactions change nothing in the registry, so whatever is *)
(* proved of the registry's specification holds in the system.             *)
LEMMA RegistryHere == SystemSpec => Spec
<1>1. SystemInit => Init
  BY DEF SystemInit
<1>2. [SystemNext]_systemVars => [Next]_registryVars
  BY DEF SystemNext, RegistryStep, TokenStep, systemVars
<1>3. QED
  BY <1>1, <1>2, PTL DEF SystemSpec, Spec

-----------------------------------------------------------------------------
(* The two instances of the token's module are one specification.          *)
LEMMA SameRoles == Token!RolesNext => TokenProofs!RolesNext
BY DEF Token!RolesNext, TokenProofs!RolesNext,
       Token!TransferOwnership, TokenProofs!TransferOwnership,
       Token!SetAgent, TokenProofs!SetAgent,
       Token!OnlyOwner, TokenProofs!OnlyOwner,
       Token!Callers, TokenProofs!Callers

(* Their transfer paths are one. *)
LEMMA SameMove ==
    ASSUME NEW from, NEW to, NEW amount, Token!Move(from, to, amount)
    PROVE  TokenProofs!Move(from, to, amount)
BY DEF Token!Move, TokenProofs!Move,
       Token!UncheckedAdd, TokenProofs!UncheckedAdd,
       Token!Fits, TokenProofs!Fits

(* Their transactions are one. *)
LEMMA SameTransactions == Token!TokenTransaction => TokenProofs!TokenTransaction
<1>. SUFFICES ASSUME Token!TokenTransaction
              PROVE  TokenProofs!TokenTransaction
  OBVIOUS
<1>1. ASSUME NEW caller, NEW to, NEW amount
      PROVE  /\ Token!Mint(caller, to, amount)
                  => TokenProofs!Mint(caller, to, amount)
             /\ Token!Approve(caller, to, amount)
                  => TokenProofs!Approve(caller, to, amount)
             /\ Token!Transfer(caller, to, amount)
                  => TokenProofs!Transfer(caller, to, amount)
  BY SameMove
     DEF Token!Mint, TokenProofs!Mint, Token!Approve, TokenProofs!Approve,
         Token!Transfer, TokenProofs!Transfer, Token!Fits, TokenProofs!Fits,
         Token!OnlyAgent, TokenProofs!OnlyAgent,
         Token!rolesVars, TokenProofs!rolesVars
<1>2. ASSUME NEW caller, NEW from, NEW to, NEW amount,
             Token!TransferFrom(caller, from, to, amount)
      PROVE  TokenProofs!TransferFrom(caller, from, to, amount)
  BY <1>2, SameMove
     DEF Token!TransferFrom, TokenProofs!TransferFrom,
         Token!SpendAllowance, TokenProofs!SpendAllowance,
         Token!rolesVars, TokenProofs!rolesVars
<1>3. Token!ManageTokenRoles => TokenProofs!ManageTokenRoles
  BY SameRoles
     DEF Token!ManageTokenRoles, TokenProofs!ManageTokenRoles,
         Token!ledgerVars, TokenProofs!ledgerVars
<1>4. QED
  BY <1>1, <1>2, <1>3
     DEF Token!TokenTransaction, TokenProofs!TokenTransaction,
         Token!Callers, TokenProofs!Callers, Token!Word, TokenProofs!Word

(* A step of the system is one of the token the theorems are about.        *)
LEMMA TokenSteps ==
    ASSUME [SystemNext]_systemVars
    PROVE  [TokenProofs!TokenNext]_(TokenProofs!tokenVars)
<1>1. ASSUME RegistryStep
      PROVE  TokenProofs!RegistryChange
  <2>1. ([a \in Account |-> IsVerified(a)])' \in [Account -> BOOLEAN]
    BY DEF IsVerified
  <2>2. UNCHANGED tokenStorage
    BY <1>1 DEF RegistryStep
  <2>3. QED
    BY <2>1, <2>2 DEF TokenProofs!RegistryChange, TokenProofs!rolesVars,
                      TokenProofs!ledgerVars, tokenStorage
<1>2. ASSUME TokenStep
      PROVE  TokenProofs!TokenTransaction
  BY <1>2, SameTransactions DEF TokenStep
<1>3. ASSUME UNCHANGED systemVars
      PROVE  UNCHANGED TokenProofs!tokenVars
  BY <1>3 DEF systemVars, registryVars, tokenStorage, IsVerified,
              TokenProofs!tokenVars
<1>4. QED
  BY <1>1, <1>2, <1>3 DEF SystemNext, TokenProofs!TokenNext

(* The system is deployed as the token the theorems are about.             *)
LEMMA TokenStarts == ASSUME SystemInit PROVE TokenProofs!TokenInit
<1>1. PICK deployer \in Callers :
          /\ tokenOwner = deployer
          /\ tokenAgents = [a \in Account |-> a = deployer]
  BY DEF SystemInit, Init, RolesInit
<1>2. Token!LedgerInit
  BY DEF SystemInit
<1>3. [a \in Account |-> IsVerified(a)] \in [Account -> BOOLEAN]
  BY DEF IsVerified
<1>4. QED
  BY <1>1, <1>2, <1>3
     DEF TokenProofs!TokenInit, TokenProofs!RolesInit, TokenProofs!Callers,
         Callers, TokenProofs!LedgerInit, Token!LedgerInit,
         TokenProofs!NoAllowance, Token!NoAllowance

-----------------------------------------------------------------------------
(* The registry's invariant and the token's types hold in the system.      *)
LEMMA SystemInvariance == SystemSpec => [](IInv /\ TokenProofs!TokenTypeOK)
<1>1. SystemInit => TokenProofs!TokenTypeOK
  BY TokenStarts, TokenProofs!TokenInitTyping, TokenAssumptions
<1>2. TokenProofs!TokenTypeOK /\ [SystemNext]_systemVars
        => TokenProofs!TokenTypeOK'
  BY TokenSteps, TokenProofs!TokenStepTyping, TokenAssumptions
<1>3. QED
  BY <1>1, <1>2, RegistryHere, Invariance, PTL DEF SystemSpec

(* A balance changes only if its account is verified.                      *)
LEMMA SystemFreezing ==
    ASSUME TokenProofs!TokenTypeOK, [SystemNext]_systemVars,
           NEW a \in Account, balances'[a] # balances[a]
    PROVE  IsVerified(a)
<1>1. TokenProofs!Frozen(a)
  BY TokenSteps, TokenProofs!FreezingStep, TokenAssumptions
<1>2. QED
  BY <1>1 DEF TokenProofs!Frozen

(* A verified account has a redemption that stands.                        *)
LEMMA VerifiedIsEntitled ==
    ASSUME IInv, NEW a \in Account, IsVerified(a)
    PROVE  Entitled(a)
<1>1. verifiedUntil[a] # 0
  <2>1. now \in Nat /\ verifiedUntil[a] > now
    BY DEF IInv, TypeOK, IsVerified
  <2>2. QED
    BY <2>1
<1>2. PICK i \in 1 .. Len(redemptions) :
          Standing(a, i) /\ verifiedUntil[a] = redemptions[i].expiry
  BY <1>1 DEF IInv, StorageMatchesEvents
<1>3. QED
  BY <1>2 DEF Entitled, IsVerified

(* The unchecked arithmetic of _transfer is safe beside the real registry: *)
(* the supply is the sum of the balances.                                  *)
THEOREM SupplyAccountedHere == SystemSpec => []Token!SupplyIsSumOfBalances
<1>1. Token!SupplyIsSumOfBalances <=> TokenProofs!SupplyIsSumOfBalances
  BY DEF Token!SupplyIsSumOfBalances, TokenProofs!SupplyIsSumOfBalances,
         Token!MapThenSumSet, TokenProofs!MapThenSumSet,
         Token!MapThenFoldSet, TokenProofs!MapThenFoldSet
<1>2. SystemSpec => []TokenProofs!SupplyIsSumOfBalances
  <2>1. SystemInit => TokenProofs!TokenInit
    BY TokenStarts
  <2>2. [SystemNext]_systemVars
           => [TokenProofs!TokenNext]_(TokenProofs!tokenVars)
    BY TokenSteps
  <2>3. TokenProofs!TokenSpec => []TokenProofs!SupplyIsSumOfBalances
    BY TokenProofs!SupplyAccounted, TokenAssumptions
  <2>4. QED
    BY <2>1, <2>2, <2>3, PTL DEF SystemSpec, TokenProofs!TokenSpec
<1>3. QED
  BY <1>1, <1>2, PTL

(* A balance moves only while the account's last redemption stands, has    *)
(* not been revoked since, and has not expired.                            *)
THEOREM MovingNeedsEntitlement == SystemSpec => MovesOnlyIfEntitled
<1>1. IInv /\ TokenProofs!TokenTypeOK /\ [SystemNext]_systemVars
        => [\A a \in Account : balances'[a] # balances[a] => Entitled(a)]_systemVars
  BY SystemFreezing, VerifiedIsEntitled
<1>2. QED
  BY <1>1, SystemInvariance, PTL DEF SystemSpec, MovesOnlyIfEntitled

(* A step of either contract only adds to the registry's event log.        *)
LEMMA EventsGrow ==
    ASSUME IInv, [SystemNext]_systemVars, NEW a \in Account,
           \E i \in 1 .. Len(redemptions) : redemptions[i].holder = a
    PROVE  (\E i \in 1 .. Len(redemptions) : redemptions[i].holder = a)'
<1>. DEFINE P == (\E i \in 1 .. Len(redemptions) : redemptions[i].holder = a)'
<1>1. [Next]_registryVars
  BY DEF SystemNext, RegistryStep, TokenStep, systemVars
<1>2. ASSUME UNCHANGED redemptions PROVE P
  BY <1>2
<1>3. ASSUME NEW caller \in Callers, NEW s \in PubSignals,
             RedeemProof(caller, s)
      PROVE  P
  <2>1. /\ Len(redemptions) \in Nat
        /\ Len(redemptions') = Len(redemptions) + 1
        /\ \A i \in 1 .. Len(redemptions) : redemptions'[i] = redemptions[i]
    BY <1>3, RedeemFacts DEF IInv
  <2>2. \A i \in 1 .. Len(redemptions) : i \in 1 .. Len(redemptions')
    BY <2>1
  <2>3. QED
    BY <2>1, <2>2
<1>4. ASSUME Next PROVE P
  <2>1. ASSUME NEW caller \in Callers, NEW newRoot \in Root,
               SetRoot(caller, newRoot)
        PROVE  P
    BY <2>1, <1>2 DEF SetRoot, historyVars
  <2>2. ASSUME NEW caller \in Callers, NEW account \in Account,
               Revoke(caller, account)
        PROVE  P
    BY <2>2, <1>2 DEF Revoke
  <2>3. ASSUME ManageRoles PROVE P
    BY <2>3, <1>2 DEF ManageRoles, historyVars
  <2>4. ASSUME Tick PROVE P
    BY <2>4, <1>2 DEF Tick, historyVars
  <2>. HIDE DEF P
  <2>5. QED
    BY <1>3, <1>4, <2>1, <2>2, <2>3, <2>4, NextCases
<1>5. QED
  BY <1>1, <1>2, <1>4 DEF registryVars

(* Every holder of tokens redeemed a credential itself.                    *)
THEOREM HoldingNeedsRedemption == SystemSpec => []HoldersRedeemed
<1>1. SystemInit => HoldersRedeemed
  BY DEF SystemInit, Token!LedgerInit, HoldersRedeemed
<1>2. /\ IInv /\ TokenProofs!TokenTypeOK
      /\ HoldersRedeemed
      /\ [SystemNext]_systemVars
      => HoldersRedeemed'
  <2>. SUFFICES ASSUME IInv, TokenProofs!TokenTypeOK, HoldersRedeemed,
                       [SystemNext]_systemVars,
                       NEW a \in Account, balances'[a] > 0
                PROVE  (\E i \in 1 .. Len(redemptions) :
                            redemptions[i].holder = a)'
    BY DEF HoldersRedeemed
  <2>1. \E i \in 1 .. Len(redemptions) : redemptions[i].holder = a
    <3>1. CASE balances'[a] = balances[a]
      BY <3>1 DEF HoldersRedeemed
    <3>2. CASE balances'[a] # balances[a]
      BY <3>2, SystemFreezing, VerifiedIsEntitled DEF Entitled, Standing
    <3>3. QED
      BY <3>1, <3>2
  <2>2. QED
    BY <2>1, EventsGrow
<1>3. QED
  BY <1>1, <1>2, SystemInvariance, PTL DEF SystemSpec

=============================================================================
