--------------------------- MODULE KYCTokenProofs ---------------------------
(***************************************************************************)
(* Proofs about the token beside any registry, for every finite set of     *)
(* accounts and every word size.  The supply is a sum over the accounts,   *)
(* so its proof rests on an induction over their number, which is here     *)
(* derived from the fact that the order of the naturals is well founded.   *)
(***************************************************************************)
EXTENDS KYCToken, FiniteSetTheorems, WellFoundedInduction, TLAPS

-----------------------------------------------------------------------------
(* The roles the token inherits.                                           *)

(* The constructor establishes them. *)
LEMMA RolesInitTyping == ASSUME RolesInit PROVE RolesTypeOK
<1>1. PICK initialOwner \in Callers :
          /\ owner = initialOwner
          /\ agents = [a \in Account |-> a = initialOwner]
  BY DEF RolesInit
<1>2. ~ agents[ZeroAddress]
  BY <1>1, ZeroAddressAssumption DEF Callers
<1>3. agents \in [Account -> BOOLEAN]
  BY <1>1
<1>4. QED
  BY <1>1, <1>2, <1>3 DEF RolesTypeOK

(* transferOwnership and setAgent keep them. *)
LEMMA RolesTyping ==
    ASSUME RolesTypeOK, RolesNext
    PROVE  RolesTypeOK'
<1>1. PICK caller \in Callers, account \in Account :
          \/ TransferOwnership(caller, account)
          \/ \E enabled \in BOOLEAN : SetAgent(caller, account, enabled)
  BY DEF RolesNext
<1>2. CASE TransferOwnership(caller, account)
  BY <1>2 DEF TransferOwnership, RolesTypeOK, Callers
<1>3. ASSUME NEW enabled \in BOOLEAN, SetAgent(caller, account, enabled)
      PROVE  RolesTypeOK'
  BY <1>3 DEF SetAgent, RolesTypeOK
<1>4. QED
  BY <1>1, <1>2, <1>3

-----------------------------------------------------------------------------
(* The transactions.                                                       *)

(* A step of the token is one of its transactions or its environment's,    *)
(* with well-typed arguments.                                              *)
LEMMA TokenNextCases ==
    ASSUME TokenNext, NEW P,
           \A caller \in Callers, to \in Account, amount \in Word :
               \/ Mint(caller, to, amount)
               \/ Approve(caller, to, amount)
               \/ Transfer(caller, to, amount)
               => P,
           \A caller \in Callers, from \in Account, to \in Account,
              amount \in Word : TransferFrom(caller, from, to, amount) => P,
           ManageTokenRoles => P,
           RegistryChange => P
    PROVE  P
BY DEF TokenNext, TokenTransaction

(* The unchecked addition of two words is a word. *)
LEMMA UncheckedAddTyping ==
    ASSUME NEW x \in Word, NEW y \in Word
    PROVE  UncheckedAdd(x, y) \in Word
BY MaxUintAssumption DEF Word, UncheckedAdd, Fits

(* The transfer path keeps balances words, and touches the balances of no  *)
(* account but two verified ones.                                          *)
LEMMA MoveFacts ==
    ASSUME balances \in [Account -> Word],
           NEW from \in Account, NEW to \in Account, NEW amount \in Word,
           Move(from, to, amount)
    PROVE  /\ balances' \in [Account -> Word]
           /\ \A a \in Account : balances'[a] # balances[a] => verified[a]
<1>. DEFINE debited == [balances EXCEPT ![from] = @ - amount]
<1>1. balances' = [debited EXCEPT ![to] = UncheckedAdd(@, amount)]
  BY DEF Move
<1>2. balances[from] - amount \in Word
  <2>1. balances[from] \in Word /\ balances[from] >= amount
    BY DEF Move
  <2>2. QED
    BY <2>1, MaxUintAssumption DEF Word
<1>3. debited \in [Account -> Word]
  BY <1>2
<1>. HIDE DEF debited
<1>4. UncheckedAdd(debited[to], amount) \in Word
  BY <1>3, UncheckedAddTyping
<1>5. balances' \in [Account -> Word]
  BY <1>1, <1>3, <1>4
<1>6. \A a \in Account : a # from /\ a # to => balances'[a] = balances[a]
  BY <1>1, <1>3 DEF debited
<1>7. QED
  BY <1>5, <1>6 DEF Move

(* Spending keeps the allowance table well typed. *)
LEMMA SpendTyping ==
    ASSUME allowances \in AllowanceTable,
           NEW h \in Account, NEW s \in Account, NEW amount \in Word,
           SpendAllowance(h, s, amount)
    PROVE  allowances' \in AllowanceTable
<1>1. CASE allowances' = allowances
  BY <1>1
<1>2. CASE /\ allowances[h][s] >= amount
           /\ allowances' = [allowances EXCEPT ![h][s] = @ - amount]
  <2>1. allowances[h] \in [Account -> Word]
    BY DEF AllowanceTable
  <2>2. allowances[h][s] - amount \in Word
    BY <1>2, <2>1, MaxUintAssumption DEF Word
  <2>3. QED
    BY <1>2, <2>1, <2>2 DEF AllowanceTable
<1>3. QED
  BY <1>1, <1>2 DEF SpendAllowance

-----------------------------------------------------------------------------
(* The initial state of the token is well typed. *)
LEMMA TokenInitTyping == ASSUME TokenInit PROVE TokenTypeOK
<1>1. RolesTypeOK
  BY RolesInitTyping DEF TokenInit
<1>2. 0 \in Word
  BY MaxUintAssumption DEF Word
<1>3. QED
  BY <1>1, <1>2
     DEF TokenInit, LedgerInit, NoAllowance, AllowanceTable, TokenTypeOK

(* Every step keeps the token's variables in their types: no balance or    *)
(* allowance leaves the word range, although _transfer and _spendAllowance *)
(* compute unchecked.                                                      *)
LEMMA TokenStepTyping ==
    ASSUME TokenTypeOK, [TokenNext]_tokenVars PROVE TokenTypeOK'
<1>. USE DEF TokenTypeOK
<1>1. ASSUME NEW caller \in Callers, NEW to \in Account, NEW amount \in Word,
             \/ Mint(caller, to, amount)
             \/ Approve(caller, to, amount)
             \/ Transfer(caller, to, amount)
      PROVE  TokenTypeOK'
  <2>. caller \in Account
    BY DEF Callers
  <2>1. CASE Mint(caller, to, amount)
    <3>1. /\ totalSupply + amount \in Word
          /\ balances[to] + amount \in Word
      BY <2>1, MaxUintAssumption DEF Mint, Fits, Word
    <3>2. balances' \in [Account -> Word] /\ totalSupply' \in Word
      BY <2>1, <3>1 DEF Mint
    <3>3. QED
      BY <2>1, <3>2 DEF Mint, rolesVars, RolesTypeOK
  <2>2. CASE Approve(caller, to, amount)
    <3>1. allowances' \in AllowanceTable /\ approved' \in AllowanceTable
      BY <2>2 DEF Approve, AllowanceTable
    <3>2. pulled' \in [Account -> [Account -> Nat]]
      BY <2>2 DEF Approve
    <3>3. QED
      BY <2>2, <3>1, <3>2 DEF Approve, rolesVars, RolesTypeOK
  <2>3. CASE Transfer(caller, to, amount)
    BY <2>3, MoveFacts DEF Transfer, rolesVars, RolesTypeOK
  <2>4. QED
    BY <1>1, <2>1, <2>2, <2>3
<1>2. ASSUME NEW caller \in Callers, NEW from \in Account, NEW to \in Account,
             NEW amount \in Word, TransferFrom(caller, from, to, amount)
      PROVE  TokenTypeOK'
  <2>. caller \in Account
    BY DEF Callers
  <2>1. balances' \in [Account -> Word]
    BY <1>2, MoveFacts DEF TransferFrom
  <2>2. allowances' \in AllowanceTable
    BY <1>2, SpendTyping DEF TransferFrom
  <2>3. pulled' \in [Account -> [Account -> Nat]]
    <3>1. pulled[from] \in [Account -> Nat] /\ amount \in Nat
      BY MaxUintAssumption DEF Word
    <3>2. pulled[from][caller] + amount \in Nat
      BY <3>1
    <3>3. QED
      BY <1>2, <3>1, <3>2 DEF TransferFrom
  <2>4. QED
    BY <1>2, <2>1, <2>2, <2>3 DEF TransferFrom, rolesVars, RolesTypeOK
<1>3. CASE ManageTokenRoles
  BY <1>3, RolesTyping DEF ManageTokenRoles, ledgerVars
<1>4. CASE RegistryChange
  BY <1>4 DEF RegistryChange, rolesVars, ledgerVars, RolesTypeOK
<1>5. CASE UNCHANGED tokenVars
  BY <1>5 DEF tokenVars, RolesTypeOK
<1>6. QED
  BY <1>1, <1>2, <1>3, <1>4, <1>5, TokenNextCases

(* The token's variables keep their types. *)
THEOREM TokenTypeInvariant == TokenSpec => []TokenTypeOK
BY TokenInitTyping, TokenStepTyping, PTL DEF TokenSpec

-----------------------------------------------------------------------------
(* No step changes the balance of an account that is not verified when it  *)
(* is taken.                                                               *)
LEMMA FreezingStep ==
    ASSUME TokenTypeOK, [TokenNext]_tokenVars, NEW a \in Account
    PROVE  Frozen(a)
<1>1. ASSUME NEW caller \in Callers, NEW to \in Account, NEW amount \in Word,
             \/ Mint(caller, to, amount)
             \/ Approve(caller, to, amount)
             \/ Transfer(caller, to, amount)
      PROVE  Frozen(a)
  <2>. caller \in Account
    BY DEF Callers
  <2>1. CASE Mint(caller, to, amount)
    <3>1. CASE a = to
      BY <2>1, <3>1 DEF Mint, Frozen
    <3>2. CASE a # to
      BY <2>1, <3>2 DEF Mint, Frozen, TokenTypeOK
    <3>3. QED
      BY <3>1, <3>2
  <2>2. CASE Approve(caller, to, amount)
    BY <2>2 DEF Approve, Frozen
  <2>3. CASE Transfer(caller, to, amount)
    BY <2>3, MoveFacts DEF Transfer, Frozen, TokenTypeOK
  <2>4. QED
    BY <1>1, <2>1, <2>2, <2>3
<1>2. ASSUME NEW caller \in Callers, NEW from \in Account,
             NEW to \in Account, NEW amount \in Word,
             TransferFrom(caller, from, to, amount)
      PROVE  Frozen(a)
  BY <1>2, MoveFacts DEF TransferFrom, Frozen, TokenTypeOK
<1>3. CASE ManageTokenRoles
  BY <1>3 DEF ManageTokenRoles, ledgerVars, Frozen
<1>4. CASE RegistryChange
  BY <1>4 DEF RegistryChange, ledgerVars, Frozen
<1>5. CASE UNCHANGED tokenVars
  BY <1>5 DEF tokenVars, Frozen
<1>6. QED
  BY <1>1, <1>2, <1>3, <1>4, <1>5, TokenNextCases

(* The balance of an account that is not verified at the moment of the     *)
(* transaction does not change.                                            *)
THEOREM Freezing == TokenSpec => FrozenWhileUnverified
<1>1. TokenTypeOK /\ [TokenNext]_tokenVars
        => [\A a \in Account : Frozen(a)]_tokenVars
  BY FreezingStep
<1>2. QED
  BY <1>1, TokenTypeInvariant, PTL DEF TokenSpec, FrozenWhileUnverified

-----------------------------------------------------------------------------
(* What one approval says of the allowance it left. *)
Accounted(h, s) ==
    IF approved[h][s] = MaxUint
    THEN allowances[h][s] = MaxUint
    ELSE pulled[h][s] + allowances[h][s] = approved[h][s]

(* A step keeps the account of one holder and spender. *)
LEMMA AccountingStep ==
    ASSUME TokenTypeOK, AllowanceAccounting, [TokenNext]_tokenVars,
           NEW h \in Account, NEW s \in Account
    PROVE  Accounted(h, s)'
<1>0. /\ Accounted(h, s)
      /\ allowances[h][s] \in Nat /\ pulled[h][s] \in Nat
  BY MaxUintAssumption
     DEF AllowanceAccounting, Accounted, TokenTypeOK, AllowanceTable, Word
<1>1. ASSUME NEW caller \in Callers, NEW to \in Account, NEW amount \in Word,
             \/ Mint(caller, to, amount)
             \/ Approve(caller, to, amount)
             \/ Transfer(caller, to, amount)
      PROVE  Accounted(h, s)'
  <2>1. CASE Mint(caller, to, amount) \/ Transfer(caller, to, amount)
    BY <2>1, <1>0 DEF Mint, Transfer, Accounted
  <2>2. CASE Approve(caller, to, amount)
    <3>1. CASE h = caller /\ s = to
      <4>1. /\ allowances'[h][s] = amount
            /\ approved'[h][s] = amount
            /\ pulled'[h][s] = 0
        BY <2>2, <3>1 DEF Approve, TokenTypeOK, AllowanceTable
      <4>2. QED
        BY <4>1, MaxUintAssumption DEF Accounted, Word
    <3>2. CASE h # caller \/ s # to
      <4>1. /\ allowances'[h][s] = allowances[h][s]
            /\ approved'[h][s] = approved[h][s]
            /\ pulled'[h][s] = pulled[h][s]
        BY <2>2, <3>2 DEF Approve, TokenTypeOK, AllowanceTable
      <4>2. QED
        BY <4>1, <1>0 DEF Accounted
    <3>3. QED
      BY <3>1, <3>2
  <2>3. QED
    BY <1>1, <2>1, <2>2
<1>2. ASSUME NEW caller \in Callers, NEW from \in Account, NEW to \in Account,
             NEW amount \in Word, TransferFrom(caller, from, to, amount)
      PROVE  Accounted(h, s)'
  <2>1. approved' = approved
    BY <1>2 DEF TransferFrom
  <2>2. CASE h = from /\ s = caller
    <3>1. CASE approved[h][s] = MaxUint
      BY <1>0, <1>2, <2>1, <2>2, <3>1
         DEF TransferFrom, SpendAllowance, Accounted
    <3>2. CASE approved[h][s] # MaxUint
      <4>1. /\ amount \in Nat
            /\ approved[h][s] \in Word
            /\ pulled'[h][s] = pulled[h][s] + amount
        BY <1>2, <2>2, <3>2, MaxUintAssumption
           DEF TransferFrom, TokenTypeOK, AllowanceTable, Word
      <4>2. allowances[h][s] # MaxUint
        BY <1>0, <4>1, <3>2, MaxUintAssumption DEF Accounted, Word
      <4>3. allowances'[h][s] = allowances[h][s] - amount
        BY <1>2, <2>2, <4>2
           DEF TransferFrom, SpendAllowance, TokenTypeOK, AllowanceTable
      <4>4. QED
        BY <1>0, <2>1, <3>2, <4>1, <4>3 DEF Accounted
    <3>3. QED
      BY <3>1, <3>2
  <2>3. CASE h # from \/ s # caller
    <3>1. allowances'[h][s] = allowances[h][s]
      BY <1>2, <2>3
         DEF TransferFrom, SpendAllowance, TokenTypeOK, AllowanceTable
    <3>2. pulled'[h][s] = pulled[h][s]
      BY <1>2, <2>3 DEF TransferFrom, TokenTypeOK
    <3>3. QED
      BY <1>0, <2>1, <3>1, <3>2 DEF Accounted
  <2>4. QED
    BY <2>2, <2>3
<1>3. ASSUME UNCHANGED ledgerVars
      PROVE  Accounted(h, s)'
  BY <1>0, <1>3 DEF ledgerVars, Accounted
<1>4. CASE UNCHANGED tokenVars
  BY <1>3, <1>4 DEF tokenVars, ledgerVars
<1>5. CASE ManageTokenRoles \/ RegistryChange
  BY <1>3, <1>5 DEF ManageTokenRoles, RegistryChange
<1>6. QED
  BY <1>1, <1>2, <1>4, <1>5, TokenNextCases

(* Whatever sequence of approvals, pulls and transfers is made, a spender  *)
(* takes no more than the holder's last finite approval of it.             *)
THEOREM AllowancesAccounted == TokenSpec => []AllowanceAccounting
<1>1. TokenInit => AllowanceAccounting
  BY MaxUintAssumption
     DEF TokenInit, LedgerInit, NoAllowance, AllowanceAccounting
<1>2. TokenTypeOK /\ AllowanceAccounting /\ [TokenNext]_tokenVars
        => AllowanceAccounting'
  <2>. SUFFICES ASSUME TokenTypeOK, AllowanceAccounting, [TokenNext]_tokenVars
                PROVE  AllowanceAccounting'
    OBVIOUS
  <2>1. \A h, s \in Account : Accounted(h, s)'
    BY AccountingStep
  <2>2. QED
    BY <2>1 DEF AllowanceAccounting, Accounted
<1>3. QED
  BY <1>1, <1>2, TokenTypeInvariant, PTL DEF TokenSpec

-----------------------------------------------------------------------------
(* Sums of balances.                                                       *)

(* Counting up from zero reaches every natural number.                     *)
LEMMA CountingUp ==
    ASSUME NEW P, 0 \in P, \A n \in Nat : n \in P => n + 1 \in P
    PROVE  Nat \subseteq P
<1>. SUFFICES ASSUME NEW m \in Nat, m \notin P PROVE FALSE
  OBVIOUS
<1>. DEFINE T == {n \in Nat : n \notin P}
<1>1. PICK least \in T : \A n \in T : <<n, least>> \notin OpToRel(<, Nat)
  <2>1. T \subseteq Nat /\ T # {}
    OBVIOUS
  <2>. HIDE DEF T
  <2>2. QED
    BY <2>1, NatLessThanWellFounded, WFMin
<1>2. \A n \in T : ~ (n < least)
  BY <1>1 DEF OpToRel
<1>3. least - 1 \in Nat /\ least - 1 \in P
  BY <1>2
<1>4. QED
  BY <1>3

(* Every set of accounts is finite, and smaller without any of its members.*)
LEMMA SubsetFacts ==
    ASSUME NEW s \in SUBSET Account
    PROVE  /\ IsFiniteSet(s)
           /\ Cardinality(s) \in Nat
           /\ Cardinality(s) <= Cardinality(Account)
           /\ Cardinality(s) = 0 <=> s = {}
           /\ \A x \in s : Cardinality(s \ {x}) = Cardinality(s) - 1
<1>1. IsFiniteSet(s) /\ Cardinality(s) <= Cardinality(Account)
  BY FS_Subset, AccountAssumption
<1>2. Cardinality(s) \in Nat
  BY <1>1, FS_CardinalityType
<1>3. \A x \in s : Cardinality(s \ {x}) = Cardinality(s) - 1
  BY <1>1, FS_RemoveElement
<1>4. QED
  BY <1>1, <1>2, <1>3, FS_EmptySet

(* Adding accounts one at a time reaches every set of accounts.            *)
LEMMA SizeInduction ==
    ASSUME NEW P, {} \in P,
           \A s \in SUBSET Account :
               s # {} /\ (\A x \in s : s \ {x} \in P) => s \in P
    PROVE  SUBSET Account \subseteq P
<1>. DEFINE N == {n \in Nat : \A s \in SUBSET Account :
                                 Cardinality(s) = n => s \in P}
<1>1. 0 \in N
  BY SubsetFacts
<1>2. ASSUME NEW n \in Nat, n \in N PROVE n + 1 \in N
  <2>1. ASSUME NEW s \in SUBSET Account, Cardinality(s) = n + 1
        PROVE  s \in P
    <3>1. s # {}
      BY <2>1, SubsetFacts
    <3>2. ASSUME NEW x \in s PROVE s \ {x} \in P
      <4>1. Cardinality(s \ {x}) = n
        BY <2>1, SubsetFacts
      <4>2. QED
        BY <1>2, <4>1
    <3>3. QED
      BY <3>1, <3>2
  <2>2. QED
    BY <2>1
<1>. HIDE DEF N
<1>3. Nat \subseteq N
  BY <1>1, <1>2, CountingUp
<1>4. QED
  BY <1>3, SubsetFacts DEF N

(* MapThenSumSet takes the accounts in the order that CHOOSE picks them:   *)
(* Partial(f)[s] is what f sums to over the accounts of s.                 *)
Some(s) == CHOOSE x \in s : TRUE

Partial(f) ==
    CHOOSE g : g = [s \in SUBSET Account |->
        IF s = {} THEN 0 ELSE f[Some(s)] + g[s \ {Some(s)}]]

Total(f) == Partial(f)[Account]

Balances == [Account -> Nat]

UpTo(n) == {s \in SUBSET Account : Cardinality(s) <= n}

(* CHOOSE picks a member of a set that has one.                            *)
LEMMA SomeInside == ASSUME NEW s, s # {} PROVE Some(s) \in s
BY DEF Some

(* There is a function with the recursion of the partial sums: the one     *)
(* over the sets of at most n accounts extends to those of n + 1.          *)
LEMMA PartialUnfolds ==
    ASSUME NEW f
    PROVE  Partial(f) = [s \in SUBSET Account |->
               IF s = {} THEN 0 ELSE f[Some(s)] + Partial(f)[s \ {Some(s)}]]
<1>. DEFINE Sums(g, D) ==
             g = [s \in D |->
                   IF s = {} THEN 0 ELSE f[Some(s)] + g[s \ {Some(s)}]]
            P == {n \in Nat : \E g : Sums(g, UpTo(n))}
<1>1. 0 \in P
  <2>. DEFINE g == [s \in UpTo(0) |-> 0]
  <2>1. \A s \in UpTo(0) : s = {}
    BY SubsetFacts DEF UpTo
  <2>2. Sums(g, UpTo(0))
    BY <2>1
  <2>3. QED
    BY <2>2
<1>2. ASSUME NEW n \in Nat, n \in P PROVE n + 1 \in P
  <2>1. PICK g : Sums(g, UpTo(n))
    BY <1>2
  <2>. DEFINE h == [s \in UpTo(n + 1) |->
                     IF s = {} THEN 0 ELSE f[Some(s)] + g[s \ {Some(s)}]]
  <2>2. ASSUME NEW s \in UpTo(n + 1), s # {}
        PROVE  s \ {Some(s)} \in UpTo(n) /\ s \ {Some(s)} \in UpTo(n + 1)
    BY <2>2, SubsetFacts, SomeInside DEF UpTo
  <2>3. \A s \in UpTo(n) : s \in UpTo(n + 1)
    BY SubsetFacts DEF UpTo
  <2>4. \A s \in UpTo(n) : h[s] = g[s]
    BY <2>1, <2>3
  <2>5. Sums(h, UpTo(n + 1))
    BY <2>2, <2>4
  <2>. HIDE DEF h, Sums
  <2>6. QED
    BY <2>5
<1>3. Cardinality(Account) \in P
  <2>. HIDE DEF P
  <2>1. Cardinality(Account) \in Nat
    BY SubsetFacts
  <2>2. QED
    BY <1>1, <1>2, <2>1, CountingUp
<1>4. UpTo(Cardinality(Account)) = SUBSET Account
  BY SubsetFacts DEF UpTo
<1>5. PICK sum : Sums(sum, SUBSET Account)
  BY <1>3, <1>4
<1>6. Partial(f) = CHOOSE g : Sums(g, SUBSET Account)
  BY DEF Partial
<1>. HIDE DEF Sums
<1>7. Sums(Partial(f), SUBSET Account)
  BY <1>5, <1>6
<1>8. QED
  BY <1>7 DEF Sums

(* No accounts add up to nothing.                                          *)
LEMMA PartialEmpty == ASSUME NEW f PROVE Partial(f)[{}] = 0
BY PartialUnfolds

(* The partial sum over a set is that over all but the account picked, and *)
(* what this account has.                                                  *)
LEMMA PartialStep ==
    ASSUME NEW f, NEW s \in SUBSET Account, s # {}
    PROVE  /\ Some(s) \in s
           /\ Partial(f)[s] = f[Some(s)] + Partial(f)[s \ {Some(s)}]
BY PartialUnfolds, SomeInside

(* Sums of balances are natural numbers.                                   *)
LEMMA PartialTyping ==
    ASSUME NEW f \in Balances, NEW s \in SUBSET Account
    PROVE  Partial(f)[s] \in Nat
<1>. DEFINE P == {t \in SUBSET Account : Partial(f)[t] \in Nat}
<1>1. {} \in P
  BY PartialEmpty
<1>2. ASSUME NEW t \in SUBSET Account, t # {}, \A x \in t : t \ {x} \in P
      PROVE  t \in P
  <2>1. Some(t) \in t /\ Partial(f)[t] = f[Some(t)] + Partial(f)[t \ {Some(t)}]
    BY <1>2, PartialStep
  <2>2. f[Some(t)] \in Nat /\ Partial(f)[t \ {Some(t)}] \in Nat
    BY <1>2, <2>1 DEF Balances
  <2>3. QED
    BY <2>1, <2>2
<1>. HIDE DEF P
<1>3. SUBSET Account \subseteq P
  BY <1>1, <1>2, SizeInduction
<1>4. QED
  BY <1>3 DEF P

(* The order does not matter: any account may be taken out first.          *)
LEMMA AnyOrder ==
    ASSUME NEW f \in Balances, NEW s \in SUBSET Account, NEW a \in s
    PROVE  Partial(f)[s] = f[a] + Partial(f)[s \ {a}]
<1>. DEFINE P == {t \in SUBSET Account :
                    \A x \in t : Partial(f)[t] = f[x] + Partial(f)[t \ {x}]}
<1>1. {} \in P
  OBVIOUS
<1>2. ASSUME NEW t \in SUBSET Account, t # {}, \A x \in t : t \ {x} \in P,
             NEW x \in t
      PROVE  Partial(f)[t] = f[x] + Partial(f)[t \ {x}]
  <2>. DEFINE c == Some(t)
  <2>1. c \in t /\ Partial(f)[t] = f[c] + Partial(f)[t \ {c}]
    BY <1>2, PartialStep
  <2>2. CASE x = c
    BY <2>1, <2>2
  <2>3. CASE x # c
    <3>. DEFINE u == (t \ {c}) \ {x}
    <3>1. x \in t \ {c} /\ c \in t \ {x} /\ u = (t \ {x}) \ {c}
      BY <2>1, <2>3
    <3>2. t \ {c} \in P /\ t \ {x} \in P
      BY <1>2, <2>1
    <3>. HIDE DEF c
    <3>3. Partial(f)[t \ {c}] = f[x] + Partial(f)[u]
      BY <3>1, <3>2
    <3>4. Partial(f)[t \ {x}] = f[c] + Partial(f)[u]
      BY <3>1, <3>2
    <3>5. f[x] \in Nat /\ f[c] \in Nat /\ Partial(f)[u] \in Nat
      BY <2>1, PartialTyping DEF Balances
    <3>. HIDE DEF u
    <3>6. QED
      BY <2>1, <3>3, <3>4, <3>5
  <2>4. QED
    BY <2>2, <2>3
<1>3. \A t \in SUBSET Account :
          t # {} /\ (\A x \in t : t \ {x} \in P) => t \in P
  BY <1>2
<1>. HIDE DEF P
<1>4. SUBSET Account \subseteq P
  BY <1>1, <1>3, SizeInduction
<1>5. QED
  BY <1>4 DEF P

(* A sum depends only on the balances of the accounts it is over.          *)
LEMMA SumsAgree ==
    ASSUME NEW f, NEW g, NEW s \in SUBSET Account,
           \A a \in s : f[a] = g[a]
    PROVE  Partial(f)[s] = Partial(g)[s]
<1>. DEFINE P == {t \in SUBSET Account :
                    t \subseteq s => Partial(f)[t] = Partial(g)[t]}
<1>1. {} \in P
  BY PartialEmpty
<1>2. ASSUME NEW t \in SUBSET Account, t # {}, \A x \in t : t \ {x} \in P
      PROVE  t \in P
  <2>1. SUFFICES ASSUME t \subseteq s PROVE Partial(f)[t] = Partial(g)[t]
    OBVIOUS
  <2>2. Some(t) \in t
    BY <1>2, SomeInside
  <2>3. Partial(f)[t \ {Some(t)}] = Partial(g)[t \ {Some(t)}]
    BY <1>2, <2>1, <2>2
  <2>4. /\ Partial(f)[t] = f[Some(t)] + Partial(f)[t \ {Some(t)}]
        /\ Partial(g)[t] = g[Some(t)] + Partial(g)[t \ {Some(t)}]
    BY <1>2, PartialStep
  <2>5. f[Some(t)] = g[Some(t)]
    BY <2>1, <2>2
  <2>6. QED
    BY <2>3, <2>4, <2>5
<1>. HIDE DEF P
<1>3. SUBSET Account \subseteq P
  BY <1>1, <1>2, SizeInduction
<1>4. QED
  BY <1>3 DEF P

(* Writing one balance changes the total by as much; and no balance is     *)
(* larger than the total.                                                  *)
LEMMA TotalChange ==
    ASSUME NEW f \in Balances, NEW a \in Account, NEW n \in Nat
    PROVE  /\ Total([f EXCEPT ![a] = n]) + f[a] = Total(f) + n
           /\ f[a] <= Total(f)
           /\ Total(f) \in Nat
<1>. DEFINE g == [f EXCEPT ![a] = n]
            rest == Account \ {a}
<1>1. f \in Balances /\ g \in Balances /\ g[a] = n
  BY DEF Balances
<1>2. \A x \in rest : f[x] = g[x]
  BY DEF Balances
<1>. HIDE DEF g
<1>3. Partial(f)[rest] = Partial(g)[rest]
  BY <1>2, SumsAgree
<1>4. Total(f) = f[a] + Partial(f)[rest] /\ Total(g) = g[a] + Partial(g)[rest]
  BY <1>1, AnyOrder DEF Total
<1>5. Partial(f)[rest] \in Nat /\ f[a] \in Nat
  BY <1>1, PartialTyping DEF Balances
<1>. HIDE DEF rest
<1>6. QED
  BY <1>1, <1>3, <1>4, <1>5 DEF g

(* With every balance zero, the total is zero.                             *)
LEMMA TotalZero == Total([a \in Account |-> 0]) = 0
<1>. DEFINE f == [a \in Account |-> 0]
            P == {t \in SUBSET Account : Partial(f)[t] = 0}
<1>1. {} \in P
  BY PartialEmpty
<1>2. ASSUME NEW t \in SUBSET Account, t # {}, \A x \in t : t \ {x} \in P
      PROVE  t \in P
  <2>1. Some(t) \in t /\ Partial(f)[t] = f[Some(t)] + Partial(f)[t \ {Some(t)}]
    BY <1>2, PartialStep
  <2>2. f[Some(t)] = 0
    BY <2>1
  <2>. HIDE DEF f
  <2>3. QED
    BY <1>2, <2>1, <2>2
<1>. HIDE DEF P
<1>3. SUBSET Account \subseteq P
  BY <1>1, <1>2, SizeInduction
<1>4. QED
  BY <1>3 DEF P, Total

(* What the property says of supply and balances, now and after a step.    *)
LEMMA SupplyMeaning == SupplyIsSumOfBalances <=> totalSupply = Total(balances)
BY DEF SupplyIsSumOfBalances, MapThenSumSet, MapThenFoldSet, Total, Partial,
       Some

LEMMA SupplyMeaningNext ==
    SupplyIsSumOfBalances' <=> totalSupply' = Total(balances')
BY DEF SupplyIsSumOfBalances, MapThenSumSet, MapThenFoldSet, Total, Partial,
       Some

(* The transfer path moves what it takes: the total of the balances stays. *)
(* The unchecked addition does not wrap, because a balance and what is     *)
(* added to it are both part of the supply, and that is a word.            *)
LEMMA MoveKeepsTotal ==
    ASSUME TokenTypeOK, totalSupply = Total(balances),
           NEW from \in Account, NEW to \in Account, NEW amount \in Word,
           Move(from, to, amount)
    PROVE  Total(balances') = Total(balances)
<1>. DEFINE rest == balances[from] - amount
            debited == [balances EXCEPT ![from] = rest]
<1>1. /\ balances' = [debited EXCEPT ![to] = UncheckedAdd(@, amount)]
      /\ balances[from] >= amount
  BY DEF Move
<1>2. /\ balances[from] \in Nat /\ amount \in Nat /\ rest \in Nat
      /\ totalSupply \in Nat /\ totalSupply <= MaxUint
      /\ balances \in Balances
  BY <1>1, MaxUintAssumption DEF TokenTypeOK, Word, Balances
<1>3. debited \in Balances
  BY <1>2 DEF Balances
<1>4. Total(debited) + balances[from] = Total(balances) + rest
  <2>. HIDE DEF rest
  <2>1. QED
    BY <1>2, TotalChange
<1>. HIDE DEF debited
<1>5. Total(debited) = totalSupply - amount
  <2>1. Total(debited) \in Nat /\ Total(balances) \in Nat
    BY <1>2, <1>3, TotalChange
  <2>2. QED
    BY <1>2, <1>4, <2>1
<1>6. debited[to] \in Nat /\ debited[to] <= Total(debited)
  BY <1>3, TotalChange DEF Balances
<1>. HIDE DEF rest
<1>7. UncheckedAdd(debited[to], amount) = debited[to] + amount
  BY <1>2, <1>5, <1>6, MaxUintAssumption DEF UncheckedAdd, Fits
<1>8. balances' = [debited EXCEPT ![to] = debited[to] + amount]
  BY <1>1, <1>7
<1>9. Total(balances') + debited[to] = Total(debited) + (debited[to] + amount)
  <2>. DEFINE new == debited[to] + amount
  <2>1. new \in Nat
    BY <1>2, <1>6
  <2>. HIDE DEF new
  <2>2. Total([debited EXCEPT ![to] = new]) + debited[to]
          = Total(debited) + new
    BY <1>3, <2>1, TotalChange
  <2>3. QED
    BY <1>8, <2>2 DEF new
<1>10. Total(balances') \in Nat
  <2>1. balances' \in Balances
    BY <1>2, <1>3, <1>6, <1>8 DEF Balances
  <2>2. QED
    BY <2>1, TotalChange
<1>11. QED
  BY <1>2, <1>5, <1>6, <1>9, <1>10

(* Every step that changes the supply changes one balance by as much, and  *)
(* no other step changes their total.                                      *)
LEMMA SupplyStep ==
    ASSUME TokenTypeOK, totalSupply = Total(balances), [TokenNext]_tokenVars
    PROVE  totalSupply' = Total(balances')
<1>1. ASSUME NEW caller \in Callers, NEW to \in Account, NEW amount \in Word,
             \/ Mint(caller, to, amount)
             \/ Approve(caller, to, amount)
             \/ Transfer(caller, to, amount)
      PROVE  totalSupply' = Total(balances')
  <2>. caller \in Account
    BY DEF Callers
  <2>1. CASE Mint(caller, to, amount)
    <3>1. /\ balances \in Balances /\ totalSupply \in Nat
          /\ balances[to] \in Nat /\ amount \in Nat
      BY MaxUintAssumption DEF TokenTypeOK, Balances, Word
    <3>2. /\ balances' = [balances EXCEPT ![to] = balances[to] + amount]
          /\ totalSupply' = totalSupply + amount
      BY <2>1 DEF Mint
    <3>3. Total(balances') + balances[to]
            = Total(balances) + (balances[to] + amount)
      <4>. DEFINE new == balances[to] + amount
      <4>1. new \in Nat
        BY <3>1
      <4>. HIDE DEF new
      <4>2. Total([balances EXCEPT ![to] = new]) + balances[to]
              = Total(balances) + new
        BY <3>1, <4>1, TotalChange
      <4>3. QED
        BY <3>2, <4>2 DEF new
    <3>4. Total(balances') \in Nat
      <4>1. balances' \in Balances
        BY <3>1, <3>2 DEF Balances
      <4>2. QED
        BY <4>1, TotalChange
    <3>5. QED
      BY <3>1, <3>2, <3>3, <3>4
  <2>2. CASE Approve(caller, to, amount)
    BY <2>2 DEF Approve
  <2>3. CASE Transfer(caller, to, amount)
    BY <2>3, MoveKeepsTotal DEF Transfer
  <2>4. QED
    BY <1>1, <2>1, <2>2, <2>3
<1>2. ASSUME NEW caller \in Callers, NEW from \in Account,
             NEW to \in Account, NEW amount \in Word,
             TransferFrom(caller, from, to, amount)
      PROVE  totalSupply' = Total(balances')
  BY <1>2, MoveKeepsTotal DEF TransferFrom
<1>3. CASE ManageTokenRoles
  BY <1>3 DEF ManageTokenRoles, ledgerVars
<1>4. CASE RegistryChange
  BY <1>4 DEF RegistryChange, ledgerVars
<1>5. CASE UNCHANGED tokenVars
  BY <1>5 DEF tokenVars
<1>6. QED
  BY <1>1, <1>2, <1>3, <1>4, <1>5, TokenNextCases

(* No sequence of transactions creates or destroys a token unaccounted:    *)
(* the supply is the sum of the balances.                                  *)
THEOREM SupplyAccounted == TokenSpec => []SupplyIsSumOfBalances
<1>1. TokenInit => SupplyIsSumOfBalances
  BY TotalZero, SupplyMeaning DEF TokenInit, LedgerInit
<1>2. TokenTypeOK /\ SupplyIsSumOfBalances /\ [TokenNext]_tokenVars
        => SupplyIsSumOfBalances'
  BY SupplyStep, SupplyMeaning, SupplyMeaningNext
<1>3. QED
  BY <1>1, <1>2, TokenTypeInvariant, PTL DEF TokenSpec

=============================================================================
