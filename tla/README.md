# zk-kyc-pass in TLA+

A verification project for zk-kyc-pass: TLA+ models of its contracts, of the
statement its circuit proves, of its command-line tool, of the deployment script, and
of a credential's way through all of them; TLC runs on small instances; and theorems
checked by TLAPS for instances of any size.

Line numbers refer to the repository (`src/…` below is the repository root).

## 1. The system

An issuer keeps a Merkle tree of credentials `Poseidon(secret, expiry, issuer)` in a
file and publishes its root on chain. A holder proves in zero knowledge that a
credential of theirs is below the root, and redeems the proof at a registry contract,
which records until when the holder's address is verified. A token contract asks the
registry on every mint and transfer.

| Component | State | Operations | Interacts with |
|---|---|---|---|
| `Roles` (src/Roles.sol) | `owner`, `agents` | transferOwnership, setAgent | inherited by both contracts, one copy of the state each |
| `ZKComplianceRegistry` | `currentRoot`, `spentNullifiers`, `verifiedUntil` | redeemProof, setRoot, revoke, isVerified | calls the verifier; answers the token; reads the block time |
| `Groth16Verifier` + `kycpass.circom` | none | verifyProof | called by redeemProof |
| `KYCToken` | `totalSupply`, `_balances`, `_allowances` | mint, approve, transfer, transferFrom | calls `isVerified` in the transaction that moves tokens |
| Merkle tree (internal/tree) | `leaves`, the zero ladder | Append, Root, Proof | used by the issuer; its paths are checked by the circuit |
| Issuer state (internal/kyc, internal/cli) | the state file; a copy in each process | `kycctl issue`, `kycctl root` | the owner publishes a root that either printed |
| Proving (`kycctl prove`/`verify`, internal/prover) | a work directory | four snarkjs commands | reads the state file; its output goes to redeemProof |
| Seed script (scripts/deploy-and-seed.sh) | shell variables, the deployment record | deploy, redeem, mint, transfer, poll | kycctl and a load-balanced RPC |

### What is hard here

*Order of transactions.* Anyone can send any transaction at any time. Redemption,
root rotation, rotation back to an earlier root, revocation, expiry, approvals and
transfers interleave over long sequences; the checks of the contracts are made at the
moment a transaction executes, on state that others have changed since the proof, the
approval or the mint.

*Arithmetic at its limits.* The pairing reads a signal modulo the field order, so a
`uint256` has aliases; the token has unchecked blocks; `type(uint256).max` is a special
allowance; `>` against the block time decides at the second of the expiry.

*Processes and crashes.* Every `kycctl issue` is a process that loads, modifies and
rewrites one file, with no lock, and truncates it before it writes.

*Proving from what others change.* `kycctl prove` reads the file once, at a moment when
an issue may have torn it, and may have taken it past the tree's capacity or ahead of
the published root. Then it runs four external commands, each of which can fail, with
the secret on disk, and decides by what one of them printed. The proof is submitted
later, by anyone who has it, when the root may have moved on.

*Reads that lag.* The seed script writes to the chain and reads from replicas that may
not have seen its writes, in a shell where a failing call ends the script in some
places and goes unnoticed in others.

*The tree's shape.* Padding differs by level and leaf count, and must agree with the
circuit for every index.

`PROJECT.json` lists each hazard at its line, with the properties that cover it. Three
have no property: that the seed script deletes the issuer's file and cannot be taken up
again when it dies half way (scripts/deploy-and-seed.sh:70), since the model is of one
run of it; a signal that ends `kycctl` while snarkjs runs (cmd/kycctl/main.go:19),
which the model has as an action but for which the code promises nothing, and an output
stream that is dead when `issue` prints its secret (internal/cli/cli.go:109), since what
a terminal received is not part of the program's state.

### What makes each component correct

* Registry: a credential is redeemed once per root; what is stored is what the events
  say; nobody is verified without, or for longer than, a credential; verification ends
  by itself; revocation is undone only by a nullifier not burned before.
* Token: supply is conserved at every word size; balances move only between verified
  accounts; allowances are never exceeded.
* Both: a holder has redeemed; a balance moves only while the account's last
  redemption stands; trading ends with the last credential.
* Tree: the sparse construction is the full padded tree; every leaf, and nothing but a
  leaf, can be proved.
* Issuer: what a holder was told stays true, and the roots that were printed are of one
  growing tree, as long as no commands overlap; a file becomes unusable, and a credential
  is lost or stranded, only in the known ways.
* Proving: what is printed can be redeemed, success means a valid proof, and the secret
  does not stay on disk.
* All together: only the holder is verified by a holder's proof; the registry never gets
  ahead of the issuer, however commands race and roots are published; a credential that
  stays in the file is redeemed, however often a proof comes too early or too late.
* Seed script: it ends; what it leaves on the chain is the beginning of its story; what
  it records is the whole of it.

## 2. The modules

```
Accounts ── Roles ──────────────┐
    └────── KYCPassCircuit ──── ZKComplianceRegistry ─┬─ KYCSystem      (EXTENDS)
             │   Roles ── KYCToken ·····INSTANCE······┼···┘
             │                                        ├─ CredentialLifecycle
             ├─ ComplianceLedger ·······INSTANCE······┴─ ComplianceRefinement
             └─ CredentialProof
StateFile ── IssuerState
    └·······INSTANCE······· CredentialProof, CredentialLifecycle
MerkleTree      DeployAndSeed      (self-contained)
```

| Module | Models |
|---|---|
| `Accounts` | addresses, the zero address, who can send a transaction |
| `Roles` | src/Roles.sol; `RolesNext` is the role management each contract offers |
| `KYCPassCircuit` | the relation of circuits/kycpass.circom on the public signals, and the verifier's range checks |
| `ZKComplianceRegistry` | src/ZKComplianceRegistry.sol and the block time |
| `ComplianceLedger` | the abstract specification of the registry: a ledger of grants, each paid for by burning one (secret, tree) pair, with no proofs, signals, callers or roles |
| `ComplianceRefinement` | the refinement mapping: a pair is burned when any `uint256` alias of its nullifier is marked spent |
| `KYCToken` | src/KYCToken.sol beside *any* registry: `verified` changes arbitrarily between transactions. This is the abstract specification of the token's environment |
| `KYCSystem` | the two contracts as script/Deploy.s.sol deploys them: `KYCToken` instantiated with `verified <- [a \in Account \|-> IsVerified(a)]` |
| `MerkleTree` | internal/tree/tree.go and the circuit's `MerkleInclusion` |
| `StateFile` | the tree-state file and the `kycctl issue` processes that rewrite it, step by step |
| `IssuerState` | what `kycctl issue` and `kycctl root` tell: receipts, and the roots that are there to be published |
| `CredentialProof` | `kycctl prove` and `kycctl verify`: buildProof, the work directory, the snarkjs commands, the verdict, the report, the cleanup; beside the issue commands of `StateFile` |
| `CredentialLifecycle` | issuer, owner, holder and chain: issue, root, setRoot, prove, redeemProof, revoke, over the actions of the registry and of `StateFile` |
| `DeployAndSeed` | scripts/deploy-and-seed.sh against a chain that is read through lagging replicas |
| `MC…` | constants, symmetry and a few definitions for TLC |
| `…Proofs` | theorems and their proofs |

### How the code became actions

**Transactions.** A transaction is one step, as the chain executes it. Its sender and
arguments are chosen freely. A revert changes nothing, so every `revert` is a guard.
Events are not state of the contracts; the ones the properties speak of are kept in
history variables (`redemptions`, `revokedAt`, `approved`, `pulled`), which no action
reads. `Tick` advances the block time between transactions. Signals are chosen
independently of the sender: a proof is a bearer object.

**Proofs and hashes.** Poseidon is a free constructor: a leaf is the record of what is
hashed, a nullifier the pair of secret and root, a root a name for a set of leaves
(`Leaves`). A proof that verifies exists exactly for signals that satisfy the circuit.
This is the soundness of Groth16 and the collision resistance of Poseidon, which the
design assumes. What is *not* assumed is that signals are canonical: a signal ranges
over twice the field (`Wraps`, `Uint`), the circuit's relation sees it modulo the field,
and only `CheckField` (src/Verifier.sol:73-78) tells representatives apart. (The root
and the holder's address are compared with storage and `msg.sender` by the registry;
their range checks have nothing to tell apart here, and they have no aliases in the
model.) That a root stands for its leaves, and for nothing else, is what `MerkleTree`
checks and `MerkleTreeProofs` proves (`EveryLeafProvable`, `OnlyLeavesProvable`,
`RootNamesLeaves`).

**Words.** `MaxUint` is `type(uint256).max`. Solidity's checked addition is the guard
`Fits`; the addition of the unchecked block wraps (`UncheckedAdd`). `Move` writes the
sender's balance and then reads the recipient's from what was written, as
`_transfer` does: it matters when they are one account.

**The issuer's processes** (`StateFile`). `issue` is split at what another process can
see: `Load` (read the file, append, compute the root: internal/kyc/kyc.go:286-299),
`Truncate` and `Write` (`os.WriteFile` opens with `O_TRUNC`, then writes), `Finish` (the
answer is printed: internal/cli/cli.go:109-114). `Crash` is a kill, or a failing write,
at any of these points. A write over what another process wrote since the truncation may
leave the tail of a longer content behind (`Overwritten`). The validation of the
arguments happens before the file is touched and is left out. `LeafOf` gives the leaf of
each command; two may have the same, as the code refuses neither a duplicate leaf nor a
secret that was used before. `IssuerState` adds what is told: `PrintResult` keeps index
and root for the holder, and both `issue` and `kycctl root` (`PrintRoot`) add to the
roots that were `printed`. Publishing is another step, by another program, and not part
of the module; `RootsOfOneTree` is about every pair of printed roots, in whatever order
the owner publishes them.

**The tree.** `Layers`, `Root` and `Proof` are the code's functions with the layers as
sequences, `MerkleInclusion` is the circuit's template. Each loop over the levels is a
recursive function of the level. The reference is the padded tree with all its nodes
(`Node`), the bottom-up view; `Below` is the view from the root: what some path can fold
to it. `width` is the size of a full subtree and no part of the code, which has no
capacity.

**Proving.** A command of `CredentialProof` goes through the statements of `cmdProve`:
`BuildProof` (one reading of the file; it fails on an argument that is refused, a file
that is missing or torn, or a leaf that is not there), `MakeWorkDir`, `WriteInput`, one
action for each snarkjs command (`Witness`, `Prove`, `Verify`, `Calldata`), `Report`, and
`Cleanup`, the deferred removal that every error return after the directory was made
runs too (`Fail`). A snarkjs command can fail anywhere, having written a part of its
output (`SnarkjsFails`); `Verify` decides by the OK marker before the exit status
(`Verdict`), and nothing is assumed of that status (`Answers`). `Kill` ends the process
without cleanup, and the snarkjs command goes on (`OrphanEnds`). Numerals are integers:
`CredentialOf` and `InputOf` reduce an expiry modulo the field, as the hasher and the
witness calculator do, for the numerals Poseidon accepts (`Hashable`). The issuer
argument is parsed by the same `parseField`, and its numerals are not varied. Roots are
sequences of leaves; `RootOf` cuts them at the tree's `Capacity`, and `HasWitness` is the
circuit's constraint that the path leads to the root. The file is that of `StateFile`,
with all its issue commands: they run beside `prove` and beside each other (`Issue`), so
the file `prove` reads may be torn, may lack a leaf that was there before, and need not
grow afterwards.

**The lifecycle.** Each party acts on what it saw last. Issue commands are those of
`StateFile`, racing and crashing. `Publish` sets any root that was ever *printed*, in any
order and as often as the owner likes, or none (`NoTree`: setRoot takes zero, and a
circuit proof under the empty tree is equally impossible); `RemoveLeaf` is the operator
who edits the file to drop a credential (SECURITY.md:55-57), which no command does.
`Prove` uses the file as it *is*, `Submit` takes any calldata ever printed, from anyone,
and also signals that a user makes up for its own secrets, aliases and expiries included
(`OwnSignals`). `SetRoot`, `RedeemProof` and `Revoke` are the registry's actions. That
the owner publishes no root that was never printed is an assumption: `setRoot` would take
any number, and the issuer is trusted with the tree (SECURITY.md).

**The seed script.** `Script` lists its instructions, `pc` is the one it is at. A state
of the chain is the set of the script's transactions in it, `chain` the states so far,
and a read is answered from any of them, freshly chosen each time (`Answers`); `Needs`
says what a transaction reverts without. Three ways of reading differ, as in the shell:
`PollEq` dies with a call that fails, since the assignment of a failing pipeline does so
under `set -e -o pipefail`; `WaitForCode` takes the empty output of a failing call for
code; `ReadSupply` reads once. `Send` waits for the receipt and may die with the
transaction mined; `Broadcast` does not wait, and `Mine` may come at any time or drop the
transaction. `Retry` counts the reads of a loop.

## 3. The runs

The bounds of a run are the constants of its `.cfg`.

| Run | Configuration | Shows |
|---|---|---|
| registry | MCRegistry.cfg | `TypeOK`, `OneRedemptionPerEpoch`, `StorageMatchesEvents`, `VerificationIsBacked`, `ExtendingBurns`, and the refinement `LedgerImplemented` |
| registry_revoked | MCRegistryRevoked.cfg | `RevocationIsFinal` is violated (section 6) |
| token | MCKYCToken.cfg | `TokenTypeOK`, `AllowanceAccounting`, `SupplyIsSumOfBalances`, `FrozenWhileUnverified` |
| system | MCKYCSystem.cfg | `HoldersRedeemed`, `MovesOnlyIfEntitled`, and under fairness `VerificationLapses`, `TradingEnds` |
| merkle_tree | MCMerkleTree.cfg | `RootIsReference`, `EveryLeafProvable`, `OnlyLeavesProvable` |
| merkle_tree_full | MCMerkleTreeFull.cfg | `TopLayerIsSingle` is violated |
| issuer | MCIssuer.cfg | `TypeOK`, `ReceiptsStayTrue`, `RootsOfOneTree`, `TornOnlyByCrash`, `LostOnlyByOverlap`, `StrandedOnlyByCrash`, `UnusableForever` |
| issuer_race | MCIssuerRace.cfg | `AppendOnly` is violated |
| prove | MCCredentialProof.cfg | `TypeOK`, `OutputRedeemable`, `SuccessIsEarned`, `SecretsRemoved` |
| lifecycle | MCLifecycle.cfg | `OnlyHolderRedeems`, `RedeemedWereIssued`, and under fairness `IssuedIsRedeemed` |
| seed | MCSeed.cfg | `TypeOK`, `RecordTrue`, `StoryInOrder`, and under fairness `ScriptEnds` |
| seed_balances | MCSeedRecordFresh.cfg | `RecordFresh` is violated |

### Bounds, and why they are enough

* **Registry.** Two accounts that can send transactions and the zero address: one to
  hold, one to interfere, and the roles move between them. Two secrets. Three roots: an
  empty one (the code allows publishing zero to stop redemptions), a first tree, and a
  later tree in which one secret was dropped and the other has two credentials with
  different expiries. The field has order 4 and the block time runs to 2, so a credential
  can be expired, expire now, or be live, and every signal has an alias. The number of
  redemptions is bounded by the nullifiers themselves. Accounts are symmetric; liveness
  runs use no symmetry.
* **Token.** Words 0 to 3: zero, the infinite allowance 3, and both a sum that fits and
  one that does not.
* **System.** One credential, renewed in a second tree. The roles stay as deployed
  (`RolesKept`) and words are 0 and 1, for size; both are varied in the runs of each
  contract alone, and the proofs have neither restriction.
* **Tree.** Depth 3 has a node that is last and odd at every level, at some leaf count;
  all sequences of up to 8 leaves over three values, equal leaves included. The violation
  run needs one leaf more than the capacity, at depth 2.
* **Issuer.** Four commands, two of them with the same leaf, at most three at one time
  (`MaxRunning`), at most one crash (`MaxCrashes`): 849,433 states. Three that overlap can
  tear the file and then mend it; the fourth comes after. The properties that hold only
  for commands that take turns say so themselves (`NoOverlap`), so that the one run has
  both worlds, and a history that leaves the first for the second. The race needs two
  commands and no crash.
* **Prove.** One command: commands share nothing but the file, which three issue commands
  rewrite at any time, two of them at once, one of which may be killed: 707,416 states.
  `Capacity` 2, so that the third leaf can be one past those under the root. The field has
  order 3, two secrets, and the numerals are -1, 1 and 3: a negative one, which parseField
  and Poseidon both accept, one in the field, and one above it, which parseField accepts
  and Poseidon refuses.
* **Lifecycle.** A credential that can expire, and its renewal with the same secret that
  cannot, appended by two issue commands that may overlap, one of which may be killed;
  issuer, owner and agent are the other user. `MaxSetbacks` 1: once, the operator removes
  a leaf or publishes what is not in the file. `MaxTime` 1 and a field of order 3:
  239,376 states. Two setbacks were checked as well, without a difference but in time.
* **Seed.** `MaxTries` 3: a first read, one between and the last. It starts with and
  without an existing verifier (DeployOnVerifier.s.sol).

`CHECK_DEADLOCK FALSE` in the runs of the issuer, of the tree, of prove and of the seed
script: these stop when every command has ended, or the tree is full.

### Faulty variants

Operators commented "A faulty variant of …" are no part of the model. Each is a plausible
bug in the definition that follows it: a missing range check, a balance read too early, a
comparison that is not strict. `PROJECT.json` ("mutants") says which property of which run
fails when the variant takes the definition's place, so that every property is known to
depend on the code it is about.

## 4. Fairness

Fairness is put on what keeps going by itself, or on what a user does who wants the
result; never on an attacker, a failure, or a user who may have no reason to act.

* **system**: `WF(Tick)`: blocks keep being produced and their timestamps grow. No account
  is obliged to send a transaction. `MaxTime` bounds the clock; the two liveness
  properties need it to pass the largest expiry only, and `Tick` alone reaches that. They
  say exactly that nobody's cooperation is needed (SECURITY.md: verification "lapses
  automatically at expiry with no transaction required").
* **lifecycle**: `WF` of `PrintRoot`, `Publish(file)`, each `Prove(c)` and each holder's
  submission (`HolderSubmits`). The property is about the parties who want a credential
  redeemed: the issuer prints again, the owner publishes again and the holder proves and
  submits again as long as that changes anything. None of them waits for another, and the
  clock, other callers, the agent who revokes and the issue commands are not fair: no
  command has to start, or to go on. Issuing pauses, because there are finitely many
  commands, and so does taking credentials back (`MaxSetbacks`); with a file that changes
  for ever, a holder could be overtaken for ever. The property is of credentials that stay
  in the file from some time on, since a racing command or the operator may drop a leaf
  for good. Weak fairness of `HolderSubmits` says: as long as some proof of theirs stands,
  one is submitted. With a renewal below the same root as its predecessor the two share a
  nullifier, and the holder has one redemption; `Redeemed(c)` then says that it was under
  a root that has `c`, when the holder could have chosen it.
* **seed**: `WF(ScriptStep)`: the shell runs the next command, and every command it
  calls returns, with an answer or an error. That a `cast call` or `cast send` comes
  back is an assumption on the tool: the script gives it no time-out. `Mine` is not
  fair: the showcase may never be mined, and the script must end all the same.

The issuer's and the proving model have no liveness property: nothing makes a user run a
command again, and a snarkjs command may hang.

## 5. What is proved

All proofs are checked by `tlapm`. Their assumptions are the named ones on constants:
the zero address is an address, the field order, `MaxTime`, `MaxUint`, `Capacity`,
`Depth`, `MaxTries` and `MaxCrashes` are natural numbers (the order, the capacity, the
depth and the tries at least 1), `Leaves` maps roots to sets of credentials, the padding
of a tree is no leaf, each issue command has a leaf (or arguments that are accepted), a
missing or torn file is no list of leaves, and, where roots are written as sequences of
leaves, every sequence that the tree can come to hold is a root (`RootAssumption`). Two
sets are assumed to be finite, of any size: the accounts (there are 2^160 addresses), so
that the balances have a sum, and the issue commands, so that a file can be bounded by
their number.

**Induction.** The provers cannot use the library's induction theorems, which take a
predicate as a parameter. Where a proof needs induction, over the levels of the tree, the
size of a set of accounts, or the position in a list, it takes a least counterexample
instead: the order of the naturals is well founded, and a set of them has a minimal
element (`NatLessThanWellFounded`, `WFMin`). What is proved by induction is then a set,
as in `LevelInduction` (`MerkleTreeProofs`) and `SizeInduction` (`KYCTokenProofs`). That
the functions defined by recursion exist, and satisfy their equations, is proved in the
same way.

**Registry** (`ZKComplianceRegistryProofs`). `OneRedemptionPerEpoch`,
`VerificationIsBacked` and `ExtendingBurns` are not inductive: they relate the nullifier
map, the expiry map and the event log, and a step that keeps one of them may rely on the
relation between the other two. The inductive invariant `IInv` is the conjunction of

* `TypeOK`,
* `SpentMatchesEvents`: a nullifier is marked spent exactly when an event carries it,
* `EventsDistinct`: no two events carry the same nullifier value,
* `EventsGenuine`: every event's nullifier is canonical (`wraps = 0`) and belongs, with
  the event's expiry, to a credential in the tree of its root,
* `StorageMatchesEvents`: `verifiedUntil` is the expiry of the standing redemption.

`RedeemFacts` derives from `RedeemProof`'s guards what the new event looks like; the
step proof then has one case per action. `EventsDistinct` speaks of values and
`OneRedemptionPerEpoch` of residues: the first gives the second only with
`EventsGenuine`, which is where the verifier's range check enters.

| Theorem | Establishes |
|---|---|
| `TypeInvariant` | `[]TypeOK` |
| `SingleRedemption` | `[]OneRedemptionPerEpoch` |
| `EventsDetermineStorage` | `[]StorageMatchesEvents` |
| `Backing` | `[]VerificationIsBacked` |
| `ExtensionsBurn` | `ExtendingBurns` |

**Token** (`KYCTokenProofs`): `TokenTypeInvariant`, `Freezing`
(`FrozenWhileUnverified`), `AllowancesAccounted` (`AllowanceAccounting`) and
`SupplyAccounted` (`SupplyIsSumOfBalances`), beside any registry. The last is inductive
together with the types, but its step is not obvious: `_transfer` adds in an unchecked
block. Once the sender is debited, the sum is the supply less the amount, and no balance
is larger than the sum; so the recipient's balance and the amount together are at most the
supply, which is a word (`MoveKeepsTotal`; it does not matter whether the two are one
account, because the recipient's balance is read after the debit). `Total` is the sum that
the property takes; that any account may be taken out of it first (`AnyOrder`), and what
a change of one balance does to it (`TotalChange`), rest on an induction over the sets of
accounts.

**System** (`KYCSystemProofs`). The composition interleaves the transactions of two
contracts that do not write to each other, so by construction its steps are steps of the
registry's specification (`RegistryHere`) and of the token's beside any registry
(`TokenSteps`); these are lemmas, and nothing is claimed by them. The theorems combine the
two: `MovingNeedsEntitlement` (`MovesOnlyIfEntitled`) is `Freezing` together with
`EventsDetermineStorage`, and `HoldingNeedsRedemption` (`HoldersRedeemed`) is an invariant
of the composition by the same two facts. `SupplyAccountedHere` has the token's sum beside
the real registry.

**Ledger** (`ZKComplianceRegistryProofs`). `RegistryImplementsLedger`
(`LedgerImplemented`): the registry's specification implements that of the ledger. The
step that matters is redemption: that the pair was not burned before, by any alias, needs
`IInv` (a spent nullifier is one of the events', and those are canonical), and that some
credential of the tree pays for the grant needs the verifier's range check on the expiry.
A revocation is a withdrawal, a rotation a replacement, role changes are stutters.

**Lifecycle** (`CredentialLifecycleProofs`). `RegistryImplementedInLifecycle`: the
lifecycle implements the registry's specification, so its theorems, and the ledger, hold
there. `CalldataUselessToOthers` (`OnlyHolderRedeems`): every proof in `proofs` is bound
to the holder of its secret, and `redeemProof` takes it from nobody else.
`RegistryNeverAhead` (`RedeemedWereIssued`): whatever a file, a process's copy or a
printed root holds is a list of leaves that issue commands appended, and no longer than
the commands that were started (`TreesInv`), through every race, crash and removal; the
published root is one of the printed ones, or none (`PublishedInv`); and what the verifier
accepts under a root is a leaf of it, with its own expiry. Nothing is said of the other
direction: a redeemed credential may be gone from the file and from every later root.

**Proving** (`CredentialProofProofs`), for any number of commands. The three properties
speak of the end of a command, and hold because of what it did on the way, so the
invariant `PInv` says for each stage what has been established: the circuit input was
built from accepted arguments, a leaf and a root of one state of the file, whose leaves
issue commands appended (`InputSound`, `Genuine`; the file may have been torn, or lost
that leaf, since); from `prove` on the witness exists; from `calldata` on the keys were
found to match; before the directory is made nothing is on disk, and at the end the
input or the witness is there only if the command said so. `PrintedIsRedeemable`,
`SuccessEarned` and `NoSecretLeft` follow.

**Issuer** (`IssuerStateProofs`), for any number of processes and crashes. The invariant
`IssuerInv` has two parts. `SharedInv` holds whatever overlaps: a process's copy ends
with its own leaf, and an issuance that overlapped with none (`Undisturbed`) is, while it
runs, the only one running, and after its write has its leaf in every content and in
every copy loaded since. This gives `OnlyOverlapLoses`. `AloneInv` holds as long as
nothing has overlapped: every list that was printed is at the beginning of the file and
of the copy about to be written (`Kept`), any two of them are of one line, and a file that
does not parse is being rewritten or was left by a crash. This gives `ReceiptsHold`,
`CrashesTear` and `RootsOnOneLine`. That `NoOverlap` is never regained once lost
(`OverlapGrows`) lets the second part rest on the first. `TornForGood` needs only the
types: with nobody in the middle of a write, every command fails to load.

Two commands may have the same leaf, so a file can hold a leaf twice. What does hold,
whatever overlaps, is that the leaves of each list match one-to-one with commands that
loaded the file (`AppendedBy`, `OnceInv`; a command adds itself to a copy that cannot name
it yet). From it follow `LeavesAreOfCommands`; the bound on indices in `IssuerTypes`; and
`CrashesStrand`: a leaf without a receipt names a command that has not printed, and with
nobody running that command was killed or failed to write (`Lost`), of which there are at
most `crashes`. With a leaf in the file twice, `indexOf` finds the first, and a proof for
it is as good.

**Proving, the types** (`CommandTypes`). What is not obvious in them is that the index in
a circuit input is one of a leaf in the file: `IndexOf` chooses the first position, and
that there is a first is an induction (`IndexIsFirst`). `WitnessWithinCapacity` says what
the index means: a witness exists exactly if the leaf is within the tree's capacity. No
statement of `prove` checks that; a leaf past it is found by the failure of snarkjs.

**Tree** (`MerkleTreeProofs`), for every depth, every set of leaves and every list of them.

| Theorem | Establishes |
|---|---|
| `LayersComputeTheTree` | `[]RootIsReference`: layer k holds the nodes of the padded tree above the leaves, and the ladder's entry k is every other node of that level; past the capacity the first node still is the padded tree's |
| `LeavesProvable` | `[]EveryLeafProvable`: the hash the circuit has after k levels is the layer's node above the leaf |
| `NothingElseProvable` | `[]OnlyLeavesProvable`: what stands k levels below a root is exactly the nodes of the padded tree at that level |
| `NoForgedPath` | whatever path the prover makes up, what it folds to the root from is a leaf or the padding |
| `RootNamesLeaves` | two lists within the capacity with the same root are the same list |
| `RootStopsAtCapacity` | past the capacity the root is that of the first 2^depth leaves |
| `ProvableWithinCapacity` | a leaf has a path to the root, past the capacity too, exactly if it is one of the first 2^depth |
| `TopLayerUpToCapacity` | the top layer is single exactly within the capacity |

The other models rest on these: they write a root as the list of its leaves
(`IssuerState`, `CredentialLifecycle`: `RootNamesLeaves`), cut it at the capacity (`RootOf`
in `CredentialProof`: `RootStopsAtCapacity`), and say that a witness exists exactly for
the leaves under it (`HasWitness`: `ProvableWithinCapacity`). `TopLayerUpToCapacity` says
where the comment of section 6.2 stops being true.

**Seed script** (`DeployAndSeedProofs`). `ScriptTypes`, `RecordIsTrue` (`RecordTrue`) and
`StoryToldInOrder` (`StoryInOrder`), for any number of reads. The invariant `StoryInv`
says how much of the story is on the chain at each instruction (`Reached`), also while the
showcase is in the mempool, and that no replica knows more than the latest state
(`Grown`). The step that matters is `CheckReceipt`: a receipt seen by any replica is on
the chain, so the script can pass it only with the whole story told.

### Only model-checked

* `VerificationLapses`, `TradingEnds`, `IssuedIsRedeemed`, `ScriptEnds`: liveness under
  fairness, which is out of the prover's reach. Every invariant and every action property
  of the runs is proved.
* The four runs that find a violation (section 6): a counterexample is an example.

## 6. Where the code and its documentation differ

1. `revoke` (src/ZKComplianceRegistry.sol:146-147): "Its spent nullifier is NOT released,
   so a revoked holder cannot re-redeem the same credential to undo this." A nullifier is
   `Poseidon(secret, root)`, so after the next `setRoot` the same credential has another
   one; if the issuer has not dropped it from the tree, the revoked holder is verified
   again. The run's counterexample is redeem, set the root, revoke,
   redeem under the new root. SECURITY.md
   describes the re-verification across epochs as intended, so what is off is the comment:
   revoking is final only together with dropping the credential, or within the epoch.
2. internal/tree/tree.go:93-94 says that the top layer always has length 1. It has more
   nodes past 2^depth leaves (65,536 in production), and nothing checks the capacity;
   `Root` then returns a root that does not cover the later leaves.
3. internal/kyc/kyc.go:44 calls the state file "the persisted, append-only tree
   contents". Of two overlapping `issue` commands the later write drops the earlier one's
   leaf (issuer_race). A process killed between the truncation and the end of the write
   loses the contents altogether.
4. scripts/deploy-and-seed.sh:24-25: "Every read-after-write goes through this poll". The
   total supply that goes to the record is read once, without it (line 207), so the record
   may say that nothing was minted (seed_balances). (The balances, lines 205-206, are read
   in the same way, and only logged.) `RecordTrue`
   holds nevertheless: what the record says happened, did.

Met while modelling, and without a run of their own:

5. internal/kyc/kyc.go:132 says that parseField parses "a non-negative decimal field
   element"; it takes any integer. `OutputRedeemable` shows that nothing wrong is printed:
   leaf and circuit input reduce the number alike, or Poseidon refuses it.
6. cmd/kycctl/main.go:3-4 says that "a canceled run kills the snarkjs subprocess with it".
   main passes `context.Background()`, which nothing cancels: a signal ends the process
   without its deferred calls, the subprocess goes on, and the work directory with the
   secret stays (`Kill`, `OrphanEnds`).
7. poll_eq (scripts/deploy-and-seed.sh:29) is written to retry, but a call that fails, as
   on a replica that does not know the contract yet, ends the script there, without its
   message; wait_for_code (line 125), which is to prevent that, takes the empty output of
   a failing call for code.

## 7. Not modelled, and the plan

Done, in this order: registry and roles, circuit, token, system, tree, issuer state; then
proving, the lifecycle, the registry's abstract specification, the seed script, and the
proofs: the contracts, the ledger, the lifecycle, proving and the issuer; then the sum of
the balances, the tree, the remaining types and the seed script.

Then issuing became one module, `StateFile`, that the issuer's, the proving and the
lifecycle's modules share, so that races, crashes and lost leaves are seen from the chain
as well.

What could follow: an abstract specification of the state file, a list that only grows,
which `IssuerState` implements as long as no commands overlap; a second run of the seed
script after one that died, with the issuer's file deleted (line 70); numerals for the
issuer argument; an address with a sign after its prefix ("0x-…"), which `AddrToField`
(internal/kyc/kyc.go) would parse if its length fits, beside the ill-formed ones of
`BadAddress`.

Left out:

* the pairing arithmetic and Poseidon, assumed sound as above;
* the build scripts and the trusted setup, which have no part in the running system; that
  the two keys may be of different setups is `keysMatch`;
* of the seed script, the checks before the first transaction, the issuing of its two
  credentials to a new file, its proving (that is
  `CredentialProof`), and the verification on Basescan after the record is written, whose
  failures it ignores;
* command dispatch, paths and constants of the command-line tool, beyond the refusal of a
  wrong invocation (`UsageError`);
* gas, and token metadata;
* the tests, whose properties are restated here.
