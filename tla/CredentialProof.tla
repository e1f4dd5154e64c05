-------------------------- MODULE CredentialProof --------------------------
(***************************************************************************)
(* kycctl prove and kycctl verify (internal/cli/cli.go): a command builds  *)
(* the circuit input from the arguments and the state file (buildProof in  *)
(* internal/kyc/kyc.go), writes it to a work directory of its own, runs    *)
(* four snarkjs commands there (internal/prover/prover.go), prints the     *)
(* calldata and removes the directory.  Meanwhile issue commands rewrite   *)
(* the file, one after the other or at the same time (StateFile), any      *)
(* snarkjs command may fail, and any process may be killed.                *)
(*                                                                         *)
(* A root is the sequence of the leaves below it, a leaf the credential it *)
(* is the hash of; both as in KYCPassCircuit, which says what a proof is.  *)
(* Arguments are what the user typed: numerals are integers, of any sign   *)
(* and size.                                                               *)
(***************************************************************************)
EXTENDS Integers, SequencesExt, KYCPassCircuit

CONSTANTS
    Command,        \* the kycctl commands that are ever started
    Numeral,        \* the numbers typed as an expiry
    Hashable,       \* those the Poseidon library accepts as input
    BadAddress,     \* an argument that is not 40 hex digits
    BadSecret,      \* a numeral outside the field, typed as a secret
    Capacity,       \* 2^depth, the leaves one root covers
    None,
    Issuance, IssueArgs,    \* the issue commands, and what was typed for each
    NoFile, Empty, Garbled, MaxRunning, MaxCrashes  \* as in StateFile

ASSUME CapacityAssumption == Capacity \in Nat \ {0}
ASSUME NumeralAssumption  ==
    Numeral \subseteq Int /\ Hashable \subseteq Numeral
ASSUME NoneAssumption     == None # 0
ASSUME RootAssumption     ==
    /\ <<>> \in Root
    /\ \A r \in Root :
          /\ r \in Seq(Credential) /\ Leaves[r] = ToSet(r)
          /\ Len(r) < Capacity => \A c \in Credential : Append(r, c) \in Root

VARIABLES
    file, issuePc, memory, crashes,  \* of the issue commands, as in StateFile
    keysMatch,      \* the proving and the verification key are of one setup
    pc,             \* pc[p]: where command p is
    request,        \* request[p]: its arguments
    input,          \* input[p]: the circuit input and the leaf's position
    workDir,        \* workDir[p]: it exists
    files,          \* files[p]: what is in it
    child,          \* child[p]: the snarkjs command that runs for p
    stdout,         \* stdout[p]: the public signals in the calldata printed
    code,           \* code[p]: the exit code
    warned          \* commands that said on stderr that cleanup failed

local == <<request, input, workDir, files, stdout, code, warned>>
shared == <<file, issuePc, memory, crashes, keysMatch>>
vars  == <<shared, pc, child, local>>

Request == [addr   : Account \cup {BadAddress},
            secret : Secret \cup {BadSecret},
            expiry : Numeral,
            issuer : Issuer]

\* What verify is asked about: a proof that is, or is not, of the key.
Checked == [valid : BOOLEAN]

Snarkjs == {"witness", "prove", "verify", "calldata", "check"}

Produces(c) ==
    CASE c = "witness" -> {"witness.wtns"}
      [] c = "prove"   -> {"proof.json", "public.json"}
      [] OTHER         -> {}

-----------------------------------------------------------------------------
(* The arguments.  AddrToField rejects what is no address, and parseSecret *)
(* a secret that is not in the field; parseField takes any integer as the  *)
(* expiry, and then Poseidon may not.                                      *)
ValidAddr(a) == a # BadAddress

Accepted(r) ==
    /\ ValidAddr(r.addr)
    /\ r.secret # BadSecret
    /\ r.expiry \in Hashable

(* Hashing reads a number modulo the field order. *)
CredentialOf(r) ==
    [secret |-> r.secret, expiry |-> r.expiry % Field, issuer |-> r.issuer]

(* The issue commands; of those whose arguments are rejected there is      *)
(* nothing to see.                                                         *)
Issuing == INSTANCE StateFile
    WITH Leaf <- Credential, pc <- issuePc, state <- memory,
         LeafOf <- [i \in Issuance |-> CredentialOf(IssueArgs[i])]

ASSUME IssueAssumption ==
    /\ IsFiniteSet(Issuance) /\ MaxCrashes \in Nat
    /\ IssueArgs \in [Issuance -> {r \in Request : Accepted(r)}]
    /\ NoFile \notin Issuing!Unparsable
    /\ ({NoFile} \cup Issuing!Unparsable) \cap Seq(Credential) = {}

Readable == Issuing!Parsed

TypeOK ==
    /\ Readable \/ file \in {NoFile} \cup Issuing!Unparsable
    /\ issuePc \in [Issuance ->
                 {"start", "loaded", "truncated", "saved", "done", "failed"}]
    /\ memory \in [Issuance -> Seq(Credential)]
    /\ crashes \in 0 .. MaxCrashes
    /\ keysMatch \in BOOLEAN
    /\ pc \in [Command -> Snarkjs \cup {"start", "built", "writing", "report",
                                        "cleanup", "exited", "killed"}]
    /\ \A p \in Command :
          /\ request[p] \in Request \cup Checked \cup {None}
          /\ input[p] = None \/ input[p].index \in Nat \ {0}
          /\ files[p] # {} => workDir[p]
          /\ child[p] \in Snarkjs \cup {None}
          /\ pc[p] \in Snarkjs => child[p] = pc[p]
          /\ child[p] # None => pc[p] \in {child[p], "killed"}
          /\ code[p] \in {None, 0, 1, 2}
    /\ warned \subseteq Command

-----------------------------------------------------------------------------
Init ==
    /\ Issuing!FileInit
    /\ keysMatch \in BOOLEAN
    /\ pc = [p \in Command |-> "start"]
    /\ request = [p \in Command |-> None]
    /\ input = [p \in Command |-> None]
    /\ workDir = [p \in Command |-> FALSE]
    /\ files = [p \in Command |-> {}]
    /\ child = [p \in Command |-> None]
    /\ stdout = [p \in Command |-> None]
    /\ code = [p \in Command |-> None]
    /\ warned = {}

-----------------------------------------------------------------------------
(* Root of a tree: the leaves past its capacity are not under it.          *)
RootOf(leaves) ==
    IF Len(leaves) <= Capacity THEN leaves ELSE SubSeq(leaves, 1, Capacity)

(* A faulty variant of indexOf: positions counted from zero, as in Go.     *)
IndexFromZero(leaves, leaf) == SelectInSeq(leaves, LAMBDA l : l = leaf) - 1

(* The first position of the leaf, 0 if there is none. *)
IndexOf(leaves, leaf) == SelectInSeq(leaves, LAMBDA l : l = leaf)

(* The circuit input, all from one reading of the file; the path to the    *)
(* leaf is given by its position.  The witness calculator reads a numeral  *)
(* modulo the field order.                                                 *)
InputOf(r, leaves) ==
    [secret     |-> r.secret,
     issuer     |-> r.issuer,
     index      |-> IndexOf(leaves, CredentialOf(r)),
     root       |-> RootOf(leaves),
     holderAddr |-> r.addr,
     expiry     |-> r.expiry % Field]

Provable(r) == Accepted(r) /\ Readable /\ IndexOf(file, CredentialOf(r)) # 0

-----------------------------------------------------------------------------
(* Run and its commands refuse an unknown command, an unknown flag and a   *)
(* missing argument before they do anything, with an exit code of its own. *)
UsageError(p) ==
    /\ pc[p] = "start"
    /\ code' = [code EXCEPT ![p] = 2]
    /\ pc' = [pc EXCEPT ![p] = "exited"]
    /\ UNCHANGED <<shared, request, input, workDir, files, child, stdout,
                   warned>>

(* The steps of prove. *)

BuildProof(p, r) ==
    /\ pc[p] = "start"
    /\ Provable(r)
    /\ request' = [request EXCEPT ![p] = r]
    /\ input' = [input EXCEPT ![p] = InputOf(r, file)]
    /\ pc' = [pc EXCEPT ![p] = "built"]
    /\ UNCHANGED <<shared, workDir, files, child, stdout, code, warned>>

BuildProofFails(p, r) ==
    /\ pc[p] = "start"
    /\ ~ Provable(r)
    /\ request' = [request EXCEPT ![p] = r]
    /\ code' = [code EXCEPT ![p] = 1]
    /\ pc' = [pc EXCEPT ![p] = "exited"]
    /\ UNCHANGED <<shared, input, workDir, files, child, stdout,
                   warned>>

(* The cleanup is deferred only once the directory has been made. *)
MakeWorkDir(p) ==
    /\ pc[p] = "built"
    /\ \/ /\ workDir' = [workDir EXCEPT ![p] = TRUE]
          /\ pc' = [pc EXCEPT ![p] = "writing"]
          /\ UNCHANGED code
       \/ /\ code' = [code EXCEPT ![p] = 1]
          /\ pc' = [pc EXCEPT ![p] = "exited"]
          /\ UNCHANGED workDir
    /\ UNCHANGED <<shared, request, input, files, child, stdout,
                   warned>>

Launch(p, c) ==
    /\ pc' = [pc EXCEPT ![p] = c]
    /\ child' = [child EXCEPT ![p] = c]

(* A faulty variant of an error return: the deferred cleanup is not run.   *)
FailNoCleanup(p) ==
    /\ code' = [code EXCEPT ![p] = 1]
    /\ pc' = [pc EXCEPT ![p] = "exited"]
    /\ child' = [child EXCEPT ![p] = None]
    /\ UNCHANGED stdout

(* Every error return from here on runs the deferred cleanup. *)
Fail(p) ==
    /\ code' = [code EXCEPT ![p] = 1]
    /\ pc' = [pc EXCEPT ![p] = "cleanup"]
    /\ child' = [child EXCEPT ![p] = None]
    /\ UNCHANGED stdout

(* A write that fails may have written a part. *)
WriteInput(p) ==
    /\ pc[p] = "writing"
    /\ \/ /\ files' = [files EXCEPT ![p] = {"input.json"}]
          /\ Launch(p, "witness")
          /\ UNCHANGED <<stdout, code>>
       \/ /\ files' \in {files, [files EXCEPT ![p] = {"input.json"}]}
          /\ Fail(p)
    /\ UNCHANGED <<shared, request, input, workDir, warned>>

(* A snarkjs command ends with an error; it may have written a part.       *)
SnarkjsFails(p) ==
    /\ pc[p] \in {"witness", "prove", "calldata"}
    /\ files' \in {files, [files EXCEPT ![p] = @ \cup Produces(pc[p])]}
    /\ Fail(p)
    /\ UNCHANGED <<shared, request, input, workDir, warned>>

(* A faulty variant of the circuit: the path need not lead to the root.    *)
WitnessUnconstrained(i) == TRUE

(* The witness exists if the path leads to the root, that is if the leaf   *)
(* which the circuit computes is the one below the root at that position.  *)
HasWitness(i) ==
    /\ i.index \in 1 .. Len(i.root)
    /\ i.root[i.index] = [secret |-> i.secret, expiry |-> i.expiry,
                          issuer |-> i.issuer]

(* The public signals, of which the nullifier is the circuit's output. *)
SignalsOf(i) == [nullifier  |-> NullifierOf(i.secret, i.root),
                 root       |-> i.root,
                 holderAddr |-> i.holderAddr,
                 expiry     |-> i.expiry]

Witness(p) ==
    /\ pc[p] = "witness"
    /\ HasWitness(input[p])
    /\ files' = [files EXCEPT ![p] = @ \cup Produces("witness")]
    /\ Launch(p, "prove")
    /\ UNCHANGED <<shared, request, input, workDir, stdout, code,
                   warned>>

Prove(p) ==
    /\ pc[p] = "prove"
    /\ files' = [files EXCEPT ![p] = @ \cup Produces("prove")]
    /\ Launch(p, "verify")
    /\ UNCHANGED <<shared, request, input, workDir, stdout, code,
                   warned>>

(* A faulty variant of the verdict: taken from the exit status alone.      *)
VerdictByStatus(marker, failed) == ~ failed

(* Prover.Verify looks for the OK marker first, whatever the exit status.  *)
Verdict(marker, failed) == marker

(* What snarkjs groth16 verify prints and how it exits: it prints the OK   *)
(* marker only for a valid proof; of its exit status nothing is assumed,   *)
(* as it may fail, or be killed, before or after it printed.               *)
Answers(valid) == {a \in [marker : BOOLEAN, failed : BOOLEAN] :
                       a.marker => valid}

Verify(p) ==
    /\ pc[p] = "verify"
    /\ \E a \in Answers(keysMatch) :
          IF Verdict(a.marker, a.failed)
          THEN Launch(p, "calldata") /\ UNCHANGED <<stdout, code>>
          ELSE Fail(p)
    /\ UNCHANGED <<shared, request, input, workDir, files, warned>>

Calldata(p) ==
    /\ pc[p] = "calldata"
    /\ pc' = [pc EXCEPT ![p] = "report"]
    /\ child' = [child EXCEPT ![p] = None]
    /\ UNCHANGED <<shared, local>>

(* Nothing is printed before all has succeeded; a dead stream is ignored.  *)
Report(p) ==
    /\ pc[p] = "report"
    /\ stdout' \in {stdout, [stdout EXCEPT ![p] = SignalsOf(input[p])]}
    /\ code' = [code EXCEPT ![p] = 0]
    /\ pc' = [pc EXCEPT ![p] = "cleanup"]
    /\ UNCHANGED <<shared, request, input, workDir, files, child,
                   warned>>

(* The deferred removal of the directory; if it fails, the command says so *)
(* and its exit code stays.                                                *)
Cleanup(p) ==
    /\ pc[p] = "cleanup"
    /\ pc' = [pc EXCEPT ![p] = "exited"]
    /\ \/ /\ workDir' = [workDir EXCEPT ![p] = FALSE]
          /\ files' = [files EXCEPT ![p] = {}]
          /\ UNCHANGED warned
       \/ /\ warned' = warned \cup {p}
          /\ UNCHANGED <<workDir, files>>
    /\ UNCHANGED <<shared, request, input, child, stdout, code>>

-----------------------------------------------------------------------------
(* kycctl verify on a directory with a proof that is, or is not, valid.    *)
CheckProof(p, r) ==
    /\ pc[p] = "start"
    /\ request' = [request EXCEPT ![p] = r]
    /\ Launch(p, "check")
    /\ UNCHANGED <<shared, input, workDir, files, stdout, code, warned>>

CheckEnds(p) ==
    /\ pc[p] = "check"
    /\ \E a \in Answers(request[p].valid) :
          code' = [code EXCEPT
                      ![p] = IF Verdict(a.marker, a.failed) THEN 0 ELSE 1]
    /\ pc' = [pc EXCEPT ![p] = "exited"]
    /\ child' = [child EXCEPT ![p] = None]
    /\ UNCHANGED <<shared, request, input, workDir, files, stdout,
                   warned>>

-----------------------------------------------------------------------------
(* A signal ends the process: no deferred call runs.  Its context is never *)
(* canceled, so the snarkjs command it waits for goes on by itself.        *)
Kill(p) ==
    /\ pc[p] \notin {"start", "exited", "killed"}
    /\ pc' = [pc EXCEPT ![p] = "killed"]
    /\ UNCHANGED <<shared, child, local>>

OrphanEnds(p) ==
    /\ pc[p] = "killed"
    /\ child[p] # None
    /\ child' = [child EXCEPT ![p] = None]
    /\ files' \in {files, [files EXCEPT ![p] = @ \cup Produces(child[p])]}
    /\ UNCHANGED <<shared, pc, request, input, workDir, stdout, code,
                   warned>>

(* A step of an issue command: it reads nothing of what prove keeps.       *)
Issue ==
    /\ \E i \in Issuance :
          \/ Issuing!Load(i) \/ Issuing!LoadFails(i) \/ Issuing!Truncate(i)
          \/ Issuing!Write(i) \/ Issuing!Finish(i) \/ Issuing!Crash(i)
    /\ UNCHANGED <<keysMatch, pc, child, local>>

ProveSteps(p) ==
    \/ \E r \in Request : BuildProof(p, r) \/ BuildProofFails(p, r)
    \/ MakeWorkDir(p)
    \/ WriteInput(p)
    \/ SnarkjsFails(p)
    \/ Witness(p)
    \/ Prove(p)
    \/ Verify(p)
    \/ Calldata(p)
    \/ Report(p)
    \/ Cleanup(p)

Next ==
    \/ \E p \in Command :
          \/ UsageError(p)
          \/ ProveSteps(p)
          \/ \E r \in Checked : CheckProof(p, r)
          \/ CheckEnds(p)
          \/ Kill(p)
          \/ OrphanEnds(p)
    \/ Issue

Spec == Init /\ [][Next]_vars

-----------------------------------------------------------------------------
(* Whatever kycctl prints is worth submitting: the verifier contract       *)
(* accepts the calldata, which is bound to the address that was asked for  *)
(* and names a credential of the requested secret and expiry, one that an  *)
(* issue command has appended, under a root that has it.  No failure, kill *)
(* or race of issue commands in between, no numeral and no leaf past the   *)
(* tree's capacity makes it print anything else.  (The root need not be    *)
(* one that was printed, or that the file still has.)                      *)
OutputRedeemable ==
    \A p \in Command : stdout[p] # None =>
        LET s == stdout[p]  leaf == CredentialOf(request[p]) IN
        /\ VerifyProof(s)
        /\ s.holderAddr = request[p].addr
        /\ leaf \in ToSet(s.root)
        /\ \E i \in Issuance :
              issuePc[i] # "start" /\ CredentialOf(IssueArgs[i]) = leaf

(* Exit code 0 means a valid proof: of prove, that the two keys belong     *)
(* together and every command succeeded; of verify, that the proof in the  *)
(* directory is valid.  (A verdict is read from output that may come with  *)
(* any exit status.)                                                       *)
SuccessIsEarned ==
    \A p \in Command : code[p] = 0 =>
        IF request[p] \in Checked
        THEN request[p].valid
        ELSE keysMatch /\ VerifyProof(SignalsOf(input[p]))

(* The circuit input and the witness hold the secret in clear.             *)
SecretFiles == {"input.json", "witness.wtns"}

(* A command that ends by itself, at whichever step, leaves none of them   *)
(* on disk, or says that it could not remove them.                         *)
SecretsRemoved ==
    \A p \in Command :
        pc[p] = "exited" /\ files[p] \cap SecretFiles # {} => p \in warned

=============================================================================
