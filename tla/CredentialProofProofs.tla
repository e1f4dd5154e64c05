------------------------ MODULE CredentialProofProofs ------------------------
(***************************************************************************)
(* Proofs about kycctl prove and verify: for every number of commands and  *)
(* of leaves, whatever fails or is killed, and whatever is issued between  *)
(* the reading of the file and the printing of the calldata.               *)
(***************************************************************************)
EXTENDS CredentialProof, WellFoundedInduction, TLAPS

Stages == Snarkjs \cup {"start", "built", "writing", "report", "cleanup",
                        "exited", "killed"}

(* The stages in which prove has an input; those in which the circuit has  *)
(* been satisfied; those in which the proof has been verified.             *)
Building  == {"built", "writing", "witness"}
Witnessed == {"prove", "verify", "calldata", "report"}
Verified  == {"calldata", "report"}

(* Every command has its own entry in each of the maps. *)
MapsOK ==
    /\ pc \in [Command -> Stages]
    /\ DOMAIN files = Command /\ files = [p \in Command |-> files[p]]
    /\ DOMAIN request = Command /\ request = [p \in Command |-> request[p]]
    /\ DOMAIN input = Command /\ input = [p \in Command |-> input[p]]
    /\ DOMAIN stdout = Command /\ stdout = [p \in Command |-> stdout[p]]
    /\ DOMAIN code = Command /\ code = [p \in Command |-> code[p]]

(* The credential is that of an issue command that was started.            *)
Appended(c) == \E i \in Issuance :
                  issuePc[i] # "start" /\ CredentialOf(IssueArgs[i]) = c

(* What the file holds, or an issue command is about to write, is a list   *)
(* of such credentials, and what its root covers is a tree that a root     *)
(* stands for.                                                             *)
Genuine(leaves) ==
    /\ leaves \in Seq(Credential)
    /\ RootOf(leaves) \in Root
    /\ \A n \in 1 .. Len(leaves) : Appended(leaves[n])

IssuePcs == {"start", "loaded", "truncated", "saved", "done", "failed"}

FileOK ==
    /\ file \in Seq(Credential) \cup {NoFile} \cup Issuing!Unparsable
    /\ issuePc \in [Issuance -> IssuePcs]
    /\ memory \in [Issuance -> Seq(Credential)]
    /\ crashes \in 0 .. MaxCrashes
    /\ Readable => Genuine(file)
    /\ \A i \in Issuance : Genuine(memory[i])

(* The input was built for the request, from a tree that the file had.     *)
InputSound(p) ==
    /\ request[p] \in Request
    /\ input[p].secret = request[p].secret
    /\ input[p].issuer = request[p].issuer
    /\ input[p].holderAddr = request[p].addr
    /\ input[p].expiry = request[p].expiry % Field
    /\ input[p].root \in Root
    /\ \A n \in 1 .. Len(input[p].root) : Appended(input[p].root[n])

(* How far command p got, in each of its stages and after its end.         *)
Progress(p) ==
    /\ pc[p] \in {"start", "built", "check"} => files[p] = {}
    /\ pc[p] = "exited" /\ files[p] \cap SecretFiles # {} => p \in warned
    /\ pc[p] = "check" => request[p] \in Checked
    /\ pc[p] \in Building \cup Witnessed => InputSound(p)
    /\ pc[p] \in Witnessed => HasWitness(input[p])
    /\ pc[p] \in Verified => keysMatch
    /\ stdout[p] # None =>
          /\ InputSound(p) /\ HasWitness(input[p])
          /\ stdout[p] = SignalsOf(input[p])
          /\ pc[p] \in {"cleanup", "exited", "killed"}
    /\ code[p] = 0 =>
          /\ request[p] \notin Checked =>
                InputSound(p) /\ HasWitness(input[p]) /\ keysMatch
          /\ request[p] \in Checked => request[p].valid
          /\ pc[p] \in {"cleanup", "exited", "killed"}

PInv ==
    /\ MapsOK
    /\ FileOK
    /\ \A p \in Command : Progress(p)

(* A command's own state: its directory is there from when it is made to   *)
(* its removal, and for a snarkjs command that outlives it.                *)
HasDirectory == {"writing", "report", "cleanup"} \cup (Snarkjs \ {"check"})

LocalOK(p) ==
    /\ request[p] \in Request \cup Checked \cup {None}
    /\ input[p] = None \/ input[p].index \in Nat \ {0}
    /\ files[p] # {} => workDir[p]
    /\ pc[p] \in HasDirectory => workDir[p]
    /\ child[p] \notin {None, "check"} => workDir[p]
    /\ child[p] \in Snarkjs \cup {None}
    /\ pc[p] \in Snarkjs => child[p] = pc[p]
    /\ child[p] # None => pc[p] \in {child[p], "killed"}
    /\ code[p] \in {None, 0, 1, 2}

TypeInv ==
    /\ keysMatch \in BOOLEAN
    /\ warned \subseteq Command
    /\ DOMAIN workDir = Command /\ workDir = [p \in Command |-> workDir[p]]
    /\ DOMAIN child = Command /\ child = [p \in Command |-> child[p]]
    /\ \A p \in Command : LocalOK(p)

(* A step of command p alone: what it may change. *)
StepOf(p) ==
    /\ MapsOK'
    /\ UNCHANGED shared
    /\ warned \subseteq warned'
    /\ \A q \in Command \ {p} :
          /\ pc'[q] = pc[q] /\ files'[q] = files[q]
          /\ request'[q] = request[q] /\ input'[q] = input[q]
          /\ stdout'[q] = stdout[q] /\ code'[q] = code[q]

-----------------------------------------------------------------------------
(* An element of a list is one of its set.                                 *)
LEMMA ElementInSet ==
    ASSUME NEW S, NEW t \in Seq(S), NEW i \in 1 .. Len(t)
    PROVE  t[i] \in ToSet(t)
BY DEF ToSet

(* The leaves a root covers are the first leaves of the file.              *)
LEMMA RootCovers ==
    ASSUME NEW leaves \in Seq(Credential)
    PROVE  \A n \in 1 .. Len(RootOf(leaves)) :
              n \in 1 .. Len(leaves) /\ RootOf(leaves)[n] = leaves[n]
<1>1. CASE Len(leaves) <= Capacity
  BY <1>1 DEF RootOf
<1>2. CASE ~ Len(leaves) <= Capacity
  <2>1. Capacity \in Nat /\ Capacity <= Len(leaves)
    BY <1>2, CapacityAssumption
  <2>2. QED
    BY <1>2, <2>1 DEF RootOf
<1>3. QED
  BY <1>1, <1>2

(* Issuing keeps the file within what roots stand for: up to the tree's    *)
(* capacity the new leaf comes under the root, and past it the root stays. *)
LEMMA RootOfAppend ==
    ASSUME NEW leaves \in Seq(Credential), NEW c \in Credential,
           RootOf(leaves) \in Root
    PROVE  RootOf(Append(leaves, c)) \in Root
<1>1. CASE Len(leaves) < Capacity
  <2>1. RootOf(leaves) = leaves /\ Append(leaves, c) \in Root
    BY <1>1, RootAssumption, CapacityAssumption DEF RootOf
  <2>2. Len(Append(leaves, c)) <= Capacity
    BY <1>1, CapacityAssumption
  <2>3. QED
    BY <2>1, <2>2 DEF RootOf
<1>2. CASE Len(leaves) >= Capacity
  <2>1. /\ Capacity \in Nat /\ Capacity <= Len(leaves)
        /\ ~ Len(Append(leaves, c)) <= Capacity
    BY <1>2, CapacityAssumption
  <2>2. SubSeq(Append(leaves, c), 1, Capacity) = SubSeq(leaves, 1, Capacity)
    BY <2>1
  <2>3. RootOf(leaves) = SubSeq(leaves, 1, Capacity)
    BY <2>1 DEF RootOf
  <2>4. QED
    BY <2>1, <2>2, <2>3 DEF RootOf
<1>3. QED
  BY <1>1, <1>2, CapacityAssumption

(* A request to prove is not a request to check. *)
LEMMA RequestsDiffer ==
    ASSUME NEW r \in Request
    PROVE  r \notin Checked
BY DEF Request, Checked

(* An accepted request has a leaf. *)
LEMMA LeafTyping ==
    ASSUME NEW r \in Request, Accepted(r)
    PROVE  CredentialOf(r) \in Credential
<1>1. r.expiry \in Int /\ r.secret \in Secret /\ r.issuer \in Issuer
  BY NumeralAssumption DEF Request, Accepted
<1>2. r.expiry % Field \in 0 .. Field - 1
  <2> DEFINE e == r.expiry
  <2>1. e \in Int /\ Field \in Int /\ Field > 0
    BY <1>1, FieldAssumption
  <2> HIDE DEF e
  <2>2. e % Field \in 0 .. Field - 1
    BY <2>1
  <2>3. QED
    BY <2>2 DEF e
<1>3. QED
  BY <1>1, <1>2 DEF CredentialOf, Credential

(* An input with a witness gives signals that the verifier contract        *)
(* accepts.                                                                *)
LEMMA WitnessVerifies ==
    ASSUME NEW i, i.root \in Root, HasWitness(i)
    PROVE  VerifyProof(SignalsOf(i))
<1>1. /\ i.root \in Seq(Credential)
      /\ Leaves[i.root] = ToSet(i.root)
      /\ i.index \in 1 .. Len(i.root)
  BY RootAssumption DEF HasWitness
<1> DEFINE c == i.root[i.index]
<1>2. c \in Leaves[i.root] /\ c \in Credential
  BY <1>1, ElementInSet
<1>3. c.secret = i.secret /\ c.expiry = i.expiry
  BY DEF HasWitness
<1>4. i.expiry \in 0 .. Field - 1
  BY <1>2, <1>3 DEF Credential
<1>5. i.expiry % Field = i.expiry /\ i.expiry < Field
  BY <1>4, FieldAssumption
<1>6. Residue(NullifierOf(i.secret, i.root)) = NullifierOf(i.secret, i.root)
  BY DEF Residue, NullifierOf
<1>7. CheckField(SignalsOf(i))
  BY <1>5 DEF CheckField, SignalsOf, NullifierOf
<1>8. Satisfiable(SignalsOf(i))
  BY <1>2, <1>3, <1>5, <1>6 DEF Satisfiable, SignalsOf
<1>9. QED
  BY <1>7, <1>8 DEF VerifyProof

-----------------------------------------------------------------------------
(* Steps of one command.  The others are where they were. *)
LEMMA StepKeepsOthers ==
    ASSUME PInv, NEW p \in Command, StepOf(p), Progress(p)'
    PROVE  PInv'
<1>1. FileOK'
  <2>1. UNCHANGED <<file, issuePc, memory, crashes>>
    BY DEF StepOf, shared
  <2>2. QED
    BY <2>1 DEF PInv, FileOK, Genuine, Appended, Readable, Issuing!Parsed
<1>2. ASSUME NEW q \in Command, q # p
      PROVE  Progress(q)'
  <2>1. InputSound(q) => InputSound(q)'
    BY <1>2 DEF StepOf, InputSound, Appended, shared
  <2>2. QED
    BY <1>2, <2>1 DEF PInv, StepOf, Progress, shared
<1>3. QED
  BY <1>1, <1>2 DEF PInv, StepOf

(* A step that leaves the request and the input alone keeps what relates   *)
(* them to each other and to the file.                                     *)
LEMMA InputKept ==
    ASSUME NEW p \in Command, StepOf(p), InputSound(p),
           request'[p] = request[p], input'[p] = input[p]
    PROVE  InputSound(p)'
BY DEF StepOf, InputSound, Appended, shared

(* A refused command line does nothing.                                    *)
LEMMA UsageErrorKeeps ==
    ASSUME PInv, NEW p \in Command, UsageError(p)
    PROVE  PInv'
<1>1. StepOf(p)
  BY DEF UsageError, PInv, MapsOK, StepOf, Stages, Snarkjs
<1>2. Progress(p)'
  BY DEF UsageError, PInv, MapsOK, Progress, Building, Witnessed, Verified,
         shared
<1>3. QED
  BY <1>1, <1>2, StepKeepsOthers

(* A command without an input ends with nothing on disk.                   *)
LEMMA BuildProofFailsKeeps ==
    ASSUME PInv, NEW p \in Command, NEW r \in Request, BuildProofFails(p, r)
    PROVE  PInv'
<1>1. StepOf(p)
  BY DEF BuildProofFails, PInv, MapsOK, StepOf, Stages, Snarkjs
<1>2. Progress(p)'
  BY DEF BuildProofFails, PInv, MapsOK, Progress, Building, Witnessed,
         Verified, shared
<1>3. QED
  BY <1>1, <1>2, StepKeepsOthers

(* The work directory starts empty.                                        *)
LEMMA MakeWorkDirKeeps ==
    ASSUME PInv, NEW p \in Command, MakeWorkDir(p)
    PROVE  PInv'
<1>1. StepOf(p)
  BY DEF MakeWorkDir, PInv, MapsOK, StepOf, Stages, Snarkjs
<1>2. InputSound(p) => InputSound(p)'
  BY <1>1, InputKept DEF MakeWorkDir
<1>3. Progress(p)'
  BY <1>2 DEF MakeWorkDir, PInv, MapsOK, Progress, Building, Witnessed,
         Verified, shared
<1>4. QED
  BY <1>1, <1>3, StepKeepsOthers

(* From here on every error goes through the cleanup.                      *)
LEMMA WriteInputKeeps ==
    ASSUME PInv, NEW p \in Command, WriteInput(p)
    PROVE  PInv'
<1>1. StepOf(p)
  BY DEF WriteInput, Launch, Fail, PInv, MapsOK, StepOf, Stages, Snarkjs
<1>2. InputSound(p) => InputSound(p)'
  BY <1>1, InputKept DEF WriteInput
<1>3. Progress(p)'
  BY <1>2 DEF WriteInput, Launch, Fail, PInv, MapsOK, Progress, Building,
         Witnessed, Verified, shared
<1>4. QED
  BY <1>1, <1>3, StepKeepsOthers

(* A failing snarkjs command goes there too.                               *)
LEMMA SnarkjsFailsKeeps ==
    ASSUME PInv, NEW p \in Command, SnarkjsFails(p)
    PROVE  PInv'
<1>1. StepOf(p)
  BY DEF SnarkjsFails, Fail, PInv, MapsOK, StepOf, Stages, Snarkjs
<1>2. InputSound(p) => InputSound(p)'
  BY <1>1, InputKept DEF SnarkjsFails
<1>3. Progress(p)'
  BY <1>2 DEF SnarkjsFails, Fail, PInv, MapsOK, Progress, Building, Witnessed,
         Verified, shared
<1>4. QED
  BY <1>1, <1>3, StepKeepsOthers

(* The witness establishes that the circuit is satisfied ...               *)
LEMMA WitnessKeeps ==
    ASSUME PInv, NEW p \in Command, Witness(p)
    PROVE  PInv'
<1>1. StepOf(p)
  BY DEF Witness, Launch, PInv, MapsOK, StepOf, Stages, Snarkjs
<1>2. InputSound(p) => InputSound(p)'
  BY <1>1, InputKept DEF Witness
<1>3. Progress(p)'
  BY <1>2 DEF Witness, Launch, PInv, MapsOK, Progress, Building, Witnessed,
         Verified, shared
<1>4. QED
  BY <1>1, <1>3, StepKeepsOthers

(* ... which stays so while the proof is made ...                          *)
LEMMA ProveKeeps ==
    ASSUME PInv, NEW p \in Command, Prove(p)
    PROVE  PInv'
<1>1. StepOf(p)
  BY DEF Prove, Launch, PInv, MapsOK, StepOf, Stages, Snarkjs
<1>2. InputSound(p) => InputSound(p)'
  BY <1>1, InputKept DEF Prove
<1>3. Progress(p)'
  BY <1>2 DEF Prove, Launch, PInv, MapsOK, Progress, Building, Witnessed,
         Verified, shared
<1>4. QED
  BY <1>1, <1>3, StepKeepsOthers

(* ... and the verdict that the keys belong together.                      *)
LEMMA VerifyKeeps ==
    ASSUME PInv, NEW p \in Command, Verify(p)
    PROVE  PInv'
<1>1. StepOf(p)
  BY DEF Verify, Launch, Fail, PInv, MapsOK, StepOf, Stages, Snarkjs
<1>2. InputSound(p) => InputSound(p)'
  BY <1>1, InputKept DEF Verify
<1>3. Progress(p)'
  BY <1>2 DEF Verify, Launch, Fail, Answers, Verdict, PInv, MapsOK, Progress,
         Building, Witnessed, Verified, shared
<1>4. QED
  BY <1>1, <1>3, StepKeepsOthers

(* The calldata is made, not yet printed.                                  *)
LEMMA CalldataKeeps ==
    ASSUME PInv, NEW p \in Command, Calldata(p)
    PROVE  PInv'
<1>1. StepOf(p)
  BY DEF Calldata, local, PInv, MapsOK, StepOf, Stages, Snarkjs
<1>2. InputSound(p) => InputSound(p)'
  BY <1>1, InputKept DEF Calldata, local
<1>3. Progress(p)'
  BY <1>2 DEF Calldata, local, PInv, MapsOK, Progress, Building, Witnessed,
         Verified, shared
<1>4. QED
  BY <1>1, <1>3, StepKeepsOthers

(* What is printed is of the input; a request to prove is none to check.   *)
LEMMA ReportKeeps ==
    ASSUME PInv, NEW p \in Command, Report(p)
    PROVE  PInv'
<1>1. StepOf(p)
  BY DEF Report, PInv, MapsOK, StepOf, Stages, Snarkjs
<1>2. InputSound(p) => InputSound(p)'
  BY <1>1, InputKept DEF Report
<1>3. Progress(p)'
  BY <1>2, RequestsDiffer DEF Report, PInv, MapsOK, Progress, Building,
         Witnessed, Verified, shared, InputSound
<1>4. QED
  BY <1>1, <1>3, StepKeepsOthers

(* The directory is gone, or the command has warned.                       *)
LEMMA CleanupKeeps ==
    ASSUME PInv, NEW p \in Command, Cleanup(p)
    PROVE  PInv'
<1>1. StepOf(p)
  BY DEF Cleanup, PInv, MapsOK, StepOf, Stages, Snarkjs
<1>2. InputSound(p) => InputSound(p)'
  BY <1>1, InputKept DEF Cleanup
<1>3. Progress(p)'
  BY <1>2 DEF Cleanup, PInv, MapsOK, Progress, Building, Witnessed, Verified,
         shared
<1>4. QED
  BY <1>1, <1>3, StepKeepsOthers

(* verify has no directory of its own ...                                  *)
LEMMA CheckProofKeeps ==
    ASSUME PInv, NEW p \in Command, NEW r \in Checked, CheckProof(p, r)
    PROVE  PInv'
<1>1. StepOf(p)
  BY DEF CheckProof, Launch, PInv, MapsOK, StepOf, Stages, Snarkjs
<1>2. Progress(p)'
  BY DEF CheckProof, Launch, PInv, MapsOK, Progress, Building, Witnessed,
         Verified, shared
<1>3. QED
  BY <1>1, <1>2, StepKeepsOthers

(* ... and answers for the proof it was given.                             *)
LEMMA CheckEndsKeeps ==
    ASSUME PInv, NEW p \in Command, CheckEnds(p)
    PROVE  PInv'
<1>1. StepOf(p)
  BY DEF CheckEnds, PInv, MapsOK, StepOf, Stages, Snarkjs
<1>2. InputSound(p) => InputSound(p)'
  BY <1>1, InputKept DEF CheckEnds
<1>3. Progress(p)'
  BY <1>2 DEF CheckEnds, Answers, Verdict, PInv, MapsOK, Progress, Building,
         Witnessed, Verified, shared
<1>4. QED
  BY <1>1, <1>3, StepKeepsOthers

(* A killed command has not ended by itself.                               *)
LEMMA KillKeeps ==
    ASSUME PInv, NEW p \in Command, Kill(p)
    PROVE  PInv'
<1>1. StepOf(p)
  BY DEF Kill, local, PInv, MapsOK, StepOf, Stages, Snarkjs
<1>2. InputSound(p) => InputSound(p)'
  BY <1>1, InputKept DEF Kill, local
<1>3. Progress(p)'
  BY <1>2 DEF Kill, local, PInv, MapsOK, Progress, Building, Witnessed,
         Verified, shared
<1>4. QED
  BY <1>1, <1>3, StepKeepsOthers

(* Its snarkjs command changes nothing but the directory.                  *)
LEMMA OrphanEndsKeeps ==
    ASSUME PInv, NEW p \in Command, OrphanEnds(p)
    PROVE  PInv'
<1>1. StepOf(p)
  BY DEF OrphanEnds, PInv, MapsOK, StepOf, Stages, Snarkjs
<1>2. InputSound(p) => InputSound(p)'
  BY <1>1, InputKept DEF OrphanEnds
<1>3. Progress(p)'
  BY <1>2 DEF OrphanEnds, PInv, MapsOK, Progress, Building, Witnessed,
         Verified, shared
<1>4. QED
  BY <1>1, <1>3, StepKeepsOthers

(* The one step that reads the file: what it takes is what is there. *)
LEMMA BuildProofKeeps ==
    ASSUME PInv, NEW p \in Command, NEW r \in Request, BuildProof(p, r)
    PROVE  PInv'
<1>1. StepOf(p)
  BY DEF BuildProof, PInv, MapsOK, StepOf, Stages, Snarkjs
<1>2. InputSound(p)'
  <2>1. /\ request'[p] = r
        /\ input'[p] = InputOf(r, file)
        /\ UNCHANGED shared
    BY DEF BuildProof, PInv, MapsOK
  <2>2. Genuine(file)
    BY DEF BuildProof, Provable, PInv, FileOK
  <2>3. \A n \in 1 .. Len(RootOf(file)) : Appended(RootOf(file)[n])
    BY <2>2, RootCovers DEF Genuine
  <2>4. QED
    BY <2>1, <2>2, <2>3 DEF InputSound, InputOf, Genuine, Appended, shared
<1>3. Progress(p)'
  BY <1>2 DEF BuildProof, PInv, MapsOK, Progress, Building, Witnessed,
              Verified, shared
<1>4. QED
  BY <1>1, <1>3, StepKeepsOthers

-----------------------------------------------------------------------------
(* Steps of the issue commands.  A genuine list stays so, and so does one  *)
(* to which a command that starts appends the leaf of its arguments.       *)
LEMMA GenuineStays ==
    ASSUME FileOK, NEW leaves, Genuine(leaves),
           \A i \in Issuance : issuePc[i] # "start" => issuePc'[i] # "start"
    PROVE  /\ leaves \in Seq(Credential) /\ RootOf(leaves) \in Root
           /\ \A n \in 1 .. Len(leaves) : Appended(leaves[n])'
BY DEF Genuine, Appended

LEMMA GenuineAppend ==
    ASSUME FileOK, NEW leaves, Genuine(leaves), NEW i \in Issuance,
           issuePc' = [issuePc EXCEPT ![i] = "loaded"],
           NEW new, new = Append(leaves, CredentialOf(IssueArgs[i]))
    PROVE  /\ new \in Seq(Credential) /\ RootOf(new) \in Root
           /\ \A n \in 1 .. Len(new) : Appended(new[n])'
<1> DEFINE c == CredentialOf(IssueArgs[i])
<1>1. c \in Credential
  BY IssueAssumption, LeafTyping
<1>2. /\ \A j \in Issuance : issuePc[j] # "start" => issuePc'[j] # "start"
      /\ issuePc'[i] # "start"
  BY DEF FileOK
<1>3. Appended(c)'
  BY <1>2 DEF Appended
<1>4. /\ leaves \in Seq(Credential) /\ RootOf(leaves) \in Root
      /\ \A n \in 1 .. Len(leaves) : Appended(leaves[n])'
  BY <1>2, GenuineStays
<1> HIDE DEF c
<1>5. new \in Seq(Credential) /\ RootOf(new) \in Root
  BY <1>1, <1>4, RootOfAppend DEF c
<1>6. \A n \in 1 .. Len(new) :
         new[n] = c \/ (n \in 1 .. Len(leaves) /\ new[n] = leaves[n])
  BY <1>1, <1>4 DEF c
<1>7. QED
  BY <1>3, <1>4, <1>5, <1>6

(* What the step of issue command i does to the file and to its memory:    *)
(* it takes the file over and appends its leaf, or its memory stays; and   *)
(* what is written is its memory, or does not parse.                       *)
LEMMA IssueFacts ==
    ASSUME FileOK, Issue
    PROVE  /\ UNCHANGED <<keysMatch, pc, child, local>>
           /\ crashes' \in 0 .. MaxCrashes
           /\ \E i \in Issuance :
                /\ file' \in {file, memory[i]} \cup Issuing!Unparsable
                /\ \E stage \in IssuePcs \ {"start"} :
                      issuePc' = [issuePc EXCEPT ![i] = stage]
                /\ \/ memory' = memory
                   \/ /\ issuePc' = [issuePc EXCEPT ![i] = "loaded"]
                      /\ memory' = [memory EXCEPT ![i] =
                              Append(IF Readable THEN file ELSE <<>>,
                                     CredentialOf(IssueArgs[i]))]
<1>1. PICK i \in Issuance :
         \/ Issuing!Load(i) \/ Issuing!LoadFails(i) \/ Issuing!Truncate(i)
         \/ Issuing!Write(i) \/ Issuing!Finish(i) \/ Issuing!Crash(i)
  BY DEF Issue
<1>2. UNCHANGED <<keysMatch, pc, child, local>>
  BY DEF Issue
<1>3. CASE Issuing!Load(i)
  <2>1. /\ issuePc' = [issuePc EXCEPT ![i] = "loaded"]
        /\ UNCHANGED <<file, crashes>>
        /\ memory' = [memory EXCEPT ![i] =
                         Append(IF Readable THEN file ELSE <<>>,
                                CredentialOf(IssueArgs[i]))]
    BY <1>3 DEF Issuing!Load, Issuing!Loaded, Readable
  <2>2. QED
    BY <1>2, <2>1 DEF FileOK, IssuePcs
<1>4. CASE Issuing!LoadFails(i)
  BY <1>2, <1>4 DEF Issuing!LoadFails, FileOK, IssuePcs
<1>5. CASE Issuing!Truncate(i)
  BY <1>2, <1>5 DEF Issuing!Truncate, Issuing!Unparsable, FileOK, IssuePcs
<1>6. CASE Issuing!Write(i)
  <2>1. file' \in {memory[i], Garbled}
    BY <1>6 DEF Issuing!Write, Issuing!Overwritten
  <2>2. QED
    BY <1>2, <1>6, <2>1
       DEF Issuing!Write, Issuing!Unparsable, FileOK, IssuePcs
<1>7. CASE Issuing!Finish(i)
  BY <1>2, <1>7 DEF Issuing!Finish, FileOK, IssuePcs
<1>8. CASE Issuing!Crash(i)
  <2>1. crashes' \in 0 .. MaxCrashes
    BY <1>8, IssueAssumption DEF Issuing!Crash, FileOK
  <2>2. QED
    BY <1>2, <1>8, <2>1
       DEF Issuing!Crash, Issuing!Unparsable, FileOK, IssuePcs
<1>9. QED
  BY <1>1, <1>3, <1>4, <1>5, <1>6, <1>7, <1>8

(* Inputs stay lists of issued credentials, whatever becomes of the file.  *)
LEMMA IssueKeeps ==
    ASSUME PInv, Issue
    PROVE  PInv'
<1>1. FileOK
  BY DEF PInv
<1>2. /\ UNCHANGED <<keysMatch, pc, request, input, files, stdout, code,
                     warned>>
      /\ crashes' \in 0 .. MaxCrashes
  BY <1>1, IssueFacts DEF local
<1>3. PICK i \in Issuance :
         /\ file' \in {file, memory[i]} \cup Issuing!Unparsable
         /\ \E stage \in IssuePcs \ {"start"} :
               issuePc' = [issuePc EXCEPT ![i] = stage]
         /\ \/ memory' = memory
            \/ /\ issuePc' = [issuePc EXCEPT ![i] = "loaded"]
               /\ memory' = [memory EXCEPT ![i] =
                       Append(IF Readable THEN file ELSE <<>>,
                              CredentialOf(IssueArgs[i]))]
  BY <1>1, IssueFacts
<1>4. \A j \in Issuance : issuePc[j] # "start" => issuePc'[j] # "start"
  BY <1>1, <1>3 DEF FileOK
<1>5. issuePc' \in [Issuance -> IssuePcs]
  BY <1>1, <1>3 DEF FileOK
<1>6. ASSUME NEW leaves, Genuine(leaves)
      PROVE  /\ leaves \in Seq(Credential) /\ RootOf(leaves) \in Root
             /\ \A n \in 1 .. Len(leaves) : Appended(leaves[n])'
  BY <1>1, <1>4, <1>6, GenuineStays
<1>7. ASSUME NEW j \in Issuance
      PROVE  Genuine(memory[j])'
  <2>1. CASE memory'[j] = memory[j]
    BY <1>1, <1>6, <2>1 DEF FileOK, Genuine
  <2>2. CASE memory'[j] # memory[j]
    <3> DEFINE old == IF Readable THEN file ELSE <<>>
    <3>1. /\ j = i /\ issuePc' = [issuePc EXCEPT ![i] = "loaded"]
          /\ memory'[j] = Append(old, CredentialOf(IssueArgs[i]))
      BY <1>1, <1>3, <2>2 DEF FileOK
    <3>2. Genuine(old)
      <4>1. Genuine(<<>>)
        BY RootAssumption, CapacityAssumption DEF Genuine, RootOf
      <4>2. QED
        BY <1>1, <4>1 DEF FileOK
    <3> HIDE DEF old
    <3>3. QED
      BY <1>1, <3>1, <3>2, GenuineAppend DEF Genuine
  <2>3. QED
    BY <2>1, <2>2
<1>8. memory' \in [Issuance -> Seq(Credential)]
  <2>1. \A j \in Issuance : memory'[j] \in Seq(Credential)
    BY <1>7 DEF Genuine
  <2>2. DOMAIN memory' = Issuance
        /\ memory' = [j \in Issuance |-> memory'[j]]
    BY <1>1, <1>3 DEF FileOK
  <2>3. QED
    BY <2>1, <2>2
<1>9. Readable' => Genuine(file)'
  <2>1. SUFFICES ASSUME Readable' PROVE Genuine(file)'
    OBVIOUS
  <2>2. \/ file' = file /\ Readable
        \/ file' = memory[i]
    BY <1>3, <2>1, IssueAssumption DEF Readable, Issuing!Parsed
  <2>3. Genuine(file')
    BY <1>1, <2>2 DEF FileOK
  <2>4. QED
    BY <1>6, <2>3 DEF Genuine
<1>10. file' \in Seq(Credential) \cup {NoFile} \cup Issuing!Unparsable
  BY <1>1, <1>3 DEF FileOK, Issuing!Unparsable
<1>11. FileOK'
  BY <1>2, <1>5, <1>7, <1>8, <1>9, <1>10 DEF FileOK, Issuing!Unparsable
<1>12. ASSUME NEW p \in Command, InputSound(p)
       PROVE  InputSound(p)'
  <2>1. \A c : Appended(c) => Appended(c)'
    BY <1>4 DEF Appended
  <2>2. QED
    BY <1>2, <1>12, <2>1 DEF InputSound, Appended
<1>13. ASSUME NEW p \in Command
       PROVE  Progress(p)'
  BY <1>2, <1>12 DEF PInv, Progress
<1>14. MapsOK'
  BY <1>2 DEF PInv, MapsOK
<1>15. QED
  BY <1>11, <1>13, <1>14 DEF PInv

-----------------------------------------------------------------------------
(* Initially no command has been started, and there is no file. *)
LEMMA InitEstablishes ==
    ASSUME Init
    PROVE  PInv
<1>1. MapsOK
  BY DEF Init, MapsOK, Stages, Snarkjs
<1>2. FileOK
  <2>1. Genuine(<<>>)
    BY RootAssumption, CapacityAssumption DEF Genuine, RootOf
  <2>2. /\ file = NoFile /\ memory = [i \in Issuance |-> <<>>]
        /\ issuePc = [i \in Issuance |-> "start"] /\ crashes = 0
    BY DEF Init, Issuing!FileInit
  <2>3. QED
    BY <2>1, <2>2, IssueAssumption
       DEF FileOK, IssuePcs, Readable, Issuing!Parsed
<1>3. ASSUME NEW p \in Command
      PROVE  Progress(p)
  BY NoneAssumption DEF Init, Progress, Building, Witnessed, Verified
<1>4. QED
  BY <1>1, <1>2, <1>3 DEF PInv

(* Every step keeps the invariant: one case per action. *)
LEMMA NextKeeps ==
    ASSUME PInv, [Next]_vars
    PROVE  PInv'
<1>1. ASSUME NEW p \in Command, ProveSteps(p)
      PROVE  PInv'
  <2>1. ASSUME NEW r \in Request, BuildProof(p, r) \/ BuildProofFails(p, r)
        PROVE  PInv'
    BY <2>1, BuildProofKeeps, BuildProofFailsKeeps
  <2>2. QED
    BY <1>1, <2>1, MakeWorkDirKeeps, WriteInputKeeps, SnarkjsFailsKeeps,
       WitnessKeeps, ProveKeeps, VerifyKeeps, CalldataKeeps, ReportKeeps,
       CleanupKeeps
       DEF ProveSteps
<1>2. ASSUME NEW p \in Command, NEW r \in Checked, CheckProof(p, r)
      PROVE  PInv'
  BY <1>2, CheckProofKeeps
<1>3. ASSUME NEW p \in Command,
             UsageError(p) \/ CheckEnds(p) \/ Kill(p) \/ OrphanEnds(p)
      PROVE  PInv'
  BY <1>3, UsageErrorKeeps, CheckEndsKeeps, KillKeeps, OrphanEndsKeeps
<1>4. CASE Issue
  BY <1>4, IssueKeeps
<1>5. CASE UNCHANGED vars
  <2>1. UNCHANGED <<file, issuePc, memory, crashes, keysMatch, pc, request,
                    input, files, stdout, code, warned>>
    BY <1>5 DEF vars, shared, local
  <2>2. MapsOK' /\ FileOK'
    BY <2>1 DEF PInv, MapsOK, FileOK, Genuine, Appended, Readable,
                Issuing!Parsed
  <2>3. ASSUME NEW p \in Command
        PROVE  Progress(p)'
    BY <2>1 DEF PInv, Progress, InputSound, Appended
  <2>4. QED
    BY <2>2, <2>3 DEF PInv
<1>6. QED
  BY <1>1, <1>2, <1>3, <1>4, <1>5 DEF Next

(* What a command has built, done and left behind at each of its stages.   *)
LEMMA ProgressInvariant == Spec => []PInv
BY InitEstablishes, NextKeeps, PTL DEF Spec

(* The secret never stays on disk in silence (cmdProve's deferred          *)
(* cleanup), whichever of its steps a command ends at.                     *)
THEOREM NoSecretLeft == Spec => []SecretsRemoved
<1>1. PInv => SecretsRemoved
  BY DEF PInv, Progress, SecretsRemoved
<1>2. QED
  BY <1>1, ProgressInvariant, PTL

(* Exit code 0 of prove and of verify (cmdProve, cmdVerify and             *)
(* Prover.Verify) is only ever that of a valid proof.                      *)
THEOREM SuccessEarned == Spec => []SuccessIsEarned
<1>1. ASSUME PInv, NEW p \in Command, code[p] = 0, request[p] \notin Checked
      PROVE  keysMatch /\ VerifyProof(SignalsOf(input[p]))
  <2>1. InputSound(p) /\ HasWitness(input[p]) /\ keysMatch
    BY <1>1 DEF PInv, Progress
  <2>2. QED
    BY <2>1, WitnessVerifies DEF InputSound
<1>2. ASSUME PInv, NEW p \in Command, code[p] = 0, request[p] \in Checked
      PROVE  request[p].valid
  BY <1>2 DEF PInv, Progress
<1>3. PInv => SuccessIsEarned
  BY <1>1, <1>2 DEF SuccessIsEarned
<1>4. QED
  BY <1>3, ProgressInvariant, PTL

(* Whatever prove prints (cmdProve, BuildProof), the verifier contract     *)
(* accepts, for the address and the credential that were asked for, which  *)
(* an issue command has appended.  (Every content of the file, and every   *)
(* one about to be written, is a list of such leaves: issue appends its    *)
(* own, and writes that mix do not parse.)                                 *)
THEOREM PrintedIsRedeemable == Spec => []OutputRedeemable
<1>1. ASSUME PInv, NEW p \in Command, stdout[p] # None
      PROVE  /\ VerifyProof(stdout[p])
             /\ stdout[p].holderAddr = request[p].addr
             /\ CredentialOf(request[p]) \in ToSet(stdout[p].root)
             /\ Appended(CredentialOf(request[p]))
  <2> DEFINE i == input[p]
  <2>1. InputSound(p) /\ HasWitness(i) /\ stdout[p] = SignalsOf(i)
    BY <1>1 DEF PInv, Progress
  <2>2. VerifyProof(stdout[p])
    BY <2>1, WitnessVerifies DEF InputSound
  <2>3. stdout[p].root = i.root /\ stdout[p].holderAddr = i.holderAddr
    BY <2>1 DEF SignalsOf
  <2>4. i.root \in Seq(Credential) /\ i.index \in 1 .. Len(i.root)
    BY <2>1, RootAssumption DEF InputSound, HasWitness
  <2>5. i.root[i.index] \in ToSet(i.root)
    BY <2>4, ElementInSet
  <2>6. i.root[i.index] = CredentialOf(request[p])
    BY <2>1 DEF InputSound, HasWitness, CredentialOf
  <2>7. Appended(i.root[i.index])
    BY <2>1, <2>4 DEF InputSound
  <2>8. QED
    BY <2>1, <2>2, <2>3, <2>5, <2>6, <2>7 DEF InputSound
<1>2. PInv => OutputRedeemable
  BY <1>1 DEF OutputRedeemable, Appended
<1>3. QED
  BY <1>2, ProgressInvariant, PTL

-----------------------------------------------------------------------------
(* Types, and where in the file a leaf is found. *)

(* indexOf finds the first position of the leaf, if there is one.          *)
LEMMA IndexIsFirst ==
    ASSUME NEW leaves \in Seq(Credential), NEW leaf
    PROVE  /\ IndexOf(leaves, leaf) = 0 =>
                 \A i \in 1 .. Len(leaves) : leaves[i] # leaf
           /\ IndexOf(leaves, leaf) # 0 =>
                 /\ IndexOf(leaves, leaf) \in 1 .. Len(leaves)
                 /\ leaves[IndexOf(leaves, leaf)] = leaf
                 /\ \A i \in 1 .. Len(leaves) :
                       leaves[i] = leaf => IndexOf(leaves, leaf) <= i
<1>. DEFINE Found == {i \in 1 .. Len(leaves) : leaves[i] = leaf}
<1>1. IndexOf(leaves, leaf) = IF Found # {} THEN Min(Found) ELSE 0
  BY DEF IndexOf, SelectInSeq
<1>2. ASSUME Found # {}
      PROVE  Min(Found) \in Found /\ \A i \in Found : Min(Found) <= i
  <2>1. Found \subseteq Nat
    OBVIOUS
  <2>. HIDE DEF Found
  <2>2. PICK first \in Found :
            \A i \in Found : <<i, first>> \notin OpToRel(<, Nat)
    BY <1>2, <2>1, NatLessThanWellFounded, WFMin
  <2>3. \A i \in Found : i \in Nat /\ first \in Nat /\ ~ (i < first)
    BY <2>1, <2>2 DEF OpToRel
  <2>4. \A i \in Found : first <= i
    BY <2>3
  <2>5. QED
    BY <2>4 DEF Min
<1>3. QED
  BY <1>1, <1>2

(* The steps of one command, on the state of its own: reading the file ... *)
LEMMA BuildTypes ==
    ASSUME PInv, TypeInv, NEW p \in Command, NEW r \in Request,
           BuildProof(p, r) \/ BuildProofFails(p, r)
    PROVE  LocalOK(p)'
<1>1. /\ LocalOK(p) /\ pc[p] = "start"
      /\ request'[p] = r
      /\ UNCHANGED <<file, child, files, workDir>>
  BY DEF TypeInv, PInv, MapsOK, BuildProof, BuildProofFails, shared
<1>2. child[p] = None
  BY <1>1 DEF LocalOK, Snarkjs
<1>3. CASE BuildProof(p, r)
  <2>1. /\ pc'[p] = "built" /\ code'[p] = code[p]
        /\ input'[p] = InputOf(r, file)
        /\ file \in Seq(Credential) /\ IndexOf(file, CredentialOf(r)) # 0
    BY <1>3 DEF BuildProof, Provable, Readable, Issuing!Parsed, PInv, MapsOK
  <2>2. IndexOf(file, CredentialOf(r)) \in Nat \ {0}
    BY <2>1, IndexIsFirst
  <2>3. input'[p].index \in Nat \ {0}
    BY <2>1, <2>2 DEF InputOf
  <2>4. QED
    BY <1>1, <1>2, <2>1, <2>3 DEF LocalOK, HasDirectory, Snarkjs
<1>4. CASE BuildProofFails(p, r)
  <2>1. pc'[p] = "exited" /\ code'[p] = 1 /\ input'[p] = input[p]
    BY <1>4 DEF BuildProofFails, PInv, MapsOK
  <2>2. QED
    BY <1>1, <1>2, <2>1 DEF LocalOK, HasDirectory, Snarkjs
<1>5. QED
  BY <1>3, <1>4

(* ... making the directory, running snarkjs and printing ...              *)
LEMMA ProveTypes ==
    ASSUME PInv, TypeInv, NEW p \in Command,
           \/ MakeWorkDir(p) \/ WriteInput(p) \/ SnarkjsFails(p)
           \/ Witness(p) \/ Prove(p) \/ Verify(p) \/ Calldata(p)
           \/ Report(p) \/ Cleanup(p)
    PROVE  LocalOK(p)'
<1>1. CASE MakeWorkDir(p)
  BY <1>1 DEF MakeWorkDir, TypeInv, LocalOK, HasDirectory, PInv,
              MapsOK, Stages, Snarkjs
<1>2. CASE WriteInput(p)
  BY <1>2 DEF WriteInput, Launch, Fail, TypeInv, LocalOK, HasDirectory, PInv,
              MapsOK, Stages, Snarkjs
<1>3. CASE SnarkjsFails(p)
  BY <1>3 DEF SnarkjsFails, Fail, TypeInv, LocalOK, HasDirectory, PInv,
              MapsOK, Stages, Snarkjs
<1>4. CASE Witness(p)
  BY <1>4 DEF Witness, Launch, TypeInv, LocalOK, HasDirectory, PInv,
              MapsOK, Stages, Snarkjs
<1>5. CASE Prove(p)
  BY <1>5 DEF Prove, Launch, TypeInv, LocalOK, HasDirectory, PInv,
              MapsOK, Stages, Snarkjs
<1>6. CASE Verify(p)
  BY <1>6 DEF Verify, Launch, Fail, TypeInv, LocalOK, HasDirectory, PInv,
              MapsOK, Stages, Snarkjs
<1>7. CASE Calldata(p)
  BY <1>7 DEF Calldata, local, TypeInv, LocalOK, HasDirectory, PInv,
              MapsOK, Stages, Snarkjs
<1>8. CASE Report(p)
  BY <1>8 DEF Report, TypeInv, LocalOK, HasDirectory, PInv,
              MapsOK, Stages, Snarkjs
<1>9. CASE Cleanup(p)
  <2>1. /\ LocalOK(p) /\ pc[p] = "cleanup" /\ pc'[p] = "exited"
        /\ UNCHANGED <<child, request, input, code>>
        /\ \/ files'[p] = {}
           \/ files'[p] = files[p] /\ workDir'[p] = workDir[p]
        /\ child'[p] = None
    BY <1>9 DEF Cleanup, TypeInv, LocalOK, PInv, MapsOK, Snarkjs
  <2>2. QED
    BY <2>1 DEF LocalOK, HasDirectory, Snarkjs
<1>10. QED
  BY <1>1, <1>2, <1>3, <1>4, <1>5, <1>6, <1>7, <1>8, <1>9

(* ... the steps of verify, and the ends by an error or a signal.          *)
LEMMA OtherTypes ==
    ASSUME PInv, TypeInv, NEW p \in Command,
           \/ UsageError(p) \/ (\E r \in Checked : CheckProof(p, r))
           \/ CheckEnds(p) \/ Kill(p) \/ OrphanEnds(p)
    PROVE  LocalOK(p)'
<1>1. CASE UsageError(p)
  BY <1>1 DEF UsageError, TypeInv, LocalOK, HasDirectory, PInv,
              MapsOK, Stages, Snarkjs
<1>2. CASE \E r \in Checked : CheckProof(p, r)
  BY <1>2 DEF CheckProof, Launch, TypeInv, LocalOK, HasDirectory, PInv,
              MapsOK, Stages, Snarkjs
<1>3. CASE CheckEnds(p)
  <2>1. /\ LocalOK(p) /\ pc[p] = "check" /\ pc'[p] = "exited"
        /\ child'[p] = None /\ code'[p] \in {0, 1}
        /\ UNCHANGED <<request, input, files, workDir>>
    BY <1>3 DEF CheckEnds, TypeInv, PInv, MapsOK
  <2>2. QED
    BY <2>1 DEF LocalOK, HasDirectory, Snarkjs
<1>4. CASE Kill(p)
  BY <1>4 DEF Kill, local, TypeInv, LocalOK, HasDirectory, PInv,
              MapsOK, Stages, Snarkjs
<1>5. CASE OrphanEnds(p)
  <2>1. /\ LocalOK(p) /\ pc[p] = "killed" /\ pc'[p] = "killed"
        /\ child'[p] = None /\ child[p] \in Snarkjs /\ child[p] # None
        /\ files'[p] \in {files[p], files[p] \cup Produces(child[p])}
        /\ UNCHANGED <<request, input, workDir, code>>
    BY <1>5 DEF OrphanEnds, TypeInv, LocalOK, PInv, MapsOK
  <2>2. files'[p] # {} => workDir'[p]
    BY <2>1 DEF LocalOK, Produces
  <2>3. QED
    BY <2>1, <2>2 DEF LocalOK, HasDirectory, Snarkjs
<1>6. QED
  BY <1>1, <1>2, <1>3, <1>4, <1>5

(* A step of one command leaves the others' state and the file alone.      *)
LEMMA StepTypes ==
    ASSUME PInv, TypeInv, NEW p \in Command,
           \/ UsageError(p) \/ ProveSteps(p)
           \/ \E r \in Checked : CheckProof(p, r)
           \/ CheckEnds(p) \/ Kill(p) \/ OrphanEnds(p)
    PROVE  TypeInv'
<1>1. LocalOK(p)'
  BY BuildTypes, ProveTypes, OtherTypes DEF ProveSteps
<1>. USE DEF UsageError, MakeWorkDir, WriteInput, SnarkjsFails, Witness, Prove,
             Verify, Calldata, Report, Cleanup, CheckProof, CheckEnds, Kill,
             OrphanEnds, BuildProof, BuildProofFails, Launch, Fail, ProveSteps,
             shared, local
<1>2. UNCHANGED keysMatch /\ warned' \subseteq Command
  BY DEF TypeInv
<1>3. ASSUME NEW q \in Command \ {p}
      PROVE  LocalOK(q)'
  <2>1. /\ request'[q] = request[q] /\ input'[q] = input[q]
        /\ files'[q] = files[q] /\ workDir'[q] = workDir[q]
        /\ child'[q] = child[q] /\ pc'[q] = pc[q] /\ code'[q] = code[q]
    BY DEF TypeInv, PInv, MapsOK
  <2>2. QED
    BY <2>1 DEF TypeInv, LocalOK
<1>4. /\ DOMAIN workDir' = Command
      /\ workDir' = [q \in Command |-> workDir'[q]]
      /\ DOMAIN child' = Command
      /\ child' = [q \in Command |-> child'[q]]
  BY DEF TypeInv
<1>5. QED
  BY <1>1, <1>2, <1>3, <1>4 DEF TypeInv

(* The issue commands touch nothing of a command's.                        *)
LEMMA IssueTypes ==
    ASSUME TypeInv, Issue
    PROVE  TypeInv'
<1>1. UNCHANGED <<keysMatch, pc, child, request, input, workDir, files, code,
                  warned>>
  BY DEF Issue, local
<1>2. QED
  BY <1>1 DEF TypeInv, LocalOK

(* The types hold of every behaviour of the commands.                      *)
LEMMA TypeInvariant == Spec => [](PInv /\ TypeInv)
<1>1. Init => TypeInv
  BY DEF Init, TypeInv, LocalOK, HasDirectory, Snarkjs
<1>2. PInv /\ TypeInv /\ [Next]_vars => TypeInv'
  <2>1. ASSUME TypeInv, UNCHANGED vars
        PROVE  TypeInv'
    <3>1. UNCHANGED <<keysMatch, pc, child, request, input, workDir, files,
                      code, warned>>
      BY <2>1 DEF vars, shared, local
    <3>2. QED
      BY <2>1, <3>1 DEF TypeInv, LocalOK
  <2>2. QED
    BY <2>1, StepTypes, IssueTypes DEF Next
<1>3. QED
  BY <1>1, <1>2, ProgressInvariant, PTL DEF Spec

(* The types hold, and with them: an input's position is one in the file   *)
(* (indexOf), a directory exists whenever something is in it, and a        *)
(* snarkjs command runs only for the command that waits for it, or for one *)
(* that was killed.                                                        *)
THEOREM CommandTypes == Spec => []TypeOK
<1>1. ASSUME PInv, TypeInv PROVE TypeOK
  <2>1. /\ Readable \/ file \in {NoFile} \cup Issuing!Unparsable
        /\ issuePc \in [Issuance -> IssuePcs]
        /\ memory \in [Issuance -> Seq(Credential)]
        /\ crashes \in 0 .. MaxCrashes
        /\ pc \in [Command -> Stages]
    BY <1>1 DEF PInv, MapsOK, FileOK, Readable, Issuing!Parsed
  <2>2. QED
    BY <1>1, <2>1 DEF TypeInv, LocalOK, TypeOK, Stages, IssuePcs
<1>2. PInv /\ TypeInv => TypeOK
  BY <1>1
<1>3. QED
  BY <1>2, TypeInvariant, PTL

(* kycctl prove finds a witness exactly for the leaves under the root: for *)
(* an accepted request whose leaf is in the file, if the first position of *)
(* that leaf is within the capacity.  For a leaf past it buildProof still  *)
(* succeeds, and snarkjs fails.                                            *)
THEOREM WitnessWithinCapacity ==
    ASSUME NEW leaves \in Seq(Credential), NEW r \in Request,
           IndexOf(leaves, CredentialOf(r)) # 0
    PROVE  HasWitness(InputOf(r, leaves))
               <=> IndexOf(leaves, CredentialOf(r)) <= Capacity
<1>. DEFINE index == IndexOf(leaves, CredentialOf(r))
<1>1. index \in 1 .. Len(leaves) /\ leaves[index] = CredentialOf(r)
  BY IndexIsFirst
<1>2. HasWitness(InputOf(r, leaves)) <=>
         /\ index \in 1 .. Len(RootOf(leaves))
         /\ RootOf(leaves)[index] = CredentialOf(r)
  BY DEF HasWitness, InputOf, CredentialOf
<1>. HIDE DEF index
<1>3. CASE Len(leaves) <= Capacity
  BY <1>1, <1>2, <1>3, CapacityAssumption DEF RootOf, index
<1>4. CASE ~ Len(leaves) <= Capacity
  <2>1. /\ Capacity \in Nat /\ Capacity <= Len(leaves)
        /\ RootOf(leaves) = SubSeq(leaves, 1, Capacity)
    BY <1>4, CapacityAssumption DEF RootOf
  <2>2. /\ Len(RootOf(leaves)) = Capacity
        /\ \A i \in 1 .. Capacity : RootOf(leaves)[i] = leaves[i]
    BY <2>1
  <2>3. QED
    BY <1>1, <1>2, <2>1, <2>2 DEF index
<1>5. QED
  BY <1>3, <1>4

=============================================================================
