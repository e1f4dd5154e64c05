---------------------------- MODULE IssuerState ----------------------------
(***************************************************************************)
(* What the issuer and the holders are told of the state file, by kycctl   *)
(* issue and kycctl root (internal/cli/cli.go): the index and the root     *)
(* that issue prints with the secret, and the roots that either prints for *)
(* the owner to publish.  A root is written as the sequence of leaves it   *)
(* is the root of (MerkleTree).                                            *)
(***************************************************************************)
EXTENDS StateFile

VARIABLES
    receipts,       \* receipts[p]: the index and root p printed, if it did
    printed,        \* the roots printed so far, by issue and by root
    (* History, read by no action: *)
    committed,      \* the content that was last written to the end
    overlap         \* overlap[p]: the issuances that ran while p did

told == <<receipts, printed>>
vars == <<fileVars, told, committed, overlap>>

Receipt   == [index : 0 .. Cardinality(Issuance) - 1, root : Seq(Leaf)]
NoReceipt == [index |-> 0, root |-> <<>>]

TypeOK ==
    /\ file \in {NoFile} \cup Unparsable \cup Seq(Leaf)
    /\ pc \in [Issuance ->
                 {"start", "loaded", "truncated", "saved", "done", "failed"}]
    /\ state \in [Issuance -> Seq(Leaf)]
    /\ receipts \in [Issuance -> Receipt]
    /\ printed \subseteq Seq(Leaf)
    /\ crashes \in 0 .. MaxCrashes
    /\ committed \in Seq(Leaf)
    /\ overlap \in [Issuance -> SUBSET Issuance]

-----------------------------------------------------------------------------
Init ==
    /\ FileInit
    /\ receipts = [p \in Issuance |-> NoReceipt]
    /\ printed = {}
    /\ committed = <<>>
    /\ overlap = [p \in Issuance |-> {}]

Begin(p) ==
    /\ Load(p)
    /\ overlap' = [q \in Issuance |->
                      IF q = p THEN Running
                      ELSE IF q \in Running THEN overlap[q] \cup {p}
                      ELSE overlap[q]]
    /\ UNCHANGED <<told, committed>>

Save(p) ==
    /\ Write(p)
    /\ committed' = IF file' = state[p] THEN state[p] ELSE committed
    /\ UNCHANGED <<told, overlap>>

(* A faulty variant of the answer: the index of the next leaf.             *)
PrintNextIndex(p) ==
    /\ Finish(p)
    /\ receipts' = [receipts EXCEPT ![p] = [index |-> Len(state[p]),
                                            root  |-> state[p]]]
    /\ printed' = printed \cup {state[p]}
    /\ UNCHANGED <<committed, overlap>>

(* The command prints the secret, the index and the root.                  *)
PrintResult(p) ==
    /\ Finish(p)
    /\ receipts' = [receipts EXCEPT ![p] = [index |-> Len(state[p]) - 1,
                                            root  |-> state[p]]]
    /\ printed' = printed \cup {state[p]}
    /\ UNCHANGED <<committed, overlap>>

(* kycctl root fails if the file is missing or does not parse.             *)
PrintRoot ==
    /\ Parsed
    /\ printed' = printed \cup {file}
    /\ UNCHANGED <<fileVars, receipts, committed, overlap>>

(* The steps of which nobody is told.                                      *)
Unseen(p) ==
    /\ LoadFails(p) \/ Truncate(p) \/ Crash(p)
    /\ UNCHANGED <<told, committed, overlap>>

Issue(p) == Begin(p) \/ Save(p) \/ PrintResult(p) \/ Unseen(p)

Next == (\E p \in Issuance : Issue(p)) \/ PrintRoot

Spec == Init /\ [][Next]_vars

-----------------------------------------------------------------------------
Issued == {p \in Issuance : pc[p] = "done"}

(* No two issuances have run at the same time so far. *)
NoOverlap == \A p \in Issuance : overlap[p] = {}

(* With one process at a time, what a holder was told stays true through   *)
(* later issuances and through crashes of others: while the file parses,   *)
(* its leaf is at the index it was given, and the tree has only grown      *)
(* since the root it was shown.                                            *)
ReceiptsStayTrue ==
    NoOverlap /\ Parsed => \A p \in Issued :
        /\ IsPrefix(receipts[p].root, file)
        /\ receipts[p].index < Len(file)
        /\ file[receipts[p].index + 1] = LeafOf[p]

(* With one process at a time, all roots ever printed are of one tree as   *)
(* it grew: of any two, one has all leaves of the other, in their places.  *)
(* So the owner may publish them late and in any order: an older one takes *)
(* the newest credentials back for a while, but no order of publications   *)
(* pits a credential against another.                                      *)
RootsOfOneTree ==
    NoOverlap => \A r, s \in printed : IsPrefix(r, s) \/ IsPrefix(s, r)

(* With one process at a time the file is unusable between commands only   *)
(* if one was killed, or failed, in the middle of a rewrite.               *)
TornOnlyByCrash ==
    NoOverlap /\ Running = {} /\ file \in Unparsable => crashes > 0

(* With any number of processes, a credential whose secret was printed is  *)
(* missing from a file that parses only if its issuance overlapped with    *)
(* another: a crash or a race among others never drops it.                 *)
LostOnlyByOverlap ==
    Parsed => \A p \in Issued :
        LeafOf[p] \notin ToSet(file) => overlap[p] # {}

(* With any number of processes, the leaves in the file that nobody was    *)
(* told the secret of, once no command runs, are no more than the commands *)
(* that were killed or could not write: nothing that can fail comes        *)
(* between the write and the answer, and no write makes a leaf of its own. *)
Stranded == {i \in DOMAIN file : \A p \in Issued : file[i] # LeafOf[p]}

StrandedOnlyByCrash ==
    Parsed /\ Running = {} => Cardinality(Stranded) <= crashes

(* An unusable file stays so: once no process is in the middle of a        *)
(* command, no command repairs it, and every later issuance fails.  (The   *)
(* credentials in it are lost, but never silently replaced.)               *)
UnusableForever ==
    [](Running = {} /\ file \in Unparsable => [](file \in Unparsable))

(* internal/kyc/kyc.go says of the file: "State is the persisted,          *)
(* append-only tree contents."  That is: what is written to the end        *)
(* extends what was written to the end before it.                          *)
AppendOnly == [][IsPrefix(committed, committed')]_vars

=============================================================================
