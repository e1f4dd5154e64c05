------------------------------ MODULE StateFile ------------------------------
(***************************************************************************)
(* The tree-state file and the kycctl issue processes that rewrite it      *)
(* (internal/kyc/kyc.go).  issue loads the file, appends a leaf, computes  *)
(* the root, rewrites the whole file and prints its answer; nothing locks  *)
(* the file, and the rewrite truncates it first.                           *)
(*                                                                         *)
(* An issuance is one run of kycctl issue.  The leaf it appends is given   *)
(* by its arguments, and two runs may have the same: nothing refuses a     *)
(* secret that was used before.                                            *)
(***************************************************************************)
EXTENDS Naturals, FiniteSets, SequencesExt

CONSTANTS
    Issuance,               \* the issue commands that are ever started
    Leaf,                   \* the leaves they may append
    LeafOf,                 \* LeafOf[p]: the one issuance p appends
    NoFile,                 \* there is no state file
    Empty, Garbled,         \* its content does not parse: truncated, mixed up
    MaxRunning,             \* bound on the processes running at one time
    MaxCrashes              \* bound on those killed, or failing to write

Unparsable == {Empty, Garbled}

ASSUME IssuanceAssumption == IsFiniteSet(Issuance)
ASSUME LeafAssumption     == LeafOf \in [Issuance -> Leaf]
ASSUME CrashesAssumption  == MaxCrashes \in Nat
ASSUME FileAssumption ==
    /\ NoFile \notin Unparsable
    /\ ({NoFile} \cup Unparsable) \cap Seq(Leaf) = {}

VARIABLES
    file,           \* NoFile, Empty, Garbled, or the leaves it holds
    pc,             \* pc[p]: where issuance p is
    state,          \* state[p]: the leaves in p's memory
    crashes

fileVars == <<file, pc, state, crashes>>

Running == {p \in Issuance : pc[p] \in {"loaded", "truncated", "saved"}}

(* LoadState reads the file without an error. *)
Parsed  == file \in Seq(Leaf)

-----------------------------------------------------------------------------
FileInit ==
    /\ file = NoFile
    /\ pc = [p \in Issuance |-> "start"]
    /\ state = [p \in Issuance |-> <<>>]
    /\ crashes = 0

(* A faulty variant of LoadOrCreateState: it starts afresh on any error. *)
LoadableAlways == TRUE

(* LoadOrCreateState fails on a file that is there and does not parse; a   *)
(* missing file is an empty tree.                                          *)
Loadable == file \notin Unparsable

Loaded == IF Parsed THEN file ELSE <<>>

(* The first half of issue: load, append the leaf, compute the root.       *)
Load(p) ==
    /\ pc[p] = "start"
    /\ Cardinality(Running) < MaxRunning
    /\ Loadable
    /\ state' = [state EXCEPT ![p] = Append(Loaded, LeafOf[p])]
    /\ pc' = [pc EXCEPT ![p] = "loaded"]
    /\ UNCHANGED <<file, crashes>>

(* A file that does not parse is an error, and issues nothing. *)
LoadFails(p) ==
    /\ pc[p] = "start"
    /\ ~ Loadable
    /\ pc' = [pc EXCEPT ![p] = "failed"]
    /\ UNCHANGED <<file, state, crashes>>

(* SaveState opens the file with O_TRUNC ...                               *)
Truncate(p) ==
    /\ pc[p] = "loaded"
    /\ file' = Empty
    /\ pc' = [pc EXCEPT ![p] = "truncated"]
    /\ UNCHANGED <<state, crashes>>

(* A faulty variant of the write: it may stop short without an error.      *)
OverwrittenShort(old, new) == {new, Garbled}

(* ... and writes from its start.  If another process has written since,   *)
(* a content that is longer keeps its tail behind the new one, and then    *)
(* the file does not parse; of two with the same number of leaves either   *)
(* may be the longer, as leaves have different numbers of digits.          *)
Overwritten(old, new) ==
    IF old = Empty THEN {new}
    ELSE IF old = Garbled THEN {new, Garbled}
    ELSE IF old = new \/ Len(old) < Len(new) THEN {new}
    ELSE IF Len(old) > Len(new) THEN {Garbled}
    ELSE {new, Garbled}

Write(p) ==
    /\ pc[p] = "truncated"
    /\ file' \in Overwritten(file, state[p])
    /\ pc' = [pc EXCEPT ![p] = "saved"]
    /\ UNCHANGED <<state, crashes>>

(* A faulty variant of the end: what is printed is computed after the      *)
(* write, and may fail.                                                    *)
FinishOrFail(p) ==
    /\ pc[p] = "saved"
    /\ \E end \in {"done", "failed"} : pc' = [pc EXCEPT ![p] = end]
    /\ UNCHANGED <<file, state, crashes>>

(* The command prints its answer and exits: nothing can fail any more.     *)
Finish(p) ==
    /\ pc[p] = "saved"
    /\ pc' = [pc EXCEPT ![p] = "done"]
    /\ UNCHANGED <<file, state, crashes>>

(* A process is killed, or its write fails; it may have written a part.    *)
Crash(p) ==
    /\ p \in Running
    /\ crashes < MaxCrashes
    /\ crashes' = crashes + 1
    /\ pc' = [pc EXCEPT ![p] = "failed"]
    /\ \/ file' = file
       \/ pc[p] = "truncated" /\ file' = Garbled
    /\ UNCHANGED state

=============================================================================
