---------------------------- MODULE DeployAndSeed ----------------------------
(***************************************************************************)
(* The script that deploys the contracts, tells a story on them and        *)
(* records it (scripts/deploy-and-seed.sh).  The script writes to the      *)
(* chain and reads it through a load-balanced RPC: a read may be answered  *)
(* by a replica that has not seen the latest blocks, and any call may      *)
(* fail.  It runs under set -euo pipefail.                                 *)
(*                                                                         *)
(* A state of the chain is the set of the script's transactions in it; the *)
(* contracts are new, so nobody else sends them any meanwhile.  Amounts    *)
(* are in thousands of tokens.                                             *)
(***************************************************************************)
EXTENDS Integers, SequencesExt

CONSTANT MaxTries       \* how often a poll reads: 40, or 30 for the receipt

ASSUME TriesAssumption == MaxTries \in Nat \ {0}

Story    == <<"verifier", "registry", "token", "redeemDeployer", "redeemA",
              "mint", "transfer", "showcase">>
Tx       == ToSet(Story)

(* The script, with set-up and output left out. *)
Script == <<[op |-> "deploy"],
            [op |-> "code", of |-> "verifier"],
            [op |-> "code", of |-> "registry"],
            [op |-> "code", of |-> "token"],
            [op |-> "poll", of |-> "root"],
            [op |-> "send", of |-> "redeemDeployer"],
            [op |-> "send", of |-> "redeemA"],
            [op |-> "poll", of |-> "deployerVerified"],
            [op |-> "poll", of |-> "investorVerified"],
            [op |-> "send", of |-> "mint"],
            [op |-> "poll", of |-> "mintBalance"],
            [op |-> "send", of |-> "transfer"],
            [op |-> "poll", of |-> "deployerReceived"],
            [op |-> "broadcast"],
            [op |-> "awaitReceipt"],
            [op |-> "checkReceipt"],
            [op |-> "readSupply"],
            [op |-> "writeRecord"],
            [op |-> "end"]>>

VARIABLES
    chain,          \* the states of the chain, the latest last
    mempool,        \* transactions broadcast and not yet mined
    pc,             \* the instruction the script is at
    tries,          \* the reads made by the poll it is in
    outcome,        \* "running", "died" or "done"
    supply,         \* the shell's SUPPLY
    record          \* the total supply in the deployment record, if written

vars == <<chain, mempool, pc, tries, outcome, supply, record>>

NoRecord == 0 - 1

TypeOK ==
    /\ chain \in Seq(SUBSET Tx) /\ chain # <<>>
    /\ mempool \subseteq {"showcase"}
    /\ pc \in 1 .. Len(Script)
    /\ tries \in 0 .. MaxTries
    /\ outcome \in {"running", "died", "done"}
    /\ supply \in Nat /\ record \in Nat \cup {NoRecord}

-----------------------------------------------------------------------------
(* The chain. *)

Latest  == Last(chain)
Answers == ToSet(chain)     \* the states that replicas may answer from

(* What a transaction reverts without.  Investor B redeems nothing. *)
Needs == [verifier       |-> {},
          registry       |-> {},
          token          |-> {},
          redeemDeployer |-> {"verifier", "registry"},
          redeemA        |-> {"verifier", "registry"},
          mint           |-> {"registry", "token", "redeemA"},
          transfer       |-> {"token", "mint", "redeemDeployer", "redeemA"},
          showcase       |-> {"token", "mint", "redeemA", "redeemB"}]

Succeeds(tx, s) == Needs[tx] \subseteq s

Supply(s)          == IF "mint" \in s THEN 5 ELSE 0
DeployerBalance(s) == IF "transfer" \in s THEN 1 ELSE 0
InvestorBalance(s) == Supply(s) - DeployerBalance(s)

(* The contract that a poll's cast call asks, and whether the answer is    *)
(* the expected one.                                                       *)
Asked(what) ==
    IF what \in {"mintBalance", "deployerReceived"} THEN "token" ELSE "registry"

Expected(what, s) ==
    CASE what = "root"             -> TRUE
      [] what = "deployerVerified" -> "redeemDeployer" \in s
      [] what = "investorVerified" -> "redeemA" \in s
      [] what = "mintBalance"      -> InvestorBalance(s) = 5
      [] what = "deployerReceived" -> DeployerBalance(s) = 1

(* A transaction that was broadcast without waiting is mined, or dropped.  *)
(* Its receipt is there even if it reverts.                                *)
Mine ==
    /\ mempool # {}
    /\ mempool' = {}
    /\ chain' \in {chain, Append(chain, Latest \cup mempool)}
    /\ UNCHANGED <<pc, tries, outcome, supply, record>>

-----------------------------------------------------------------------------
(* The script. *)

Init ==
    /\ chain \in {<<{}>>, <<{"verifier"}>>}     \* KYC_VERIFIER_ADDR unset, set
    /\ mempool = {}
    /\ pc = 1
    /\ tries = 0
    /\ outcome = "running"
    /\ supply = 0
    /\ record = NoRecord

At(op) == outcome = "running" /\ Script[pc].op = op

Proceed ==
    /\ pc' = pc + 1
    /\ tries' = 0
    /\ outcome' = IF Script[pc + 1].op = "end" THEN "done" ELSE "running"

Die == outcome' = "died" /\ UNCHANGED <<pc, tries>>

(* forge script sends the transactions one after another and waits for     *)
(* their receipts; it may fail after any number of them.  There are two    *)
(* scripts: on an existing verifier, the registry and the token only.      *)
Deploy ==
    LET missing  == IF "verifier" \in Latest
                    THEN <<"registry", "token">>
                    ELSE <<"verifier", "registry", "token">>
        after(k) == [i \in 1 .. k |-> Latest \cup ToSet(SubSeq(missing, 1, i))]
    IN  /\ At("deploy")
        /\ \/ chain' = chain \o after(Len(missing)) /\ Proceed
           \/ \E k \in 0 .. Len(missing) : chain' = chain \o after(k) /\ Die
        /\ UNCHANGED <<mempool, supply, record>>

(* A faulty variant of a retry: one read too many. *)
RetryOnceMore ==
    \/ tries + 1 <= MaxTries /\ tries' = tries + 1 /\ UNCHANGED <<pc, outcome>>
    \/ tries = MaxTries /\ tries' = MaxTries + 1 /\ outcome' = "died"
                        /\ UNCHANGED pc

(* A read that was not what was waited for. *)
Retry ==
    \/ tries + 1 < MaxTries /\ tries' = tries + 1 /\ UNCHANGED <<pc, outcome>>
    \/ tries + 1 = MaxTries /\ tries' = MaxTries /\ outcome' = "died"
                            /\ UNCHANGED pc

(* wait_for_code returns when cast code prints anything but "0x": also     *)
(* when it fails and prints nothing.                                       *)
WaitForCode ==
    LET c == Script[pc].of IN
    /\ At("code")
    /\ \/ Proceed        \* after code, or nothing
       \/ (\E s \in Answers : c \notin s) /\ Retry
    /\ UNCHANGED <<chain, mempool, supply, record>>

(* A faulty variant of poll_eq: the count of its reads starts anew. *)
PollEqForever ==
    LET what == Script[pc].of IN
    /\ At("poll")
    /\ \/ /\ \E s \in Answers : Asked(what) \in s /\ Expected(what, s)
          /\ Proceed
       \/ /\ \E s \in Answers : Asked(what) \in s /\ ~ Expected(what, s)
          /\ tries' = (tries + 1) % 2
          /\ UNCHANGED <<pc, outcome>>
       \/ Die
    /\ UNCHANGED <<chain, mempool, supply, record>>

(* poll_eq reads again after an answer that is not the expected one.  If   *)
(* the call fails, as it does on a replica without the contract, the       *)
(* pipeline in the assignment to got fails, and set -e ends the script.    *)
PollEq ==
    LET what == Script[pc].of IN
    /\ At("poll")
    /\ \/ /\ \E s \in Answers : Asked(what) \in s /\ Expected(what, s)
          /\ Proceed
       \/ /\ \E s \in Answers : Asked(what) \in s /\ ~ Expected(what, s)
          /\ Retry
       \/ Die
    /\ UNCHANGED <<chain, mempool, supply, record>>

(* A faulty variant of the sends: without pipefail the status of cast send *)
(* | jq is that of jq, and a failure goes unnoticed.                       *)
SendNoPipefail ==
    LET tx == Script[pc].of IN
    /\ At("send")
    /\ \/ /\ Succeeds(tx, Latest)
          /\ chain' = Append(chain, Latest \cup {tx})
          /\ Proceed
       \/ UNCHANGED chain /\ Proceed
    /\ UNCHANGED <<mempool, supply, record>>

(* cast send estimates the gas on one replica, broadcasts and waits for    *)
(* the receipt.  It fails, and the script ends, if the estimation fails,   *)
(* if the transaction reverts, or if the RPC does; in the last case the    *)
(* transaction may have been mined all the same.                           *)
Send ==
    LET tx == Script[pc].of
        mined == Append(chain, Latest \cup {tx})
    IN  /\ At("send")
        /\ \/ /\ \E s \in Answers : Succeeds(tx, s)
              /\ Succeeds(tx, Latest)
              /\ chain' = mined
              /\ Proceed \/ Die
           \/ UNCHANGED chain /\ Die
        /\ UNCHANGED <<mempool, supply, record>>

(* The showcase is sent with a gas limit and so without estimation, and    *)
(* its receipt is not waited for.                                          *)
Broadcast ==
    /\ At("broadcast")
    /\ \/ mempool' = {"showcase"} /\ (Proceed \/ Die)
       \/ UNCHANGED mempool /\ Die
    /\ UNCHANGED <<chain, supply, record>>

Receipt(s) == "showcase" \in s

(* The loop goes on for every read without a receipt, failed ones too, and *)
(* is left after the last of them as well.                                 *)
AwaitReceipt ==
    /\ At("awaitReceipt")
    /\ \/ (\E s \in Answers : Receipt(s)) /\ Proceed
       \/ IF tries + 1 < MaxTries
          THEN tries' = tries + 1 /\ UNCHANGED <<pc, outcome>>
          ELSE Proceed
    /\ UNCHANGED <<chain, mempool, supply, record>>

(* A faulty variant of the check: only the status of a success is refused. *)
CheckReceiptNotSuccess ==
    /\ At("checkReceipt")
    /\ Proceed \/ Die
    /\ UNCHANGED <<chain, mempool, supply, record>>

(* Only the status of a revert lets the script go on. *)
CheckReceipt ==
    /\ At("checkReceipt")
    /\ \/ (\E s \in Answers : Receipt(s) /\ ~ Succeeds("showcase", s)) /\ Proceed
       \/ Die
    /\ UNCHANGED <<chain, mempool, supply, record>>

(* The supply after the story, which goes to the record: read once. *)
ReadSupply ==
    /\ At("readSupply")
    /\ \/ (\E s \in Answers : "token" \in s /\ supply' = Supply(s)) /\ Proceed
       \/ Die /\ UNCHANGED supply
    /\ UNCHANGED <<chain, mempool, record>>

(* A record that is cut short does not parse, and so is none. *)
WriteRecord ==
    /\ At("writeRecord")
    /\ \/ record' = supply /\ Proceed
       \/ UNCHANGED record /\ Die
    /\ UNCHANGED <<chain, mempool, supply>>

ScriptStep ==
    \/ Deploy \/ WaitForCode \/ PollEq \/ Send \/ Broadcast
    \/ AwaitReceipt \/ CheckReceipt \/ ReadSupply \/ WriteRecord

Next == ScriptStep \/ Mine

Spec == Init /\ [][Next]_vars

(* The shell runs the script's commands, and each of them returns.         *)
FairSpec == Spec /\ WF_vars(ScriptStep)

-----------------------------------------------------------------------------
(* A deployment record is written only if the whole story it tells is on   *)
(* the chain: three contracts, two redemptions, the mint, the transfer,    *)
(* and the showcase, which can only have reverted.  No stale replica, no   *)
(* failing call and no time-out makes the script record anything else.     *)
RecordTrue ==
    record # NoRecord => Tx \subseteq Latest

(* Wherever the script ends, what it leaves on the chain is the beginning  *)
(* of its story, in order: no transaction is mined without those before    *)
(* it.  (With an existing verifier, that is the first transaction.)        *)
StoryInOrder ==
    \E k \in 0 .. Len(Story) : Latest = ToSet(SubSeq(Story, 1, k))

(* The script ends, with a record or without, whatever the RPC answers:    *)
(* every poll is bounded.                                                  *)
ScriptEnds == <>(outcome # "running")

(* scripts/deploy-and-seed.sh says of stale replicas: "Every               *)
(* read-after-write goes through this poll".  That is: what is recorded is *)
(* not a stale reading.                                                    *)
RecordFresh == record # NoRecord => record = Supply(Latest)

=============================================================================
