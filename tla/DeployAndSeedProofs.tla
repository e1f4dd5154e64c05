------------------------- MODULE DeployAndSeedProofs -------------------------
(***************************************************************************)
(* Proofs about the seed script, for every number of reads its polls make: *)
(* how much of the story is on the chain at each of its instructions, and  *)
(* so what it leaves behind and what its record can say.                   *)
(***************************************************************************)
EXTENDS DeployAndSeed, SequenceTheorems, TLAPS

(* The chain after the first k transactions of the story.                  *)
Told(k) == {Story[i] : i \in 1 .. k}

(* It has the first k when the script is at instruction at.                *)
Reached(at, k) ==
    \/ at = 1 /\ k \in 0 .. 1
    \/ at \in 2 .. 6 /\ k = 3
    \/ at = 7 /\ k = 4
    \/ at \in 8 .. 10 /\ k = 5
    \/ at \in 11 .. 12 /\ k = 6
    \/ at \in 13 .. 14 /\ k = 7
    \/ at \in 15 .. 16 /\ k \in 7 .. 8
    \/ at \in 17 .. 19 /\ k = 8

(* The latest state is the story so far; a transaction that is still in    *)
(* the mempool is its last one.                                            *)
StoryAt(k) ==
    /\ Latest = Told(k)
    /\ outcome # "died" => Reached(pc, k)
    /\ outcome # "died" /\ pc <= 14 => mempool = {}
    /\ mempool # {} => k = 7
    /\ record # NoRecord => k = 8

(* No replica knows more than the chain.                                   *)
Grown ==
    /\ chain \in Seq(SUBSET Tx) /\ chain # <<>>
    /\ \A i \in 1 .. Len(chain) : chain[i] \subseteq Latest

StoryInv == TypeOK /\ Grown /\ \E k \in 0 .. 8 : StoryAt(k)

-----------------------------------------------------------------------------
(* The story that scripts/deploy-and-seed.sh tells, entry by entry.        *)
LEMMA StoryEntries ==
    /\ Story[1] = "verifier" /\ Story[2] = "registry" /\ Story[3] = "token"
    /\ Story[4] = "redeemDeployer" /\ Story[5] = "redeemA"
    /\ Story[6] = "mint" /\ Story[7] = "transfer" /\ Story[8] = "showcase"
    /\ Story \in [1 .. 8 -> Tx] /\ Story \in Seq(Tx) /\ Len(Story) = 8
BY DEF Story, Tx, ToSet

(* The script's instructions, and the transactions it waits for.           *)
LEMMA ScriptEntries ==
    /\ Len(Script) = 19
    /\ \A i \in 1 .. 19 :
          /\ Script[i].op = "deploy" <=> i = 1
          /\ Script[i].op = "code" <=> i \in 2 .. 4
          /\ Script[i].op = "poll" <=> i \in {5, 8, 9, 11, 13}
          /\ Script[i].op = "send" <=> i \in {6, 7, 10, 12}
          /\ Script[i].op = "broadcast" <=> i = 14
          /\ Script[i].op = "awaitReceipt" <=> i = 15
          /\ Script[i].op = "checkReceipt" <=> i = 16
          /\ Script[i].op = "readSupply" <=> i = 17
          /\ Script[i].op = "writeRecord" <=> i = 18
          /\ Script[i].op = "end" <=> i = 19
    /\ Script[6].of = "redeemDeployer" /\ Script[7].of = "redeemA"
    /\ Script[10].of = "mint" /\ Script[12].of = "transfer"
BY DEF Script

(* The story grows by one transaction at a time.                           *)
LEMMA ToldGrows ==
    /\ Told(0) = {}
    /\ Told(1) = {"verifier"}
    /\ Told(2) = {"verifier", "registry"}
    /\ Told(3) = {"verifier", "registry", "token"}
    /\ Told(8) = Tx
    /\ \A k \in 0 .. 8 : Told(k) \subseteq Tx
    /\ \A k \in 0 .. 8 : "showcase" \in Told(k) => k = 8
    /\ \A k \in 0 .. 7 : Told(k + 1) = Told(k) \cup {Story[k + 1]}
<1>1. \A k \in 0 .. 8 : Told(k) \subseteq Tx
  BY StoryEntries DEF Told
<1>2. \A k \in 0 .. 8 : "showcase" \in Told(k) => k = 8
  BY StoryEntries DEF Told
<1>3. ASSUME NEW k \in 0 .. 7 PROVE Told(k + 1) = Told(k) \cup {Story[k + 1]}
  BY <1>3 DEF Told
<1>4. Told(0) = {}
  BY DEF Told
<1>5. Told(1) = {"verifier"}
  BY StoryEntries DEF Told
<1>6. Told(2) = {"verifier", "registry"}
  BY StoryEntries DEF Told
<1>7. Told(3) = {"verifier", "registry", "token"}
  BY StoryEntries DEF Told
<1>8. Told(8) = Tx
  BY StoryEntries DEF Told, Tx, ToSet
<1>9. QED
  BY <1>1, <1>2, <1>3, <1>4, <1>5, <1>6, <1>7, <1>8

(* The chain grows when a transaction is mined.                            *)
LEMMA MinedGrows ==
    ASSUME Grown, NEW new \in SUBSET Tx,
           chain' = Append(chain, Latest \cup new)
    PROVE  Grown' /\ Latest' = Latest \cup new
<1>1. /\ Len(chain) \in Nat /\ Len(chain) > 0
      /\ Latest \in SUBSET Tx
  BY DEF Grown, Latest, Last
<1>2. /\ chain' \in Seq(SUBSET Tx) /\ Len(chain') = Len(chain) + 1
      /\ chain'[Len(chain) + 1] = Latest \cup new
      /\ \A i \in 1 .. Len(chain) : chain'[i] = chain[i]
  BY <1>1 DEF Grown
<1>3. Latest' = Latest \cup new
  BY <1>2 DEF Latest, Last
<1>4. chain' # <<>>
  BY <1>1, <1>2
<1>5. \A i \in 1 .. Len(chain') : chain'[i] \subseteq Latest'
  BY <1>1, <1>2, <1>3 DEF Grown
<1>6. QED
  BY <1>2, <1>3, <1>4, <1>5 DEF Grown

(* The same of several transactions, mined one after another.              *)
LEMMA DeployedGrows ==
    ASSUME Grown, NEW n \in Nat, NEW states \in [1 .. n -> SUBSET Tx],
           \A i \in 1 .. n :
              Latest \subseteq states[i] /\ states[i] \subseteq states[n],
           chain' = chain \o states
    PROVE  Grown' /\ Latest' = IF n = 0 THEN Latest ELSE states[n]
<1>1. /\ Len(chain) \in Nat /\ Len(chain) > 0
      /\ states \in Seq(SUBSET Tx) /\ Len(states) = n
      /\ \A i \in 1 .. Len(chain) : chain[i] \subseteq Latest
  BY DEF Grown
<1>2. /\ chain' \in Seq(SUBSET Tx) /\ Len(chain') = Len(chain) + n
      /\ \A i \in 1 .. Len(chain) : chain'[i] = chain[i]
      /\ \A i \in 1 .. n : chain'[Len(chain) + i] = states[i]
  <2>. DEFINE S == SUBSET Tx
  <2>1. chain \in Seq(S) /\ states \in Seq(S)
    BY <1>1 DEF Grown
  <2>. HIDE DEF S
  <2>2. /\ chain \o states \in Seq(S)
        /\ Len(chain \o states) = Len(chain) + n
        /\ \A i \in 1 .. Len(chain) + n :
              (chain \o states)[i] =
                 IF i <= Len(chain) THEN chain[i] ELSE states[i - Len(chain)]
    BY <1>1, <2>1, ConcatProperties
  <2>. DEFINE l == Len(chain)
  <2>. HIDE DEF l
  <2>3. \A i \in 1 .. l : i \in 1 .. l + n /\ i <= l
    BY <1>1 DEF l
  <2>4. \A i \in 1 .. n :
           l + i \in 1 .. l + n /\ ~ l + i <= l /\ (l + i) - l = i
    BY <1>1 DEF l
  <2>5. QED
    BY <2>2, <2>3, <2>4 DEF l, S
<1>3. Latest' = IF n = 0 THEN Latest ELSE states[n]
  BY <1>1, <1>2 DEF Latest, Last
<1>4. chain' # <<>>
  BY <1>1, <1>2
<1>5. ASSUME NEW i \in 1 .. Len(chain') PROVE chain'[i] \subseteq Latest'
  <2>1. CASE i <= Len(chain)
    <3>1. chain'[i] = chain[i] /\ chain[i] \subseteq Latest
      BY <1>1, <1>2, <2>1
    <3>2. Latest \subseteq Latest'
      BY <1>3
    <3>3. QED
      BY <3>1, <3>2
  <2>2. CASE i > Len(chain)
    <3>1. i - Len(chain) \in 1 .. n /\ i = Len(chain) + (i - Len(chain))
      BY <1>1, <1>2, <2>2
    <3>2. chain'[i] = states[i - Len(chain)]
      BY <1>2, <3>1
    <3>3. QED
      BY <1>3, <3>1, <3>2
  <2>3. QED
    BY <1>1, <1>2, <2>1, <2>2
<1>6. QED
  BY <1>2, <1>3, <1>4, <1>5 DEF Grown

-----------------------------------------------------------------------------
(* At the start the chain is empty, or has the verifier.                   *)
LEMMA InitEstablishes == Init => StoryInv
<1>. SUFFICES ASSUME Init PROVE StoryInv
  OBVIOUS
<1>1. PICK k \in 0 .. 1 : chain = <<Told(k)>>
  <2>1. CASE chain = <<{}>>
    BY <2>1, ToldGrows
  <2>2. CASE chain = <<{"verifier"}>>
    BY <2>2, ToldGrows
  <2>3. QED
    BY <2>1, <2>2 DEF Init
<1>2. Told(k) \in SUBSET Tx
  BY ToldGrows
<1>3. Grown /\ Latest = Told(k)
  BY <1>1, <1>2 DEF Grown, Latest, Last
<1>4. TypeOK
  BY <1>3, ScriptEntries, TriesAssumption DEF Init, TypeOK, Grown
<1>5. StoryAt(k)
  BY <1>3 DEF Init, StoryAt, Reached
<1>6. QED
  BY <1>3, <1>4, <1>5 DEF StoryInv

(* The script goes on to the next instruction, with no reads made.         *)
LEMMA ProceedTypes ==
    ASSUME TypeOK, pc < 19, Proceed
    PROVE  /\ pc' = pc + 1 /\ pc' \in 1 .. Len(Script)
           /\ tries' \in 0 .. MaxTries
           /\ outcome' \in {"running", "done"}
BY ScriptEntries, TriesAssumption DEF TypeOK, Proceed

(* A poll reads again or, after the last of its reads, the script dies.    *)
LEMMA RetryTypes ==
    ASSUME TypeOK, Retry
    PROVE  /\ pc' = pc /\ pc' \in 1 .. Len(Script)
           /\ tries' \in 0 .. MaxTries
           /\ outcome' \in {outcome, "died"}
BY TriesAssumption DEF TypeOK, Retry

(* When set -e ends the script, it stays where it was.                     *)
LEMMA DieTypes ==
    ASSUME TypeOK, Die
    PROVE  /\ pc' = pc /\ pc' \in 1 .. Len(Script)
           /\ tries' \in 0 .. MaxTries
           /\ outcome' = "died"
BY DEF TypeOK, Die

(* What the RPC's queue holds is mined, as the last of the story, or       *)
(* dropped.                                                                *)
LEMMA MineKeeps ==
    ASSUME StoryInv, Mine
    PROVE  StoryInv'
<1>1. /\ mempool = {"showcase"} /\ mempool' = {}
      /\ UNCHANGED <<pc, tries, outcome, supply, record>>
  BY DEF StoryInv, TypeOK, Mine
<1>2. PICK k \in 0 .. 8 : StoryAt(k)
  BY DEF StoryInv
<1>3. k = 7 /\ (outcome # "died" => pc \in 15 .. 16)
  BY <1>1, <1>2 DEF StoryAt, Reached, StoryInv, TypeOK
<1>4. CASE chain' = chain
  <2>1. StoryAt(7)'
    BY <1>1, <1>2, <1>3, <1>4 DEF StoryAt, Latest
  <2>2. QED
    BY <1>1, <1>4, <2>1 DEF StoryInv, TypeOK, Grown, Latest
<1>5. CASE chain' = Append(chain, Latest \cup mempool)
  <2>1. mempool \in SUBSET Tx
    BY <1>1, StoryEntries
  <2>2. Grown' /\ Latest' = Latest \cup {"showcase"}
    BY <1>1, <1>5, <2>1, MinedGrows DEF StoryInv
  <2>3. Latest' = Told(8)
    BY <1>2, <1>3, <2>2, ToldGrows, StoryEntries DEF StoryAt
  <2>4. StoryAt(8)'
    BY <1>1, <1>3, <2>3 DEF StoryAt, Reached
  <2>5. TypeOK'
    BY <1>1, <2>2 DEF StoryInv, TypeOK, Grown
  <2>6. QED
    BY <2>2, <2>4, <2>5 DEF StoryInv
<1>6. QED
  BY <1>4, <1>5 DEF Mine

(* A read changes nothing, and the script goes on only where the story     *)
(* need not be longer; the showcase's receipt is one that the chain has.   *)
LEMMA ReadKeeps ==
    ASSUME StoryInv,
           WaitForCode \/ PollEq \/ AwaitReceipt \/ CheckReceipt \/ ReadSupply
    PROVE  StoryInv'
<1>1. UNCHANGED <<chain, mempool, record>> /\ TypeOK /\ outcome = "running"
  BY DEF StoryInv, WaitForCode, PollEq, AwaitReceipt, CheckReceipt, ReadSupply,
         At
<1>2. PICK k \in 0 .. 8 : StoryAt(k)
  BY DEF StoryInv
<1>3. pc \in {2, 3, 4, 5, 8, 9, 11, 13, 15, 16, 17}
  BY <1>1, ScriptEntries DEF WaitForCode, PollEq, AwaitReceipt, CheckReceipt,
     ReadSupply, At, TypeOK
<1>4. supply' \in Nat
  BY <1>1 DEF TypeOK, WaitForCode, PollEq, AwaitReceipt, CheckReceipt,
              ReadSupply, Supply
<1>5. /\ tries' \in 0 .. MaxTries /\ pc' \in 1 .. Len(Script)
      /\ \/ pc' = pc + 1 /\ outcome' \in {"running", "done"}
         \/ pc' = pc /\ outcome' \in {outcome, "died"}
  <2>1. \/ Proceed \/ Die \/ Retry
        \/ /\ tries + 1 < MaxTries /\ tries' = tries + 1
           /\ UNCHANGED <<pc, outcome>>
    BY DEF WaitForCode, PollEq, AwaitReceipt, CheckReceipt, ReadSupply
  <2>2. QED
    BY <1>1, <1>3, <2>1, ProceedTypes, RetryTypes, DieTypes, TriesAssumption
       DEF TypeOK
<1>6. pc = 16 /\ pc' = 17 => k = 8
  <2>1. SUFFICES ASSUME pc = 16, pc' = 17 PROVE k = 8
    OBVIOUS
  <2>2. CheckReceipt
    BY <1>1, <2>1, ScriptEntries DEF WaitForCode, PollEq, AwaitReceipt,
       ReadSupply, At
  <2>3. PICK s \in Answers : Receipt(s)
    BY <2>1, <2>2 DEF CheckReceipt, Die
  <2>4. "showcase" \in Latest
    BY <2>3 DEF Answers, ToSet, Receipt, StoryInv, Grown
  <2>5. QED
    BY <1>2, <2>4, ToldGrows DEF StoryAt
<1>7. outcome' # "died" => Reached(pc', k)
  BY <1>1, <1>2, <1>3, <1>5, <1>6 DEF StoryAt, Reached
<1>8. outcome' # "died" /\ pc' <= 14 => mempool' = {}
  BY <1>1, <1>2, <1>3, <1>5 DEF StoryAt
<1>9. StoryAt(k)'
  BY <1>1, <1>2, <1>7, <1>8 DEF StoryAt, Latest
<1>10. TypeOK'
  BY <1>1, <1>4, <1>5 DEF TypeOK
<1>11. Grown'
  BY <1>1 DEF StoryInv, Grown, Latest
<1>12. QED
  BY <1>9, <1>10, <1>11 DEF StoryInv

(* The elements of the beginning of a sequence.                            *)
LEMMA FirstOf ==
    ASSUME NEW S, NEW s \in Seq(S), NEW n \in 0 .. Len(s)
    PROVE  ToSet(SubSeq(s, 1, n)) = {s[j] : j \in 1 .. n}
<1>1. Len(s) \in Nat /\ n \in Nat /\ n <= Len(s)
  OBVIOUS
<1>2. /\ SubSeq(s, 1, n) \in Seq(S) /\ Len(SubSeq(s, 1, n)) = n
      /\ \A j \in 1 .. n : SubSeq(s, 1, n)[j] = s[j]
  BY <1>1
<1>3. DOMAIN SubSeq(s, 1, n) = 1 .. n
  BY <1>2
<1>4. QED
  BY <1>2, <1>3 DEF ToSet

(* What the two forge scripts deploy are sequences of the contracts.       *)
LEMMA ForgeScripts ==
    /\ <<"verifier", "registry", "token">>
            \in Seq({"verifier", "registry", "token"})
    /\ <<"registry", "token">> \in Seq({"verifier", "registry", "token"})
OBVIOUS

(* The contracts that forge script deploys are the next of the story.      *)
LEMMA DeployKeeps ==
    ASSUME StoryInv, Deploy
    PROVE  StoryInv'
<1>. DEFINE Contract == {"verifier", "registry", "token"}
            missing == IF "verifier" \in Latest
                       THEN <<"registry", "token">>
                       ELSE <<"verifier", "registry", "token">>
            after(n) == [i \in 1 .. n |->
                            Latest \cup ToSet(SubSeq(missing, 1, i))]
<1>1. /\ UNCHANGED <<mempool, supply, record>>
      /\ TypeOK /\ Grown /\ pc = 1 /\ outcome = "running"
  BY ScriptEntries DEF StoryInv, Deploy, At, TypeOK
<1>2. PICK k \in 0 .. 1 : Latest = Told(k) /\ mempool = {} /\ record = NoRecord
  BY <1>1 DEF StoryInv, StoryAt, Reached
<1>3. PICK n \in 0 .. Len(missing) :
          /\ chain' = chain \o after(n)
          /\ (Proceed /\ n = Len(missing)) \/ Die
  <2>1. Len(missing) \in 0 .. Len(missing)
    OBVIOUS
  <2>2. QED
    BY <2>1 DEF Deploy
<1>4. Len(missing) = 3 - k
  BY <1>2, ToldGrows
<1>5. \A i \in 1 .. n : after(n)[i] = Told(k + i)
  <2>1. ASSUME NEW i \in 1 .. n
        PROVE  Latest \cup ToSet(SubSeq(missing, 1, i)) = Told(k + i)
    <3>1. CASE k = 0
      <4>1. missing = <<"verifier", "registry", "token">> /\ i \in 1 .. 3
        BY <1>2, <1>4, <3>1, ToldGrows
      <4>2. ToSet(SubSeq(missing, 1, i)) = {missing[j] : j \in 1 .. i}
        <5>1. missing \in Seq(Contract)
          BY <4>1, ForgeScripts
        <5>2. i \in 0 .. Len(missing)
          BY <4>1
        <5>. HIDE DEF missing, Contract
        <5>3. QED
          BY <5>1, <5>2, FirstOf
      <4>3. QED
        BY <1>2, <3>1, <4>1, <4>2, ToldGrows
    <3>2. CASE k = 1
      <4>1. missing = <<"registry", "token">> /\ i \in 1 .. 2
        BY <1>2, <1>4, <3>2, ToldGrows
      <4>2. ToSet(SubSeq(missing, 1, i)) = {missing[j] : j \in 1 .. i}
        <5>1. missing \in Seq(Contract)
          BY <4>1, ForgeScripts
        <5>2. i \in 0 .. Len(missing)
          BY <4>1
        <5>. HIDE DEF missing, Contract
        <5>3. QED
          BY <5>1, <5>2, FirstOf
      <4>3. QED
        BY <1>2, <3>2, <4>1, <4>2, ToldGrows
    <3>3. QED
      BY <3>1, <3>2
  <2>2. QED
    BY <2>1
<1>. DEFINE states == after(n)
<1>6. states \in [1 .. n -> SUBSET Tx] /\ n \in Nat /\ k + n \in 0 .. 3
  <2>1. \A i \in 1 .. n : k + i \in 0 .. 8
    BY <1>4
  <2>2. QED
    BY <1>4, <1>5, <2>1, ToldGrows
<1>7. \A i \in 1 .. n :
         Latest \subseteq states[i] /\ states[i] \subseteq states[n]
  BY <1>2, <1>5, <1>6 DEF Told
<1>. HIDE DEF states
<1>8. Grown' /\ Latest' = IF n = 0 THEN Latest ELSE states[n]
  BY <1>1, <1>3, <1>6, <1>7, DeployedGrows DEF states
<1>9. Latest' = Told(k + n)
  <2>1. CASE n = 0
    BY <1>2, <1>8, <2>1
  <2>2. CASE n # 0
    <3>1. n \in 1 .. n
      BY <1>6, <2>2
    <3>2. QED
      BY <1>5, <1>8, <2>2, <3>1 DEF states
  <2>3. QED
    BY <2>1, <2>2
<1>10. /\ tries' \in 0 .. MaxTries /\ pc' \in 1 .. Len(Script)
       /\ \/ pc' = 2 /\ k + n = 3 /\ outcome' \in {"running", "done"}
          \/ outcome' = "died"
  BY <1>1, <1>3, <1>4, ProceedTypes, DieTypes
<1>11. StoryAt(k + n)'
  BY <1>1, <1>2, <1>9, <1>10 DEF StoryAt, Reached
<1>12. TypeOK'
  BY <1>1, <1>8, <1>10 DEF TypeOK, Grown
<1>13. QED
  BY <1>6, <1>8, <1>11, <1>12 DEF StoryInv

(* A transaction that was sent and waited for is the next of the story; if *)
(* the script did not get to know of it, it ends there.                    *)
LEMMA SendKeeps ==
    ASSUME StoryInv, Send
    PROVE  StoryInv'
<1>1. /\ UNCHANGED <<mempool, supply, record>>
      /\ TypeOK /\ Grown /\ outcome = "running"
      /\ pc \in {6, 7, 10, 12}
  BY ScriptEntries DEF StoryInv, Send, At, TypeOK
<1>2. PICK k \in 0 .. 8 : StoryAt(k)
  BY DEF StoryInv
<1>3. /\ k \in 0 .. 7 /\ Script[pc].of = Story[k + 1]
      /\ Reached(pc + 1, k + 1)
      /\ mempool = {} /\ record = NoRecord
  BY <1>1, <1>2, ScriptEntries, StoryEntries DEF StoryAt, Reached
<1>4. CASE chain' = chain /\ Die
  <2>1. outcome' = "died" /\ UNCHANGED <<pc, tries>>
    BY <1>4 DEF Die
  <2>2. StoryAt(k)'
    BY <1>1, <1>2, <1>3, <1>4, <2>1 DEF StoryAt, Latest
  <2>3. QED
    BY <1>1, <1>4, <2>1, <2>2 DEF StoryInv, TypeOK, Grown, Latest
<1>5. CASE /\ chain' = Append(chain, Latest \cup {Script[pc].of})
           /\ Proceed \/ Die
  <2>1. {Script[pc].of} \in SUBSET Tx
    BY <1>3, StoryEntries
  <2>2. Grown' /\ Latest' = Latest \cup {Script[pc].of}
    BY <1>1, <1>5, <2>1, MinedGrows
  <2>3. Latest' = Told(k + 1)
    BY <1>2, <1>3, <2>2, ToldGrows DEF StoryAt
  <2>4. /\ tries' \in 0 .. MaxTries /\ pc' \in 1 .. Len(Script)
        /\ \/ pc' = pc + 1 /\ outcome' \in {"running", "done"}
           \/ outcome' = "died"
    BY <1>1, <1>5, ProceedTypes, DieTypes
  <2>5. StoryAt(k + 1)'
    BY <1>1, <1>3, <2>3, <2>4 DEF StoryAt
  <2>6. TypeOK'
    BY <1>1, <2>2, <2>4 DEF TypeOK, Grown
  <2>7. QED
    BY <1>3, <2>2, <2>5, <2>6 DEF StoryInv
<1>6. QED
  BY <1>4, <1>5 DEF Send

(* The showcase is broadcast once all before it is on the chain.           *)
LEMMA BroadcastKeeps ==
    ASSUME StoryInv, Broadcast
    PROVE  StoryInv'
<1>1. /\ UNCHANGED <<chain, supply, record>>
      /\ TypeOK /\ Grown /\ outcome = "running" /\ pc = 14
      /\ mempool' \subseteq {"showcase"}
      /\ Proceed \/ Die
  BY ScriptEntries DEF StoryInv, Broadcast, At, TypeOK
<1>2. StoryAt(7)
  BY <1>1 DEF StoryInv, StoryAt, Reached
<1>3. /\ tries' \in 0 .. MaxTries /\ pc' \in 1 .. Len(Script)
      /\ \/ pc' = 15 /\ outcome' \in {"running", "done"}
         \/ outcome' = "died"
  BY <1>1, ProceedTypes, DieTypes
<1>4. StoryAt(7)'
  BY <1>1, <1>2, <1>3 DEF StoryAt, Reached, Latest
<1>5. TypeOK' /\ Grown'
  BY <1>1, <1>3 DEF TypeOK, Grown, Latest
<1>6. QED
  BY <1>4, <1>5 DEF StoryInv

(* The record is written with the whole story on the chain.                *)
LEMMA WriteRecordKeeps ==
    ASSUME StoryInv, WriteRecord
    PROVE  StoryInv'
<1>1. /\ UNCHANGED <<chain, mempool, supply>>
      /\ TypeOK /\ Grown /\ outcome = "running" /\ pc = 18
      /\ \/ record' = supply /\ Proceed
         \/ UNCHANGED record /\ Die
  BY ScriptEntries DEF StoryInv, WriteRecord, At, TypeOK
<1>2. StoryAt(8)
  BY <1>1 DEF StoryInv, StoryAt, Reached
<1>3. ASSUME record' = supply, Proceed
      PROVE  StoryInv'
  <2>1. /\ tries' \in 0 .. MaxTries /\ pc' \in 1 .. Len(Script) /\ pc' = 19
        /\ outcome' \in {"running", "done"}
    BY <1>1, <1>3, ProceedTypes
  <2>2. StoryAt(8)'
    BY <1>1, <1>2, <1>3, <2>1 DEF StoryAt, Reached, Latest
  <2>3. TypeOK' /\ Grown'
    BY <1>1, <1>3, <2>1 DEF TypeOK, Grown, Latest
  <2>4. QED
    BY <2>2, <2>3 DEF StoryInv
<1>4. ASSUME UNCHANGED record, Die
      PROVE  StoryInv'
  <2>1. StoryAt(8)'
    BY <1>1, <1>2, <1>4 DEF Die, StoryAt, Latest
  <2>2. TypeOK' /\ Grown'
    BY <1>1, <1>4 DEF Die, TypeOK, Grown, Latest
  <2>3. QED
    BY <2>1, <2>2 DEF StoryInv
<1>5. QED
  BY <1>1, <1>3, <1>4

-----------------------------------------------------------------------------
(* Whatever the replicas answer and whichever call fails, the chain is     *)
(* where the script has got to in its story.                               *)
LEMMA StoryInvariant == Spec => []StoryInv
<1>1. StoryInv /\ [Next]_vars => StoryInv'
  <2>1. ASSUME StoryInv, UNCHANGED vars
        PROVE  StoryInv'
    BY <2>1 DEF vars, StoryInv, TypeOK, Grown, StoryAt, Latest
  <2>2. QED
    BY <2>1, MineKeeps, ReadKeeps, DeployKeeps, SendKeeps, BroadcastKeeps,
       WriteRecordKeeps DEF Next, ScriptStep
<1>2. QED
  BY <1>1, InitEstablishes, PTL DEF Spec

(* The types hold; in particular poll_eq never reads more often than it is *)
(* told to.                                                                *)
THEOREM ScriptTypes == Spec => []TypeOK
<1>1. StoryInv => TypeOK
  BY DEF StoryInv
<1>2. QED
  BY <1>1, StoryInvariant, PTL

(* The deployment record is only ever written of a chain that has the      *)
(* whole story, the showcase included: the check of its receipt's status   *)
(* cannot be passed by a replica's ignorance.                              *)
THEOREM RecordIsTrue == Spec => []RecordTrue
<1>1. StoryInv => RecordTrue
  BY ToldGrows DEF StoryInv, StoryAt, RecordTrue
<1>2. QED
  BY <1>1, StoryInvariant, PTL

(* Wherever set -e ends the script, the chain has a beginning of the story *)
(* and nothing else.                                                       *)
THEOREM StoryToldInOrder == Spec => []StoryInOrder
<1>1. ASSUME NEW k \in 0 .. 8
      PROVE  Told(k) = ToSet(SubSeq(Story, 1, k))
  BY StoryEntries, FirstOf DEF Told
<1>2. StoryInv => StoryInOrder
  BY <1>1, StoryEntries DEF StoryInv, StoryAt, StoryInOrder
<1>3. QED
  BY <1>2, StoryInvariant, PTL

=============================================================================
