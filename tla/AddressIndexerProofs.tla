------------------------ MODULE AddressIndexerProofs ------------------------
(***************************************************************************)
(* Proofs about AddressIndexer, for every set of transactions and blocks,  *)
(* every chain, window, batch size and bound on failures: its types, its   *)
(* pointer, where it rolls back to, and, with one reorganization, that the *)
(* ledger is the UTXO set of the chain whose hashes it holds.              *)
(***************************************************************************)
EXTENDS AddressIndexer, ChainProofs, FiniteSetTheorems, WellFoundedInduction, TLAPS

(* Every height up to the pointer has one recorded hash, none above it has. *)
OneHashPerHeight ==
  /\ \A h \in 0..lastHeight : \E r \in indexBlocks : r.height = h
  /\ \A r, q \in indexBlocks : r.height = q.height => r = q
  /\ \A r \in indexBlocks : r.height <= lastHeight

(* What is left of a batch continues right above the database's pointer, and
   the task's copy of the pointer is only behind once it has applied a block. *)
BatchFollowsPointer ==
  pc = "applying" =>
    /\ advanced \/ last = lastHeight
    /\ \A i \in 1..Len(batch) : Len(batch[i]) = lastHeight + i

(* While the loop verifies, the pointer may only have been rolled back. *)
VerifyLowers == pc = "verifying" => lastHeight <= last

InStep == OneHashPerHeight /\ BatchFollowsPointer /\ VerifyLowers /\ PointerInStep

(* A check works for the boot or for the loop, on answers for indexed heights,
   and rolls back to just below the first that differs. *)
CheckInv ==
  /\ stage # "none" => pc \in {"booting", "verifying"}
  /\ stage \in {"asked", "found"} => \A a \in onChain : a.height <= lastHeight
  /\ stage = "found" => target + 1 \in Mismatched /\ \A h \in Mismatched : target < h

Typed == TypeOK /\ chain \in BlockHash /\ reorgs \in Nat /\ CheckInv

(* Types hold whatever is misread, the rest until then. *)
IInv == Typed /\ ("misread" \notin astray => InStep)

-----------------------------------------------------------------------------
(* Least and greatest elements, as CHOOSE gives them. *)
Below == {pair \in Nat \X Nat : pair[1] < pair[2]}

LEMMA LeastOf ==
  ASSUME NEW S \in SUBSET Nat, S # {}
  PROVE  Min(S) \in S /\ \A y \in S : Min(S) <= y
<1>1. IsWellFoundedOn(Below, Nat)
  BY NatLessThanWellFounded, Zenon DEF OpToRel, Below
<1>2. PICK x \in S : \A y \in S : ~ (<<y, x>> \in Below)
  BY <1>1, WFMin
<1>3. ASSUME NEW y \in S
      PROVE  x <= y
  <2>1. y < x => <<y, x>> \in Below
    BY Zenon DEF Below
  <2>2. ~ (y < x) /\ x \in Nat /\ y \in Nat
    BY <1>2, <2>1
  <2>3. QED BY <2>2
<1>4. QED BY <1>3 DEF Min

LEMMA GreaterOfTwo ==
  ASSUME NEW a \in Int, NEW b \in Int
  PROVE  /\ Max({a, b}) \in {a, b} /\ Max({a, b}) >= a /\ Max({a, b}) >= b
         /\ a <= b => Max({a, b}) = b
<1>1. \E x \in {a, b} : \A y \in {a, b} : x >= y
  <2>1. a >= b \/ b >= a
    OBVIOUS
  <2>2. QED BY <2>1
<1>2. Max({a, b}) \in {a, b} /\ \A y \in {a, b} : Max({a, b}) >= y
  BY <1>1 DEF Max
<1>3. QED BY <1>2

LEMMA LesserOfTwo ==
  ASSUME NEW a \in Int, NEW b \in Int
  PROVE  Min({a, b}) \in {a, b} /\ Min({a, b}) <= a /\ Min({a, b}) <= b
<1>1. \E x \in {a, b} : \A y \in {a, b} : x <= y
  <2>1. a <= b \/ b <= a
    OBVIOUS
  <2>2. QED BY <2>1
<1>2. Min({a, b}) \in {a, b} /\ \A y \in {a, b} : Min({a, b}) <= y
  BY <1>1 DEF Min
<1>3. QED BY <1>2

-----------------------------------------------------------------------------
(* The tables, as apply_block and rollback_to leave them. *)
LEMMA LedgerFacts ==
  ASSUME Ledger!TypeOK
  PROVE  /\ lastHeight \in Int /\ lastHeight >= -1
         /\ \A r \in indexBlocks : r.height \in Nat /\ r.hash \in BlockHash
         /\ \A r \in utxos : r.out \in Ledger!Creditable /\ r.height \in Nat
         /\ \A u \in undo : u.at \in Nat /\ u.out \in Ledger!Creditable /\ u.orig \in Nat
BY DEF Ledger!TypeOK, Ledger!Indexed, Ledger!Utxo, Ledger!Undo

LEMMA LegsTyped ==
  ASSUME NEW t \in Tx, NEW dir \in {"in", "out"}, NEW h \in Nat, NEW outs \in SUBSET Ledger!Creditable
  PROVE  Ledger!Legs(t, dir, h, outs) \subseteq Ledger!History
BY TransactionAssumption DEF Ledger!Legs, Ledger!History, Ledger!Creditable

LEMMA ApplyTyped ==
  ASSUME Ledger!TypeOK, NEW txs \in SUBSET Tx, NEW hash \in BlockHash, NEW h \in Nat,
         Ledger!ApplyBlock(h, hash, txs)
  PROVE  Ledger!TypeOK'
<1> DEFINE created == {[out |-> o, height |-> h] : o \in Ledger!CreatedBy(txs)}
           present == Ledger!Upsert(utxos, created, Ledger!UtxoKey)
           spent == {r \in present : r.out \in Ledger!SpentBy(txs)}
           logged == {[at |-> h, out |-> r.out, orig |-> r.height] : r \in spent}
           inRows == UNION {Ledger!Legs(t, "in", h, Ledger!Credited(t)) : t \in txs}
           outRows == UNION {Ledger!Legs(t, "out", h, Inputs[t] \cap {r.out : r \in spent}) :
                               t \in txs}
<1>1. created \subseteq Ledger!Utxo
  BY DEF Ledger!CreatedBy, Ledger!Credited, Ledger!Utxo
<1>2. present \subseteq Ledger!Utxo
  BY <1>1 DEF Ledger!TypeOK, Ledger!Upsert
<1>3. \A r \in spent : r.out \in Ledger!Creditable /\ r.height \in Nat
  BY <1>2 DEF Ledger!Utxo
<1>4. logged \subseteq Ledger!Undo
  <2>1. ASSUME NEW r \in spent
        PROVE  [at |-> h, out |-> r.out, orig |-> r.height] \in Ledger!Undo
    BY <1>3, Zenon DEF Ledger!Undo
  <2>2. QED BY <2>1, Zenon
<1>5. inRows \cup outRows \subseteq Ledger!History
  <2>1. ASSUME NEW t \in txs
        PROVE  /\ Ledger!Legs(t, "in", h, Ledger!Credited(t)) \subseteq Ledger!History
               /\ Ledger!Legs(t, "out", h, Inputs[t] \cap {r.out : r \in spent})
                    \subseteq Ledger!History
    <3>1. Ledger!Credited(t) \in SUBSET Ledger!Creditable
      BY DEF Ledger!Credited
    <3>2. Inputs[t] \cap {r.out : r \in spent} \in SUBSET Ledger!Creditable
      BY <1>3
    <3>3. QED BY <3>1, <3>2, LegsTyped
  <2>2. QED BY <2>1
<1>6. utxos' \subseteq Ledger!Utxo
  BY <1>2 DEF Ledger!ApplyBlock
<1>7. undo' \subseteq Ledger!Undo
  BY <1>4 DEF Ledger!ApplyBlock, Ledger!TypeOK, Ledger!Upsert
<1>8. addressTxs' \subseteq Ledger!History
  <2>1. PICK rows \in Ledger!LastPerKey(inRows \cup outRows, Ledger!HistoryKey) :
          addressTxs' = Ledger!Upsert(addressTxs, rows, Ledger!HistoryKey)
    BY DEF Ledger!ApplyBlock
  <2>2. rows \subseteq Ledger!History
    BY <1>5 DEF Ledger!LastPerKey
  <2>3. QED BY <2>1, <2>2 DEF Ledger!TypeOK, Ledger!Upsert
<1>9. indexBlocks' \subseteq Ledger!Indexed
  BY DEF Ledger!ApplyBlock, Ledger!TypeOK, Ledger!Upsert, Ledger!Indexed
<1>10. lastHeight' \in Int /\ lastHeight' >= -1
  BY DEF Ledger!ApplyBlock
<1>11. QED BY <1>6, <1>7, <1>8, <1>9, <1>10 DEF Ledger!TypeOK

LEMMA RollbackTyped ==
  ASSUME Ledger!TypeOK, NEW n \in -1..lastHeight, Ledger!RollbackTo(n)
  PROVE  Ledger!TypeOK'
<1> DEFINE restored == {[out |-> u.out, height |-> u.orig] :
                          u \in {u \in undo : u.at > n /\ u.orig <= n}}
<1>1. restored \subseteq Ledger!Utxo
  BY LedgerFacts DEF Ledger!Utxo
<1>2. utxos' \subseteq Ledger!Utxo
  BY <1>1 DEF Ledger!RollbackTo, Ledger!Upsert, Ledger!TypeOK
<1>3. lastHeight' \in Int /\ lastHeight' >= -1
  BY LedgerFacts DEF Ledger!RollbackTo
<1>4. QED BY <1>2, <1>3 DEF Ledger!RollbackTo, Ledger!TypeOK

(* The hashes: one more, above all others, or none above n. *)
LEMMA ApplyRecords ==
  ASSUME Ledger!TypeOK, OneHashPerHeight, NEW txs, NEW hash \in BlockHash,
         Ledger!ApplyBlock(lastHeight + 1, hash, txs)
  PROVE  OneHashPerHeight'
<1> DEFINE new == [height |-> lastHeight + 1, hash |-> hash]
<1>1. lastHeight' = lastHeight + 1 /\ lastHeight \in Int /\ lastHeight >= -1
  BY LedgerFacts DEF Ledger!ApplyBlock
<1>2. \A r \in indexBlocks : r.height # lastHeight + 1 /\ r.height \in Int
  BY <1>1, LedgerFacts DEF OneHashPerHeight
<1>3. indexBlocks' = indexBlocks \cup {new}
  BY <1>2 DEF Ledger!ApplyBlock, Ledger!Upsert, Ledger!SameKey, Ledger!IndexedKey
<1>4. new.height = lastHeight + 1 /\ new \in indexBlocks'
  BY <1>3
<1>5. \A h \in 0..lastHeight' : h \in 0..lastHeight \/ h = lastHeight + 1
  BY <1>1
<1>6. \A h \in 0..lastHeight' : \E r \in indexBlocks' : r.height = h
  BY <1>3, <1>4, <1>5 DEF OneHashPerHeight
<1>7. \A r, q \in indexBlocks' : r.height = q.height => r = q
  BY <1>2, <1>3, <1>4 DEF OneHashPerHeight
<1>8. \A r \in indexBlocks' : r.height <= lastHeight'
  BY <1>1, <1>2, <1>3, <1>4 DEF OneHashPerHeight
<1>9. QED BY <1>6, <1>7, <1>8 DEF OneHashPerHeight

LEMMA RollbackRecords ==
  ASSUME Ledger!TypeOK, OneHashPerHeight, NEW n \in -1..lastHeight, Ledger!RollbackTo(n)
  PROVE  OneHashPerHeight'
<1>1. /\ indexBlocks' = {r \in indexBlocks : r.height <= n} /\ lastHeight' = n
      /\ lastHeight \in Int
  BY LedgerFacts DEF Ledger!RollbackTo
<1>2. \A h \in 0..n : h \in 0..lastHeight /\ h <= n
  BY <1>1
<1>3. QED BY <1>1, <1>2 DEF OneHashPerHeight

-----------------------------------------------------------------------------
(* The reorg check: what it asks for, and where it rolls back to. *)
LEMMA WindowHeights ==
  ASSUME Ledger!TypeOK
  PROVE  Window \subseteq 0..lastHeight
<1>1. lastHeight \in Int /\ lastHeight - ReorgDepth + 1 \in Int
  BY LedgerFacts, IndexerAssumption
<1>2. Max({0, lastHeight - ReorgDepth + 1}) \in Int /\ Max({0, lastHeight - ReorgDepth + 1}) >= 0
  BY <1>1, GreaterOfTwo
<1>3. QED BY <1>1, <1>2 DEF Window

LEMMA AnswersTyped ==
  ASSUME Ledger!TypeOK, chain \in BlockHash
  PROVE  /\ Answers \subseteq Ledger!Indexed
         /\ \A a \in Answers :
              /\ a.height \in Window /\ a.height <= TipHeight /\ a.height <= lastHeight
              /\ a.hash = HashAt(a.height)
<1>1. lastHeight \in Int /\ TipHeight \in Nat
  BY LedgerFacts, HashHeight DEF TipHeight
<1>2. ASSUME NEW a \in Answers
      PROVE  /\ a \in Ledger!Indexed
             /\ a.height \in Window /\ a.height <= TipHeight /\ a.height <= lastHeight
             /\ a.hash = HashAt(a.height)
  <2>1. PICK h \in Window : h <= TipHeight /\ a = [height |-> h, hash |-> HashAt(h)]
    BY DEF Answers
  <2>2. h \in 0..lastHeight /\ h \in 0..TipHeight
    BY <1>1, <2>1, WindowHeights
  <2>3. HashAt(h) \in BlockHash
    BY <2>2, HashAtHeight
  <2>4. QED BY <1>1, <2>1, <2>2, <2>3 DEF Ledger!Indexed
<1>3. QED BY <1>2

LEMMA MismatchedHeights ==
  ASSUME TypeOK
  PROVE  Mismatched \in SUBSET Nat
BY DEF TypeOK, Mismatched, Ledger!Indexed

LEMMA FirstMismatch ==
  ASSUME TypeOK, Mismatched # {}, NEW n, n = Max({-1, Min(Mismatched) - 1})
  PROVE  n \in Int /\ n >= -1 /\ n + 1 \in Mismatched /\ \A h \in Mismatched : n < h
<1>1. Mismatched \in SUBSET Nat
  BY MismatchedHeights
<1>2. Min(Mismatched) \in Mismatched /\ \A h \in Mismatched : Min(Mismatched) <= h
  BY <1>1, LeastOf
<1>3. PICK m \in Nat : m = Min(Mismatched)
  BY <1>1, <1>2
<1>4. Max({-1, m - 1}) = m - 1
  <2>1. -1 \in Int /\ m - 1 \in Int /\ -1 <= m - 1
    OBVIOUS
  <2>2. QED BY <2>1, GreaterOfTwo
<1>5. n = m - 1
  BY <1>3, <1>4
<1>6. \A h \in Mismatched : h \in Nat /\ m <= h
  BY <1>1, <1>2, <1>3
<1>7. n \in Int /\ n >= -1 /\ n + 1 = m
  BY <1>3, <1>5
<1>8. n + 1 \in Mismatched
  BY <1>2, <1>3, <1>7, Zenon
<1>9. ASSUME NEW h \in Mismatched PROVE n < h
  BY <1>5, <1>6
<1>10. QED BY <1>7, <1>8, <1>9

(* What is rolled back to lies below the pointer. *)
LEMMA TargetBelow ==
  ASSUME Typed, stage = "found"
  PROVE  /\ target \in -1..lastHeight /\ target < lastHeight
         /\ \E a \in onChain, r \in indexBlocks :
              a.height = target + 1 /\ r.height = a.height /\ r.hash # a.hash
<1>1. lastHeight \in Int /\ target \in Int /\ target >= -1
  BY LedgerFacts DEF Typed, TypeOK
<1>2. PICK a \in onChain : /\ a.height = target + 1
                           /\ \E r \in indexBlocks : r.height = a.height /\ r.hash # a.hash
  BY DEF Typed, CheckInv, Mismatched
<1>3. a.height <= lastHeight
  BY DEF Typed, CheckInv
<1>4. QED BY <1>1, <1>2, <1>3

(* The hashes a fetch returns are those of the heights above the pointer. *)
LEMMA FetchedBatch ==
  ASSUME Typed, FetchBatch
  PROVE  /\ batch' \in Seq(BlockHash)
         /\ \A i \in 1..Len(batch') :
              /\ last + i \in 0..TipHeight /\ batch'[i] = HashAt(last + i)
              /\ Len(batch'[i]) = last + i
<1> DEFINE top == Min({tipHeight, last + BatchSize})
           found == {h \in (last + 1)..top : h <= TipHeight}
           n == Cardinality(found)
<1>1. PICK k \in 0..n : batch' = [i \in 1..k |-> HashAt(last + i)]
  BY DEF FetchBatch
<1>2. last \in Int /\ last >= -1 /\ tipHeight \in Int /\ BatchSize \in Int /\ TipHeight \in Nat
  BY IndexerAssumption, HashHeight DEF Typed, TypeOK, TipHeight
<1>3. top \in Int
  <2>1. last + BatchSize \in Int
    BY <1>2
  <2>2. QED BY <1>2, <2>1, LesserOfTwo
<1>4. n \in Nat /\ \A i \in 1..n : last + i \in 0..TipHeight
  <2> DEFINE end == IF top <= TipHeight THEN top ELSE TipHeight
  <2>1. end \in Int /\ end <= TipHeight
    BY <1>2, <1>3
  <2>2. found = (last + 1)..end
    BY <1>2, <1>3
  <2> HIDE DEF end, found
  <2>3. n = IF last + 1 > end THEN 0 ELSE (end - (last + 1)) + 1
    <3>1. last + 1 \in Int
      BY <1>2
    <3>2. QED BY <2>1, <2>2, <3>1, FS_Interval
  <2> HIDE DEF n
  <2>4. n \in Nat
    BY <1>2, <2>1, <2>3
  <2>5. ASSUME NEW i \in 1..n
        PROVE  last + i \in 0..TipHeight
    <3>1. ~ (last + 1 > end)
      BY <2>3, <2>5
    <3>2. last + i <= end
      BY <1>2, <2>1, <2>3, <3>1
    <3>3. QED BY <1>2, <2>1, <3>2
  <2>6. QED BY <2>4, <2>5
<1>5. ASSUME NEW i \in 1..k
      PROVE  /\ HashAt(last + i) \in BlockHash /\ Len(HashAt(last + i)) = last + i
             /\ last + i \in 0..TipHeight
  <2>1. i \in 1..n
    <3> HIDE DEF n
    <3>1. QED BY <1>4
  <2>2. PICK h \in 0..TipHeight : h = last + i
    BY <1>4, <2>1
  <2>3. QED BY <2>2, HashAtHeight DEF Typed
<1>6. batch' \in Seq(BlockHash) /\ Len(batch') = k
  BY <1>1, <1>4, <1>5
<1>7. QED BY <1>1, <1>5, <1>6

-----------------------------------------------------------------------------
LEMMA InitInv == Init => IInv
<1> SUFFICES ASSUME Init PROVE IInv
  OBVIOUS
<1>1. /\ lastHeight = -1 /\ indexBlocks = {} /\ pc = "waiting" /\ last = -1
      /\ batch = <<>> /\ advanced = FALSE /\ chain = <<>> /\ reorgs = 0
      /\ tipHeight = 0 /\ phase = "none"
      /\ stage = "none" /\ onChain = {} /\ target = -1 /\ astray = {}
  BY DEF Init, Ledger!Init, ChainInit
<1>2. Ledger!TypeOK
  BY DEF Init, Ledger!Init, Ledger!TypeOK
<1>3. chain \in BlockHash
  BY <1>1, HashIsPath, ChainAssumption
<1>4. InStep
  BY <1>1 DEF InStep, OneHashPerHeight, BatchFollowsPointer, VerifyLowers, PointerInStep
<1>5. CheckInv
  BY <1>1 DEF CheckInv
<1>6. /\ last \in Int /\ last >= -1 /\ batch \in Seq(BlockHash) /\ tipHeight \in Nat
      /\ target \in Int /\ target >= -1 /\ reorgs \in Nat
  BY <1>1
<1>7. TypeOK
  BY <1>1, <1>2, <1>6 DEF TypeOK
<1>8. QED BY <1>3, <1>4, <1>5, <1>6, <1>7 DEF IInv, Typed

(* Steps that leave the tables alone, and those that leave the check alone. *)
LEMMA TablesKept ==
  ASSUME UNCHANGED tables
  PROVE  /\ Ledger!TypeOK => Ledger!TypeOK'
         /\ OneHashPerHeight => OneHashPerHeight'
         /\ lastHeight' = lastHeight /\ indexBlocks' = indexBlocks
BY DEF tables, Ledger!TypeOK, OneHashPerHeight

LEMMA CheckKept ==
  ASSUME CheckInv, UNCHANGED <<tables, check>>, pc' = pc \/ stage = "none"
  PROVE  CheckInv'
BY DEF CheckInv, check, tables, Mismatched

LEMMA CheckIdle ==
  ASSUME stage' = "none"
  PROVE  CheckInv'
BY DEF CheckInv

LEMMA NodeTyped ==
  ASSUME chain \in BlockHash, reorgs \in Nat, NodeStep
  PROVE  (chain \in BlockHash)' /\ reorgs' \in Nat /\ reorgs <= reorgs'
<1>1. chain' \in BlockHash
  BY NodeKeepsChain DEF NodeStep
<1>2. reorgs' = reorgs \/ reorgs' = reorgs + 1
  BY DEF NodeStep, Extend, Reorg
<1>3. QED BY <1>1, <1>2

(* Types, and what is known of a check, survive every step. *)
LEMMA StepTyped == Typed /\ [Next]_vars => Typed'
<1> SUFFICES ASSUME Typed, [Next]_vars PROVE Typed'
  OBVIOUS
<1>1. /\ TypeOK /\ Ledger!TypeOK /\ CheckInv /\ chain \in BlockHash /\ reorgs \in Nat
      /\ tipHeight \in Nat /\ phase \in {"none", "live", "rpc_offline"}
      /\ pc \in {"waiting", "booting", "loop", "verifying", "applying", "dead"}
      /\ last \in Int /\ last >= -1 /\ batch \in Seq(BlockHash) /\ advanced \in BOOLEAN
      /\ stage \in {"none", "asked", "found", "done"} /\ onChain \subseteq Ledger!Indexed
      /\ target \in Int /\ target >= -1 /\ astray \subseteq {"misread", "shallow"}
      /\ lastHeight \in Int /\ lastHeight >= -1
  BY LedgerFacts DEF Typed, TypeOK
<1>2. <<>> \in Seq(BlockHash) /\ -1 \in Int /\ -1 >= -1
  OBVIOUS
<1>3. CASE NodeStep
  <2>1. UNCHANGED <<tables, kv, task, astray>>
    BY <1>3 DEF NodeStep
  <2>2. Ledger!TypeOK' /\ CheckInv'
    BY <1>1, <2>1, TablesKept, CheckKept DEF task
  <2>3. QED BY <1>1, <1>3, <2>1, <2>2, NodeTyped DEF Typed, TypeOK, kv, task, check
<1>4. CASE BlockLoopTick \/ BlockLoopOffline
  <2>1. TipHeight \in Nat
    BY <1>1, HashHeight DEF TipHeight
  <2>2. /\ UNCHANGED <<node, tables, task, astray>> /\ tipHeight' \in Nat
        /\ phase' \in {"none", "live", "rpc_offline"}
    BY <1>1, <1>4, <2>1 DEF BlockLoopTick, BlockLoopOffline
  <2>3. Ledger!TypeOK' /\ CheckInv'
    BY <1>1, <2>2, TablesKept, CheckKept DEF task
  <2>4. QED BY <1>1, <2>2, <2>3 DEF Typed, TypeOK, node, task, check
<1>5. CASE UNCHANGED vars
  <2>1. Ledger!TypeOK' /\ CheckInv'
    BY <1>1, <1>5, TablesKept, CheckKept DEF vars, task
  <2>2. QED BY <1>1, <1>5, <2>1 DEF Typed, TypeOK, vars, node, kv, task, check
<1>6. CASE StopWaiting
  <2>1. /\ UNCHANGED <<node, tables, kv, last, batch, advanced, check, astray>>
        /\ pc = "waiting" /\ pc' = "booting"
    BY <1>6 DEF StopWaiting
  <2>2. Ledger!TypeOK' /\ stage = "none"
    BY <1>1, <2>1, TablesKept DEF CheckInv
  <2>3. CheckInv'
    BY <1>1, <2>1, <2>2, CheckKept
  <2>4. QED BY <1>1, <2>1, <2>2, <2>3 DEF Typed, TypeOK, node, kv, check
<1>7. CASE AskNode
  <2>1. /\ UNCHANGED <<node, tables, kv, last, batch, advanced, target, astray>>
        /\ pc' \in {"booting", "verifying"} /\ stage' \in {"asked", "done"}
        /\ stage' = "asked" => onChain' = Answers
        /\ onChain' \in {Answers, onChain}
    BY <1>7 DEF AskNode
  <2>2. Ledger!TypeOK' /\ lastHeight' = lastHeight /\ onChain' \subseteq Ledger!Indexed
    BY <1>1, <2>1, TablesKept, AnswersTyped
  <2>3. CheckInv'
    BY <1>1, <2>1, <2>2, AnswersTyped DEF CheckInv
  <2>4. QED BY <1>1, <2>1, <2>2, <2>3 DEF Typed, TypeOK, node, kv
<1>8. CASE CompareHashes
  <2>1. UNCHANGED <<node, tables, kv, pc, last, batch, advanced, astray>> /\ stage = "asked"
    BY <1>8 DEF CompareHashes
  <2>2. Ledger!TypeOK' /\ lastHeight' = lastHeight /\ indexBlocks' = indexBlocks
    BY <1>1, <2>1, TablesKept
  <2>3. CASE Mismatched = {} /\ stage' = "done" /\ onChain' = {} /\ UNCHANGED target
    <3>1. CheckInv'
      BY <1>1, <2>1, <2>3 DEF CheckInv
    <3>2. QED BY <1>1, <2>1, <2>2, <2>3, <3>1 DEF Typed, TypeOK, node, kv
  <2>4. CASE /\ Mismatched # {} /\ stage' = "found" /\ UNCHANGED onChain
             /\ target' = Max({-1, Min(Mismatched) - 1})
    <3>1. /\ target' \in Int /\ target' >= -1 /\ target' + 1 \in Mismatched
          /\ \A h \in Mismatched : target' < h
      BY <1>1, <2>4, FirstMismatch
    <3>2. Mismatched' = Mismatched
      BY <2>2, <2>4 DEF Mismatched
    <3>3. CheckInv'
      BY <1>1, <2>1, <2>2, <2>4, <3>1, <3>2 DEF CheckInv
    <3>4. QED BY <1>1, <2>1, <2>2, <2>4, <3>1, <3>3 DEF Typed, TypeOK, node, kv
  <2>5. QED BY <1>8, <2>3, <2>4 DEF CompareHashes
<1>9. CASE RollBack
  <2>1. /\ UNCHANGED <<node, kv, pc, last, batch, advanced>> /\ stage = "found"
        /\ stage' = "done" /\ onChain' = {} /\ target' = -1 /\ Ledger!RollbackTo(target)
        /\ astray' \subseteq astray \cup {"shallow"}
    BY <1>9 DEF RollBack
  <2>2. Ledger!TypeOK'
    BY <1>1, <2>1, TargetBelow, RollbackTyped
  <2>3. CheckInv'
    BY <1>1, <2>1 DEF CheckInv
  <2>4. QED BY <1>1, <1>2, <2>1, <2>2, <2>3 DEF Typed, TypeOK, node, kv
<1>10. CASE Boot \/ VerifyRecent
  <2>1. /\ UNCHANGED <<node, tables, kv, batch, advanced, onChain, target, astray>>
        /\ pc' = "loop" /\ stage' = "none" /\ last' \in {last, lastHeight}
    BY <1>10 DEF Boot, VerifyRecent
  <2>2. Ledger!TypeOK' /\ CheckInv' /\ last' \in Int /\ last' >= -1
    BY <1>1, <2>1, TablesKept, CheckIdle
  <2>3. QED BY <1>1, <2>1, <2>2 DEF Typed, TypeOK, node, kv
<1>11. CASE BootFails \/ VerifyFails \/ Crash
  <2>1. /\ UNCHANGED <<node, tables, kv>> /\ pc' \in {"dead", "loop", "waiting"}
        /\ stage' = "none" /\ onChain' = {} /\ target' = -1
        /\ last' \in {last, -1} /\ batch' \in {batch, <<>>} /\ advanced' \in {advanced, FALSE}
        /\ astray' \subseteq astray \cup {"misread"}
    BY <1>11 DEF BootFails, VerifyFails, Crash, Misread
  <2>2. Ledger!TypeOK' /\ CheckInv'
    BY <1>1, <2>1, TablesKept, CheckIdle
  <2>3. last' \in Int /\ last' >= -1 /\ batch' \in Seq(BlockHash) /\ advanced' \in BOOLEAN
    BY <1>1, <1>2, <2>1
  <2>4. QED BY <1>1, <1>2, <2>1, <2>2, <2>3 DEF Typed, TypeOK, node, kv
<1>12. CASE FetchBatch
  <2>1. /\ UNCHANGED <<node, tables, kv, last, check, astray>> /\ advanced' = FALSE
        /\ pc = "loop" /\ pc' \in {"loop", "applying"}
    BY <1>12 DEF FetchBatch
  <2>2. Ledger!TypeOK' /\ batch' \in Seq(BlockHash) /\ stage = "none"
    BY <1>1, <1>12, <2>1, TablesKept, FetchedBatch DEF CheckInv
  <2>3. CheckInv'
    BY <1>1, <2>1, <2>2, CheckKept
  <2>4. QED BY <1>1, <2>1, <2>2, <2>3 DEF Typed, TypeOK, node, kv, check
<1>13. CASE ProcessBlock
  <2>1. PICK hash \in BlockHash : hash = Head(batch)
    BY <1>1, <1>13 DEF ProcessBlock
  <2>2. /\ pc = "applying" /\ batch # <<>> /\ batch' = Tail(batch) /\ advanced' = TRUE
        /\ UNCHANGED <<node, kv, pc, last, check, astray>>
        /\ Ledger!ApplyBlock(Len(hash), hash, BlockTxs(hash))
    BY <1>13, <2>1 DEF ProcessBlock
  <2>3. Len(hash) \in Nat /\ BlockTxs(hash) \in SUBSET Tx
    BY HashHeight, IndexerAssumption
  <2>4. Ledger!TypeOK' /\ batch' \in Seq(BlockHash) /\ stage' = "none"
    BY <1>1, <2>2, <2>3, ApplyTyped DEF CheckInv, check
  <2>5. QED BY <1>1, <2>2, <2>4, CheckIdle DEF Typed, TypeOK, node, kv, check
<1>14. CASE ProcessBlockFails
  <2>1. UNCHANGED <<node, tables, kv, pc, last, advanced, check, astray>> /\ batch' = <<>>
    BY <1>14 DEF ProcessBlockFails
  <2>2. Ledger!TypeOK' /\ CheckInv'
    BY <1>1, <2>1, TablesKept, CheckKept
  <2>3. QED BY <1>1, <1>2, <2>1, <2>2 DEF Typed, TypeOK, node, kv, check
<1>15. CASE FinishBatch
  <2>1. /\ UNCHANGED <<node, tables, kv, batch, advanced, check>> /\ pc = "applying"
        /\ pc' = "loop" /\ last' \in {last, lastHeight}
        /\ astray' \subseteq astray \cup {"misread"}
    BY <1>15 DEF FinishBatch, Misread
  <2>2. Ledger!TypeOK' /\ stage = "none" /\ last' \in Int /\ last' >= -1
    BY <1>1, <2>1, TablesKept DEF CheckInv
  <2>3. CheckInv'
    BY <1>1, <2>1, <2>2, CheckKept
  <2>4. QED BY <1>1, <2>1, <2>2, <2>3 DEF Typed, TypeOK, node, kv, check
<1>16. QED
  BY <1>3, <1>4, <1>5, <1>6, <1>7, <1>8, <1>9, <1>10, <1>11, <1>12, <1>13, <1>14, <1>15
     DEF Next, Loop

(* What has happened stays on record. *)
LEMMA AstrayGrows == [Next]_vars => astray \subseteq astray'
BY DEF Next, Loop, NodeStep, BlockLoopTick, BlockLoopOffline, StopWaiting, AskNode, CompareHashes,
       RollBack, Boot, BootFails, VerifyRecent, VerifyFails, Misread, FetchBatch, ProcessBlock,
       ProcessBlockFails, FinishBatch, Crash, vars

(* As long as no pointer is misread the task is in step with its tables. *)
LEMMA StepInStep ==
  ASSUME Typed, InStep, [Next]_vars, "misread" \notin astray'
  PROVE  InStep'
<1>1. /\ TypeOK /\ Ledger!TypeOK /\ chain \in BlockHash /\ batch \in Seq(BlockHash)
      /\ OneHashPerHeight /\ BatchFollowsPointer /\ VerifyLowers /\ PointerInStep
      /\ last \in Int /\ last >= -1 /\ lastHeight \in Int /\ lastHeight >= -1
      /\ "misread" \notin astray
  BY LedgerFacts, AstrayGrows DEF Typed, TypeOK, InStep
<1>2. CASE UNCHANGED <<tables, pc, last, batch, advanced>>
  BY <1>1, <1>2 DEF tables, InStep, OneHashPerHeight, BatchFollowsPointer, VerifyLowers,
                    PointerInStep
<1>3. CASE NodeStep \/ BlockLoopTick \/ BlockLoopOffline \/ UNCHANGED vars \/ CompareHashes
  BY <1>2, <1>3 DEF NodeStep, BlockLoopTick, BlockLoopOffline, CompareHashes, vars, task
<1>4. CASE StopWaiting \/ BootFails \/ Crash
  <2>1. UNCHANGED tables /\ pc' \in {"booting", "dead", "waiting"}
    BY <1>4 DEF StopWaiting, BootFails, Crash
  <2>2. QED BY <1>1, <2>1, TablesKept DEF InStep, BatchFollowsPointer, VerifyLowers, PointerInStep
<1>5. CASE AskNode
  <2>1. /\ UNCHANGED <<tables, last>>
        /\ \/ pc' = "booting"
           \/ pc = "loop" /\ pc' = "verifying"
    BY <1>5 DEF AskNode
  <2>2. QED BY <1>1, <2>1, TablesKept DEF InStep, BatchFollowsPointer, VerifyLowers, PointerInStep
<1>6. CASE RollBack
  <2>1. /\ UNCHANGED <<pc, last>> /\ Ledger!RollbackTo(target) /\ pc \in {"booting", "verifying"}
    BY <1>6 DEF RollBack, Typed, CheckInv
  <2>2. /\ target \in -1..lastHeight /\ target < lastHeight
    BY <1>6, TargetBelow DEF RollBack
  <2>3. OneHashPerHeight' /\ lastHeight' = target
    BY <1>1, <2>1, <2>2, RollbackRecords DEF Ledger!RollbackTo
  <2>4. VerifyLowers'
    BY <1>1, <2>1, <2>2, <2>3 DEF VerifyLowers
  <2>5. QED BY <2>1, <2>3, <2>4 DEF InStep, BatchFollowsPointer, PointerInStep
<1>7. CASE Boot \/ VerifyRecent
  <2>1. UNCHANGED tables /\ pc' = "loop" /\ last' = lastHeight
    BY <1>1, <1>7 DEF Boot, VerifyRecent, VerifyLowers
  <2>2. QED BY <1>1, <2>1, TablesKept DEF InStep, BatchFollowsPointer, VerifyLowers, PointerInStep
<1>8. CASE VerifyFails
  <2>1. UNCHANGED <<tables, last>> /\ pc' = "loop" /\ last = lastHeight
    BY <1>1, <1>8 DEF VerifyFails, Misread
  <2>2. QED BY <1>1, <2>1, TablesKept DEF InStep, BatchFollowsPointer, VerifyLowers, PointerInStep
<1>9. CASE FetchBatch
  <2>1. /\ pc = "loop" /\ UNCHANGED <<tables, last>> /\ pc' \in {"loop", "applying"}
    BY <1>9 DEF FetchBatch
  <2>2. \A i \in 1..Len(batch') : Len(batch'[i]) = last + i
    BY <1>9, FetchedBatch
  <2>3. last = lastHeight
    BY <1>1, <2>1 DEF PointerInStep
  <2>4. QED BY <1>1, <2>1, <2>2, <2>3, TablesKept
            DEF InStep, BatchFollowsPointer, VerifyLowers, PointerInStep
<1>10. CASE ProcessBlock
  <2>1. PICK hash \in BlockHash : hash = Head(batch)
    BY <1>1, <1>10 DEF ProcessBlock
  <2>2. /\ pc = "applying" /\ batch # <<>> /\ batch' = Tail(batch) /\ advanced' = TRUE
        /\ UNCHANGED <<pc, last>> /\ Ledger!ApplyBlock(Len(hash), hash, BlockTxs(hash))
    BY <1>10, <2>1 DEF ProcessBlock
  <2>3. Len(hash) = lastHeight + 1
    BY <1>1, <2>1, <2>2 DEF BatchFollowsPointer
  <2>4. Ledger!ApplyBlock(lastHeight + 1, hash, BlockTxs(hash))
    BY <2>2, <2>3
  <2>5. OneHashPerHeight' /\ lastHeight' = lastHeight + 1
    BY <1>1, <2>4, ApplyRecords DEF Ledger!ApplyBlock
  <2>6. /\ Len(batch') = Len(batch) - 1
        /\ \A i \in 1..Len(batch') : i + 1 \in 1..Len(batch) /\ batch'[i] = batch[i + 1]
    BY <1>1, <2>2
  <2>7. \A i \in 1..Len(batch') : Len(batch'[i]) = lastHeight' + i
    <3>1. \A i \in 1..Len(batch') : Len(batch'[i]) = lastHeight + (i + 1)
      BY <1>1, <2>2, <2>6 DEF BatchFollowsPointer
    <3>2. QED BY <1>1, <2>5, <2>6, <3>1
  <2>8. QED BY <2>2, <2>5, <2>7 DEF InStep, BatchFollowsPointer, VerifyLowers, PointerInStep
<1>11. CASE ProcessBlockFails
  <2>1. UNCHANGED <<tables, pc, last, advanced>> /\ pc = "applying" /\ batch' = <<>>
    BY <1>11 DEF ProcessBlockFails
  <2>2. QED BY <1>1, <2>1, TablesKept DEF InStep, BatchFollowsPointer, VerifyLowers, PointerInStep
<1>12. CASE FinishBatch
  <2>1. UNCHANGED tables /\ pc = "applying" /\ pc' = "loop"
    BY <1>12 DEF FinishBatch
  <2>2. last' = lastHeight
    BY <1>1, <1>12 DEF FinishBatch, Misread, BatchFollowsPointer
  <2>3. QED BY <1>1, <2>1, <2>2, TablesKept
            DEF InStep, BatchFollowsPointer, VerifyLowers, PointerInStep
<1>13. QED
  BY <1>3, <1>4, <1>5, <1>6, <1>7, <1>8, <1>9, <1>10, <1>11, <1>12 DEF Next, Loop

LEMMA StepInv == IInv /\ [Next]_vars => IInv'
<1> SUFFICES ASSUME IInv, [Next]_vars PROVE IInv'
  OBVIOUS
<1>1. Typed'
  BY StepTyped DEF IInv
<1>2. ASSUME "misread" \notin astray' PROVE InStep'
  BY <1>2, AstrayGrows, StepInStep DEF IInv
<1>3. QED BY <1>1, <1>2 DEF IInv

(* The type invariant of the indexer, its tables and its reorg check included:
   no misread pointer, dead task or stale answer makes a row of another shape
   than the readers expect. *)
THEOREM IndexerTyped == Spec => []TypeOK
<1>1. IInv => TypeOK
  BY DEF IInv, Typed
<1>2. QED BY <1>1, InitInv, StepInv, PTL DEF Spec

(* In the loop the task's copy of the pointer is the database's, after any
   rollback, failed block, dropped batch or restart, unless a read of the
   pointer itself has failed. *)
THEOREM PointerStaysInStep == Spec => []PointerInStep
<1>1. IInv => PointerInStep
  BY DEF IInv, InStep, PointerInStep
<1>2. QED BY <1>1, InitInv, StepInv, PTL DEF Spec

-----------------------------------------------------------------------------
(* Only the reorg check moves the pointer back. *)
LEMMA RollbackIsCheck ==
  ASSUME Typed, InStep, [Next]_vars, lastHeight' < lastHeight
  PROVE  RollBack
<1>1. lastHeight \in Int
  BY LedgerFacts DEF Typed, TypeOK
<1>2. ~ UNCHANGED tables
  BY <1>1 DEF tables
<1>3. ~ ProcessBlock
  <2> SUFFICES ASSUME ProcessBlock PROVE FALSE
    OBVIOUS
  <2>1. PICK hash \in BlockHash :
          hash = Head(batch) /\ Ledger!ApplyBlock(Len(hash), hash, BlockTxs(hash))
    BY DEF ProcessBlock, Typed, TypeOK
  <2>2. Len(hash) = lastHeight + 1
    BY <2>1 DEF ProcessBlock, Typed, TypeOK, InStep, BatchFollowsPointer
  <2>3. lastHeight' = lastHeight + 1
    BY <2>1, <2>2 DEF Ledger!ApplyBlock
  <2>4. QED BY <1>1, <2>3
<1>4. QED
  BY <1>2, <1>3 DEF Next, Loop, NodeStep, BlockLoopTick, BlockLoopOffline, StopWaiting, AskNode,
                    CompareHashes, Boot, BootFails, VerifyRecent, VerifyFails, FetchBatch,
                    FinishBatch, ProcessBlockFails, Crash, vars

LEMMA RollbackToAncestor ==
  ASSUME Typed, InStep, RollBack
  PROVE  /\ lastHeight' = target
         /\ \A a \in onChain : a.height <= target => RecordedAt(a.height) = {a.hash}
         /\ \E a \in onChain : a.height = target + 1 /\ a.hash \notin RecordedAt(a.height)
<1>1. /\ OneHashPerHeight /\ lastHeight \in Int /\ target \in Int /\ target < lastHeight
      /\ onChain \subseteq Ledger!Indexed /\ lastHeight' = target
      /\ \A h \in Mismatched : target < h
  BY LedgerFacts, TargetBelow DEF RollBack, Ledger!RollbackTo, Typed, TypeOK, InStep, CheckInv
<1>2. ASSUME NEW a \in onChain, a.height <= target
      PROVE  RecordedAt(a.height) = {a.hash}
  <2>1. a.height \in 0..lastHeight /\ a.height \in Int
    BY <1>1, <1>2 DEF Ledger!Indexed
  <2>2. a.height \notin Mismatched
    BY <1>1, <1>2, <2>1
  <2>3. \A r \in indexBlocks : r.height = a.height => r.hash = a.hash
    BY <2>2 DEF Mismatched
  <2>4. PICK r \in indexBlocks : r.height = a.height
    BY <1>1, <2>1 DEF OneHashPerHeight
  <2>5. QED BY <2>3, <2>4 DEF RecordedAt
<1>3. PICK a \in onChain, r \in indexBlocks :
        a.height = target + 1 /\ r.height = a.height /\ r.hash # a.hash
  BY TargetBelow DEF RollBack
<1>4. \A q \in indexBlocks : q.height = a.height => q = r
  BY <1>1, <1>3 DEF OneHashPerHeight
<1>5. a.hash \notin RecordedAt(a.height)
  BY <1>3, <1>4 DEF RecordedAt
<1>6. QED BY <1>1, <1>2, <1>3, <1>5

(* A rollback goes by what the node has answered, however the chain has moved
   between the answers, the comparison and the rollback: what it keeps of the
   heights answered has the hash that was read, the next height was given
   another. *)
THEOREM RollbacksFindAncestor == Spec => RollsBackToAncestor
<1>1. IInv /\ [Next]_vars =>
        [lastHeight' < lastHeight /\ "misread" \notin astray =>
           /\ \A a \in onChain : a.height <= lastHeight' => RecordedAt(a.height) = {a.hash}
           /\ \E a \in onChain :
                a.height = lastHeight' + 1 /\ a.hash \notin RecordedAt(a.height)]_vars
  BY RollbackIsCheck, RollbackToAncestor DEF IInv
<1>2. QED BY <1>1, InitInv, StepInv, PTL DEF Spec, RollsBackToAncestor

-----------------------------------------------------------------------------
(* The ledger and the hashes.  A version of the ledger is right as long as the *)
(* hashes recorded up to it are the node's: only then may it come back.        *)

\* Hash b comes after hash p on its chain, or is p.
Extends(b, p) == Len(p) <= Len(b) /\ SubSeq(b, 1, Len(p)) = p

\* The hashes recorded up to height n are those of the node's chain.
Agrees(n) ==
  n <= TipHeight /\ \A r \in indexBlocks : r.height <= n => r.hash = HashAt(r.height)

\* A hash that was read from the node is on its chain, or on the other side of
\* the one fork.
Parted(b) == \E i \in 1..Len(b) : i <= Len(chain) /\ b[i] # chain[i]
Seen(b)   == Extends(chain, b) \/ (reorgs > 0 /\ Parted(b))

HashesSeen ==
  /\ \A r \in indexBlocks : Len(r.hash) = r.height /\ Seen(r.hash)
  /\ \A i \in 1..Len(batch) : Seen(batch[i])

\* No row is from above the pointer, none was spent before it was created.
RowsGrounded ==
  /\ \A r \in utxos : r.height <= lastHeight
  /\ \A u \in undo : u.orig <= u.at /\ u.at <= lastHeight

\* A batch is a piece of one chain, and of the node's as far as that is recorded.
BatchIsPath ==
  /\ pc # "applying" => batch = <<>>
  /\ \A i, j \in 1..Len(batch) : i < j => Extends(batch[j], batch[i])
  /\ \A n \in 0..lastHeight : Agrees(n) =>
       \A i \in 1..Len(batch) : SubSeq(batch[i], 1, n) = HashAt(n)

VersionsKept ==
  \A n \in 0..lastHeight : Agrees(n) => Ledger!Restorable(n) = UnspentAlong(HashAt(n))

ForkInv ==
  /\ reorgs \in Nat
  /\ HashesSeen /\ RowsGrounded /\ BatchIsPath /\ VersionsKept /\ LedgerMatchesHashes

(* The hashes below a hash are its prefixes. *)
LEMMA PrefixOfHash ==
  ASSUME NEW b \in BlockHash, NEW n \in 0..Len(b)
  PROVE  /\ SubSeq(b, 1, n) \in BlockHash /\ Len(SubSeq(b, 1, n)) = n
         /\ SubSeq(b, 1, Len(b)) = b
         /\ \A h \in 0..n : SubSeq(SubSeq(b, 1, n), 1, h) = SubSeq(b, 1, h)
<1>1. b \in Seq(Tag) /\ Len(b) <= MaxChain /\ Len(b) \in Nat
  BY HashIsPath
<1>2. PICK p \in Seq(Tag) : p = SubSeq(b, 1, n) /\ Len(p) = n /\ \A i \in 1..n : p[i] = b[i]
  <2> DEFINE q == SubSeq(b, 1, n)
  <2>1. q \in Seq(Tag) /\ Len(q) = n
    BY <1>1
  <2>2. \A i \in 1..n : q[i] = b[i]
    BY <1>1
  <2>3. QED BY <2>1, <2>2
<1>3. p \in BlockHash
  BY <1>1, <1>2, HashIsPath, ChainAssumption
<1>4. SubSeq(b, 1, Len(b)) = b
  BY <1>1
<1>5. ASSUME NEW h \in 0..n PROVE SubSeq(p, 1, h) = SubSeq(b, 1, h)
  <2>1. /\ SubSeq(p, 1, h) \in Seq(Tag) /\ Len(SubSeq(p, 1, h)) = h
        /\ \A i \in 1..h : SubSeq(p, 1, h)[i] = p[i]
    BY <1>1, <1>2
  <2>2. /\ SubSeq(b, 1, h) \in Seq(Tag) /\ Len(SubSeq(b, 1, h)) = h
        /\ \A i \in 1..h : SubSeq(b, 1, h)[i] = b[i]
    BY <1>1
  <2>3. \A i \in 1..h : i \in 1..n
    BY <1>1
  <2>4. QED BY <1>2, <2>1, <2>2, <2>3
<1>6. QED BY <1>2, <1>3, <1>4, <1>5

(* The UTXO set of a chain, row by row. *)
LEMMA UnspentRows ==
  ASSUME NEW hash \in BlockHash
  PROVE  \A r : r \in UnspentAlong(hash) <=>
           /\ r \in [out : Creditable, height : 0..Len(hash)]
           /\ \E t \in BlockTxs(SubSeq(hash, 1, r.height)) : r.out \in Credited(t)
           /\ \A h \in 0..Len(hash) : \A t \in BlockTxs(SubSeq(hash, 1, h)) : r.out \notin Inputs[t]
<1>1. ASSUME NEW h \in 0..Len(hash)
      PROVE  SubSeq(hash, 1, h) \in BlockHash /\ BlockTxs(SubSeq(hash, 1, h)) \subseteq Tx
  <2>1. SubSeq(hash, 1, h) \in BlockHash
    BY PrefixOfHash
  <2>2. QED BY <2>1, IndexerAssumption
<1>2. QED BY <1>1 DEF UnspentAlong

(* Along a chain an outpoint is created once. *)
LEMMA CreatedOnce ==
  ASSUME NEW hash \in BlockHash, NEW i \in 0..Len(hash), NEW j \in 0..Len(hash),
         NEW t \in BlockTxs(SubSeq(hash, 1, i)), NEW u \in BlockTxs(SubSeq(hash, 1, j)),
         Credited(t) \cap Credited(u) # {}
  PROVE  i = j
<1>1. i \in Int /\ j \in Int
  BY HashHeight
<1>2. \A h \in 0..Len(hash) : BlockTxs(SubSeq(hash, 1, h)) \subseteq Tx
  <2> SUFFICES ASSUME NEW h \in 0..Len(hash) PROVE BlockTxs(SubSeq(hash, 1, h)) \subseteq Tx
    OBVIOUS
  <2>1. SubSeq(hash, 1, h) \in BlockHash
    BY PrefixOfHash
  <2>2. QED BY <2>1, IndexerAssumption
<1>3. t \in Tx /\ u \in Tx
  BY <1>2
<1>4. t = u
  BY <1>3, TransactionAssumption DEF Credited
<1>5. ~ (i < j) /\ ~ (j < i)
  BY <1>4, ChainedTransactions
<1>6. QED BY <1>1, <1>5

LEMMA UnspentOnce ==
  ASSUME NEW hash \in BlockHash, NEW r \in UnspentAlong(hash), NEW s \in UnspentAlong(hash),
         r.out = s.out
  PROVE  r = s
<1>1. /\ r \in [out : Creditable, height : 0..Len(hash)]
      /\ s \in [out : Creditable, height : 0..Len(hash)]
      /\ \E t \in BlockTxs(SubSeq(hash, 1, r.height)) : r.out \in Credited(t)
      /\ \E t \in BlockTxs(SubSeq(hash, 1, s.height)) : s.out \in Credited(t)
  BY UnspentRows
<1>2. PICK t \in BlockTxs(SubSeq(hash, 1, r.height)) : r.out \in Credited(t)
  BY <1>1
<1>3. PICK u \in BlockTxs(SubSeq(hash, 1, s.height)) : s.out \in Credited(u)
  BY <1>1
<1>4. r.height \in 0..Len(hash) /\ s.height \in 0..Len(hash)
  BY <1>1
<1>5. r.height = s.height
  BY <1>2, <1>3, <1>4, CreatedOnce
<1>6. QED BY <1>1, <1>5

NewRows(b) == {[out |-> o, height |-> Len(b)] : o \in CreatedBy(BlockTxs(b))}

(* What a block adds to the UTXO set of the chain it comes on. *)
LEMMA UnspentGrows ==
  ASSUME NEW b \in BlockHash, NEW p \in BlockHash, Len(b) = Len(p) + 1,
         SubSeq(b, 1, Len(p)) = p
  PROVE  /\ \A r \in UnspentAlong(p) : r.out \notin CreatedBy(BlockTxs(b))
         /\ \A r : r \in UnspentAlong(b) <=>
              /\ r.out \notin SpentBy(BlockTxs(b))
              /\ r \in NewRows(b) \/ r \in UnspentAlong(p)
<1>1. Len(p) \in Nat /\ Len(b) \in Nat /\ 0..Len(b) = 0..Len(p) \cup {Len(b)}
  BY HashHeight
<1>2. /\ SubSeq(b, 1, Len(b)) = b
      /\ \A h \in 0..Len(p) : SubSeq(p, 1, h) = SubSeq(b, 1, h)
  <2>1. Len(p) \in 0..Len(b)
    BY <1>1
  <2>2. QED BY <2>1, PrefixOfHash
<1>3. \A r \in UnspentAlong(p) : r.out \notin CreatedBy(BlockTxs(b))
  <2> SUFFICES ASSUME NEW r \in UnspentAlong(p), r.out \in CreatedBy(BlockTxs(b)) PROVE FALSE
    OBVIOUS
  <2>1. r.height \in 0..Len(p) /\ \E t \in BlockTxs(SubSeq(p, 1, r.height)) : r.out \in Credited(t)
    BY UnspentRows
  <2>2. PICK t \in BlockTxs(SubSeq(b, 1, r.height)) : r.out \in Credited(t)
    BY <1>2, <2>1
  <2>3. PICK u \in BlockTxs(SubSeq(b, 1, Len(b))) : r.out \in Credited(u)
    BY <1>2 DEF CreatedBy
  <2>4. r.height \in 0..Len(b) /\ Len(b) \in 0..Len(b)
    BY <1>1, <2>1
  <2>5. r.height = Len(b)
    BY <2>2, <2>3, <2>4, CreatedOnce
  <2>6. QED BY <1>1, <2>1, <2>5
<1>4. ASSUME NEW r, r \in UnspentAlong(b)
      PROVE  /\ r.out \notin SpentBy(BlockTxs(b))
             /\ r \in NewRows(b) \/ r \in UnspentAlong(p)
  <2>1. /\ r \in [out : Creditable, height : 0..Len(b)]
        /\ \E t \in BlockTxs(SubSeq(b, 1, r.height)) : r.out \in Credited(t)
        /\ \A h \in 0..Len(b) : \A t \in BlockTxs(SubSeq(b, 1, h)) : r.out \notin Inputs[t]
    BY <1>4, UnspentRows
  <2>2. r.out \notin SpentBy(BlockTxs(b))
    BY <1>1, <1>2, <2>1 DEF SpentBy
  <2>3. CASE r.height = Len(b)
    <3>1. r.out \in CreatedBy(BlockTxs(b))
      BY <1>2, <2>1, <2>3 DEF CreatedBy
    <3>2. r = [out |-> r.out, height |-> Len(b)]
      BY <2>1, <2>3
    <3>3. QED BY <2>2, <3>1, <3>2 DEF NewRows
  <2>4. CASE r.height # Len(b)
    <3>1. r.height \in 0..Len(p) /\ r \in [out : Creditable, height : 0..Len(p)]
      BY <1>1, <2>1, <2>4
    <3>2. \E t \in BlockTxs(SubSeq(p, 1, r.height)) : r.out \in Credited(t)
      BY <1>2, <2>1, <3>1
    <3>3. \A h \in 0..Len(p) : \A t \in BlockTxs(SubSeq(p, 1, h)) : r.out \notin Inputs[t]
      BY <1>1, <1>2, <2>1
    <3>4. r \in UnspentAlong(p)
      BY <3>1, <3>2, <3>3, UnspentRows
    <3>5. QED BY <2>2, <3>4
  <2>5. QED BY <2>3, <2>4
<1>5. ASSUME NEW r, r.out \notin SpentBy(BlockTxs(b)), r \in NewRows(b)
      PROVE  r \in UnspentAlong(b)
  <2>1. PICK o \in CreatedBy(BlockTxs(b)) : r = [out |-> o, height |-> Len(b)]
    BY <1>5 DEF NewRows
  <2>2. PICK u \in BlockTxs(b) : o \in Credited(u)
    BY DEF CreatedBy
  <2>3. r.out = o /\ r.height = Len(b) /\ r \in [out : Creditable, height : 0..Len(b)]
    BY <1>1, <2>1, <2>2 DEF Credited
  <2>4. \E t \in BlockTxs(SubSeq(b, 1, r.height)) : r.out \in Credited(t)
    BY <1>2, <2>2, <2>3
  <2>5. ASSUME NEW h \in 0..Len(b), NEW t \in BlockTxs(SubSeq(b, 1, h)) PROVE r.out \notin Inputs[t]
    <3>1. CASE h = Len(b)
      BY <1>2, <1>5, <2>5, <3>1 DEF SpentBy
    <3>2. CASE h # Len(b)
      <4>1. h < Len(b) /\ Len(b) \in 0..Len(b) /\ u \in BlockTxs(SubSeq(b, 1, Len(b)))
        <5>1. PICK l \in Nat : l = Len(b)
          BY <1>1
        <5>2. h \in 0..l /\ h # l
          BY <3>2, <5>1
        <5>3. h < l /\ l \in 0..l
          BY <5>2
        <5>4. QED BY <1>2, <5>1, <5>3
      <4>2. Inputs[t] \cap Outputs[u] = {}
        BY <4>1, ChainedTransactions
      <4>3. QED BY <2>2, <2>3, <4>2 DEF Credited
    <3>3. QED BY <3>1, <3>2
  <2>6. QED BY <2>3, <2>4, <2>5, UnspentRows
<1>6. ASSUME NEW r, r.out \notin SpentBy(BlockTxs(b)), r \in UnspentAlong(p)
      PROVE  r \in UnspentAlong(b)
  <2>1. /\ r \in [out : Creditable, height : 0..Len(p)]
        /\ \E t \in BlockTxs(SubSeq(p, 1, r.height)) : r.out \in Credited(t)
        /\ \A h \in 0..Len(p) : \A t \in BlockTxs(SubSeq(p, 1, h)) : r.out \notin Inputs[t]
    BY <1>6, UnspentRows
  <2>2. r \in [out : Creditable, height : 0..Len(b)] /\ r.height \in 0..Len(p)
    BY <1>1, <2>1
  <2>3. \E t \in BlockTxs(SubSeq(b, 1, r.height)) : r.out \in Credited(t)
    BY <1>2, <2>1, <2>2
  <2>4. ASSUME NEW h \in 0..Len(b), NEW t \in BlockTxs(SubSeq(b, 1, h)) PROVE r.out \notin Inputs[t]
    <3>1. CASE h = Len(b)
      BY <1>2, <1>6, <2>4, <3>1 DEF SpentBy
    <3>2. CASE h # Len(b)
      BY <1>1, <1>2, <2>1, <2>4, <3>2
    <3>3. QED BY <3>1, <3>2
  <2>5. QED BY <2>2, <2>3, <2>4, UnspentRows
<1>7. QED BY <1>3, <1>4, <1>5, <1>6

(* The genesis block's. *)
LEMMA UnspentAtGenesis ==
  ASSUME NEW b \in BlockHash, Len(b) = 0
  PROVE  \A r : r \in UnspentAlong(b) <=> r.out \notin SpentBy(BlockTxs(b)) /\ r \in NewRows(b)
<1>1. SubSeq(b, 1, 0) = b
  <2>1. 0 \in 0..Len(b)
    OBVIOUS
  <2>2. QED BY <2>1, PrefixOfHash
<1>2. \A r : r \in UnspentAlong(b) <=>
        /\ r \in [out : Creditable, height : {0}]
        /\ \E t \in BlockTxs(b) : r.out \in Credited(t)
        /\ \A t \in BlockTxs(b) : r.out \notin Inputs[t]
  <2>1. 0..Len(b) = {0}
    OBVIOUS
  <2>2. QED BY <1>1, <2>1, UnspentRows
<1>3. QED BY <1>2 DEF NewRows, CreatedBy, SpentBy, Credited

(* The tables after a block, row by row. *)
LEMMA ApplyRows ==
  ASSUME Ledger!TypeOK, RowsGrounded, NEW b \in BlockHash, Len(b) = lastHeight + 1,
         Ledger!ApplyBlock(Len(b), b, BlockTxs(b))
  PROVE  /\ \A r : r \in utxos' <=>
              /\ r.out \notin SpentBy(BlockTxs(b))
              /\ \/ r \in NewRows(b)
                 \/ r \in utxos /\ r.out \notin CreatedBy(BlockTxs(b))
         /\ \A u : u \in undo' <=>
              \/ u \in undo
              \/ \E r : /\ r.out \in SpentBy(BlockTxs(b))
                        /\ \/ r \in NewRows(b)
                           \/ r \in utxos /\ r.out \notin CreatedBy(BlockTxs(b))
                        /\ u = [at |-> Len(b), out |-> r.out, orig |-> r.height]
         /\ lastHeight' = Len(b)
<1> DEFINE txs == BlockTxs(b)
           made == CreatedBy(txs)
           taken == SpentBy(txs)
           h == Len(b)
<1>1. Ledger!CreatedBy(txs) = made /\ Ledger!SpentBy(txs) = taken
  BY Zenon DEF Ledger!CreatedBy, CreatedBy, Ledger!Credited, Credited, Ledger!Creditable, Creditable,
     Ledger!SpentBy, SpentBy
<1>2. PICK present : present = Ledger!Upsert(utxos, NewRows(b), Ledger!UtxoKey)
  OBVIOUS
<1>3. PICK spent : spent = {r \in present : r.out \in taken}
  OBVIOUS
<1>4. PICK logged : logged = {[at |-> h, out |-> r.out, orig |-> r.height] : r \in spent}
  OBVIOUS
<1>5. /\ utxos' = present \ spent /\ undo' = Ledger!Upsert(undo, logged, Ledger!UndoKey)
      /\ lastHeight' = h
  <2>1. NewRows(b) = {[out |-> o, height |-> h] : o \in Ledger!CreatedBy(txs)}
    BY <1>1 DEF NewRows
  <2>2. spent = {r \in present : r.out \in Ledger!SpentBy(txs)}
    BY <1>1, <1>3
  <2>3. QED BY <1>2, <1>4, <2>1, <2>2, Zenon DEF Ledger!ApplyBlock
<1>6. \A r \in NewRows(b) : r.out \in made
  BY DEF NewRows
<1>7. \A o \in made : \E r \in NewRows(b) : r.out = o
  <2> SUFFICES ASSUME NEW o \in made PROVE \E r \in NewRows(b) : r.out = o
    OBVIOUS
  <2>1. [out |-> o, height |-> h] \in NewRows(b)
    BY Zenon DEF NewRows
  <2>2. [out |-> o, height |-> h].out = o
    OBVIOUS
  <2>3. QED BY <2>1, <2>2
<1> HIDE DEF txs, made, taken, h
<1>8. \A r : r \in present <=> (r \in NewRows(b) \/ (r \in utxos /\ r.out \notin made))
  BY <1>2, <1>6, <1>7 DEF Ledger!Upsert, Ledger!SameKey, Ledger!UtxoKey
<1>9. \A r : r \in utxos' <=> r.out \notin taken /\ (r \in NewRows(b) \/ (r \in utxos /\ r.out \notin made))
  BY <1>3, <1>5, <1>8
<1>10. \A r : r \in spent <=> r.out \in taken /\ (r \in NewRows(b) \/ (r \in utxos /\ r.out \notin made))
  BY <1>3, <1>8
<1>11. undo' = undo \cup logged
  <2>1. ASSUME NEW u \in undo, NEW v \in logged PROVE u.at # v.at
    <3>1. v.at = lastHeight + 1
      BY <1>4 DEF h
    <3>2. u.at \in Nat /\ u.at <= lastHeight /\ lastHeight \in Int
      BY LedgerFacts DEF RowsGrounded
    <3>3. QED BY <3>1, <3>2
  <2>2. QED BY <1>5, <2>1 DEF Ledger!Upsert, Ledger!SameKey, Ledger!UndoKey
<1>12. \A u : u \in logged <=> \E r \in spent : u = [at |-> h, out |-> r.out, orig |-> r.height]
  BY <1>4
<1>13. \A u : u \in undo' <=>
         \/ u \in undo
         \/ \E r : /\ r.out \in taken /\ (r \in NewRows(b) \/ (r \in utxos /\ r.out \notin made))
                   /\ u = [at |-> h, out |-> r.out, orig |-> r.height]
  BY <1>10, <1>11, <1>12
<1>14. QED BY <1>5, <1>9, <1>13 DEF txs, made, taken, h

LEMMA ApplyGrounds ==
  ASSUME Ledger!TypeOK, RowsGrounded, NEW b \in BlockHash, Len(b) = lastHeight + 1,
         Ledger!ApplyBlock(Len(b), b, BlockTxs(b))
  PROVE  RowsGrounded'
<1>1. lastHeight \in Int /\ Len(b) \in Nat /\ lastHeight' = lastHeight + 1
  BY LedgerFacts, HashHeight, ApplyRows
<1>2. \A r : r \in NewRows(b) => r.height = lastHeight + 1
  BY DEF NewRows
<1>3. \A r \in utxos : r.height \in Nat /\ r.height <= lastHeight
  BY LedgerFacts DEF RowsGrounded
<1>4. \A u \in undo : u.at \in Nat /\ u.orig \in Nat /\ u.orig <= u.at /\ u.at <= lastHeight
  BY LedgerFacts DEF RowsGrounded
<1>5. ASSUME NEW r \in utxos' PROVE r.height <= lastHeight'
  <2>1. r \in NewRows(b) \/ r \in utxos
    BY ApplyRows
  <2>2. QED BY <1>1, <1>2, <1>3, <2>1
<1>6. ASSUME NEW u \in undo' PROVE u.orig <= u.at /\ u.at <= lastHeight'
  <2>1. CASE u \in undo
    BY <1>1, <1>4, <2>1
  <2>2. CASE u \notin undo
    <3>1. PICK r : /\ r \in NewRows(b) \/ r \in utxos
                   /\ u = [at |-> Len(b), out |-> r.out, orig |-> r.height]
      BY <2>2, ApplyRows
    <3>2. u.at = lastHeight + 1 /\ u.orig = r.height
      BY <3>1
    <3>3. QED BY <1>1, <1>2, <1>3, <3>1, <3>2
  <2>3. QED BY <2>1, <2>2
<1>7. QED BY <1>5, <1>6 DEF RowsGrounded

(* A block leaves a version alone none of whose outpoints it creates again. *)
LEMMA ApplyKeepsVersion ==
  ASSUME Ledger!TypeOK, RowsGrounded, NEW b \in BlockHash, Len(b) = lastHeight + 1,
         Ledger!ApplyBlock(Len(b), b, BlockTxs(b)),
         NEW n \in 0..lastHeight,
         \A r \in Ledger!Restorable(n) : r.out \notin CreatedBy(BlockTxs(b))
  PROVE  Ledger!Restorable(n)' = Ledger!Restorable(n)
<1>1. lastHeight \in Int /\ n \in Int /\ n < Len(b)
  BY LedgerFacts
<1>2. \A r : r \in NewRows(b) => ~ (r.height <= n)
  BY <1>1 DEF NewRows
<1>3. \A r : r \in Ledger!Restorable(n) <=>
        \/ r \in utxos /\ r.height <= n
        \/ \E u \in undo : u.at > n /\ u.orig <= n /\ r = [out |-> u.out, height |-> u.orig]
  BY DEF Ledger!Restorable
<1>4. \A r : r \in Ledger!Restorable(n)' <=>
        \/ r \in utxos' /\ r.height <= n
        \/ \E u \in undo' : u.at > n /\ u.orig <= n /\ r = [out |-> u.out, height |-> u.orig]
  BY DEF Ledger!Restorable
<1>5. ASSUME NEW r, r \in Ledger!Restorable(n) PROVE r \in Ledger!Restorable(n)'
  <2>1. CASE r \in utxos /\ r.height <= n
    <3>1. r.out \notin CreatedBy(BlockTxs(b))
      BY <1>5
    <3>2. CASE r.out \notin SpentBy(BlockTxs(b))
      BY <1>4, <2>1, <3>1, <3>2, ApplyRows
    <3>3. CASE r.out \in SpentBy(BlockTxs(b))
      <4>1. PICK u : u = [at |-> Len(b), out |-> r.out, orig |-> r.height]
        OBVIOUS
      <4>2. u \in undo' /\ u.at > n /\ u.orig <= n
        BY <1>1, <2>1, <3>1, <3>3, <4>1, ApplyRows
      <4>3. r = [out |-> u.out, height |-> u.orig]
        BY <2>1, <4>1 DEF Ledger!TypeOK, Ledger!Utxo
      <4>4. QED BY <1>4, <4>2, <4>3
    <3>4. QED BY <3>2, <3>3
  <2>2. CASE \E u \in undo : u.at > n /\ u.orig <= n /\ r = [out |-> u.out, height |-> u.orig]
    BY <1>4, <2>2, ApplyRows
  <2>3. QED BY <1>3, <1>5, <2>1, <2>2
<1>6. ASSUME NEW r, r \in Ledger!Restorable(n)' PROVE r \in Ledger!Restorable(n)
  <2>1. CASE r \in utxos' /\ r.height <= n
    BY <1>2, <1>3, <2>1, ApplyRows
  <2>2. CASE \E u \in undo' : u.at > n /\ u.orig <= n /\ r = [out |-> u.out, height |-> u.orig]
    <3>1. PICK u \in undo' : u.at > n /\ u.orig <= n /\ r = [out |-> u.out, height |-> u.orig]
      BY <2>2
    <3>2. CASE u \in undo
      BY <1>3, <3>1, <3>2
    <3>3. CASE u \notin undo
      <4>1. PICK s : /\ s \in NewRows(b) \/ s \in utxos
                     /\ u = [at |-> Len(b), out |-> s.out, orig |-> s.height]
        BY <3>3, ApplyRows
      <4>2. s.height <= n
        BY <3>1, <4>1
      <4>3. s \in utxos
        BY <1>2, <4>1, <4>2
      <4>4. r = s
        BY <3>1, <4>1, <4>3 DEF Ledger!TypeOK, Ledger!Utxo
      <4>5. QED BY <1>3, <4>2, <4>3, <4>4
    <3>4. QED BY <3>2, <3>3
  <2>3. QED BY <1>4, <1>6, <2>1, <2>2
<1>7. QED BY <1>5, <1>6

(* The top version is the table of unspent outputs. *)
LEMMA TopVersion ==
  ASSUME Ledger!TypeOK, RowsGrounded
  PROVE  Ledger!Restorable(lastHeight) = utxos
<1>1. \A r \in utxos : r.height <= lastHeight
  BY DEF RowsGrounded
<1>2. \A u \in undo : ~ (u.at > lastHeight)
  BY LedgerFacts DEF RowsGrounded
<1>3. QED BY <1>1, <1>2 DEF Ledger!Restorable

(* A rollback brings a version back that has one row of an outpoint, and keeps *)
(* those below it.                                                             *)
LEMMA RollbackRestores ==
  ASSUME Ledger!TypeOK, RowsGrounded, NEW n \in -1..lastHeight, Ledger!RollbackTo(n),
         \A r, s \in Ledger!Restorable(n) : r.out = s.out => r = s
  PROVE  /\ RowsGrounded' /\ lastHeight' = n /\ utxos' = Ledger!Restorable(n)
         /\ \A m \in 0..n : Ledger!Restorable(m)' = Ledger!Restorable(m)
<1> DEFINE restored == {[out |-> u.out, height |-> u.orig] :
                          u \in {u \in undo : u.at > n /\ u.orig <= n}}
           kept == {r \in utxos : r.height <= n}
<1>1. /\ utxos' = Ledger!Upsert(kept, restored, Ledger!UtxoKey)
      /\ undo' = {u \in undo : u.at <= n} /\ lastHeight' = n
  BY DEF Ledger!RollbackTo
<1>2. Ledger!Restorable(n) = kept \cup restored
  BY DEF Ledger!Restorable
<1>3. lastHeight \in Int /\ n \in Int /\ n <= lastHeight
  BY LedgerFacts
<1>4. /\ \A r \in utxos : r.height \in Nat
      /\ \A u \in undo : u.at \in Nat /\ u.orig \in Nat /\ u.orig <= u.at
  BY LedgerFacts DEF RowsGrounded
<1>5. \A r \in kept : r.height <= n
  OBVIOUS
<1>6. \A r : r \in restored <=>
        \E u \in undo : u.at > n /\ u.orig <= n /\ r = [out |-> u.out, height |-> u.orig]
  OBVIOUS
<1>7. \A r : r \in kept <=> r \in utxos /\ r.height <= n
  OBVIOUS
<1> HIDE DEF restored, kept
<1>8. utxos' = Ledger!Restorable(n)
  BY <1>1, <1>2 DEF Ledger!Upsert, Ledger!SameKey, Ledger!UtxoKey
<1>9. \A r \in utxos' : r.height <= n
  BY <1>2, <1>6, <1>7, <1>8
<1>10. RowsGrounded'
  BY <1>1, <1>4, <1>9 DEF RowsGrounded
<1>11. ASSUME NEW m \in 0..n PROVE Ledger!Restorable(m)' = Ledger!Restorable(m)
  <2>1. \A r : r \in Ledger!Restorable(m) <=>
          \/ r \in utxos /\ r.height <= m
          \/ \E u \in undo : u.at > m /\ u.orig <= m /\ r = [out |-> u.out, height |-> u.orig]
    BY DEF Ledger!Restorable
  <2>2. \A r : r \in Ledger!Restorable(m)' <=>
          \/ r \in utxos' /\ r.height <= m
          \/ \E u \in undo' : u.at > m /\ u.orig <= m /\ r = [out |-> u.out, height |-> u.orig]
    BY DEF Ledger!Restorable
  <2>3. \A x \in Nat : x <= m => x <= n
    BY <1>3
  <2>4. \A x \in Nat : x > n => x > m
    BY <1>3
  <2>5. ASSUME NEW r, r \in Ledger!Restorable(m) PROVE r \in Ledger!Restorable(m)'
    <3>1. CASE r \in utxos /\ r.height <= m
      <4>1. r \in kept
        BY <1>4, <1>7, <2>3, <3>1
      <4>2. QED BY <1>2, <1>8, <2>2, <3>1, <4>1
    <3>2. CASE \E u \in undo : u.at > m /\ u.orig <= m /\ r = [out |-> u.out, height |-> u.orig]
      <4>1. PICK u \in undo : u.at > m /\ u.orig <= m /\ r = [out |-> u.out, height |-> u.orig]
        BY <3>2
      <4>2. CASE u.at <= n
        BY <1>1, <2>2, <4>1, <4>2
      <4>3. CASE ~ (u.at <= n)
        <5>1. u.at > n /\ u.orig <= n
          BY <1>3, <1>4, <2>3, <4>1, <4>3
        <5>2. r \in utxos' /\ r.height <= m
          BY <1>2, <1>6, <1>8, <4>1, <5>1
        <5>3. QED BY <2>2, <5>2
      <4>4. QED BY <4>2, <4>3
    <3>3. QED BY <2>1, <2>5, <3>1, <3>2
  <2>6. ASSUME NEW r, r \in Ledger!Restorable(m)' PROVE r \in Ledger!Restorable(m)
    <3>1. CASE r \in utxos' /\ r.height <= m
      <4>1. CASE r \in kept
        BY <1>7, <2>1, <3>1, <4>1
      <4>2. CASE r \notin kept
        <5>1. PICK u \in undo : u.at > n /\ u.orig <= n /\ r = [out |-> u.out, height |-> u.orig]
          BY <1>2, <1>6, <1>8, <3>1, <4>2
        <5>2. u.orig <= m /\ u.at > m
          BY <1>4, <2>4, <3>1, <5>1
        <5>3. QED BY <2>1, <5>1, <5>2
      <4>3. QED BY <4>1, <4>2
    <3>2. CASE \E u \in undo' : u.at > m /\ u.orig <= m /\ r = [out |-> u.out, height |-> u.orig]
      BY <1>1, <2>1, <3>2
    <3>3. QED BY <2>2, <2>6, <3>1, <3>2
  <2>7. QED BY <2>5, <2>6
<1>12. QED BY <1>1, <1>8, <1>10, <1>11

(* Sequences that agree up to h have the same prefix of length h. *)
LEMMA PrefixesEqual ==
  ASSUME NEW S, NEW s \in Seq(S), NEW t \in Seq(S), NEW h \in 0..Len(s), h \in 0..Len(t),
         \A i \in 1..h : s[i] = t[i]
  PROVE  SubSeq(s, 1, h) = SubSeq(t, 1, h)
<1>1. /\ SubSeq(s, 1, h) \in Seq(S) /\ Len(SubSeq(s, 1, h)) = h
      /\ \A i \in 1..h : SubSeq(s, 1, h)[i] = s[i]
  OBVIOUS
<1>2. /\ SubSeq(t, 1, h) \in Seq(S) /\ Len(SubSeq(t, 1, h)) = h
      /\ \A i \in 1..h : SubSeq(t, 1, h)[i] = t[i]
  OBVIOUS
<1>3. QED BY <1>1, <1>2

(* What a node step leaves of its chain, and of what was read from it.  With *)
(* one reorganization at most, a hash seen before the step is below the fork *)
(* or is not on the new chain.                                               *)
LEMMA NodeForks ==
  ASSUME chain \in BlockHash, reorgs \in Nat, reorgs' <= 1, Extend \/ Reorg
  PROVE  \E f \in 0..Len(chain) :
           /\ f <= Len(chain') /\ SubSeq(chain', 1, f) = SubSeq(chain, 1, f)
           /\ \A b \in BlockHash : Seen(b) =>
                /\ Seen(b)'
                /\ (f < Len(b) /\ Len(b) <= Len(chain')) => SubSeq(chain', 1, Len(b)) # b
<1>1. chain \in Seq(Tag) /\ Len(chain) \in Nat
  BY HashIsPath
<1>2. \A b \in BlockHash : b \in Seq(Tag) /\ Len(b) \in Nat
  BY HashIsPath
<1>3. CASE Extend
  <2>1. PICK t \in Tag : chain' = Append(chain, t) /\ reorgs' = reorgs
    BY <1>3 DEF Extend
  <2>2. /\ chain' \in Seq(Tag) /\ Len(chain') = Len(chain) + 1
        /\ \A i \in 1..Len(chain) : chain'[i] = chain[i]
    BY <1>1, <2>1
  <2>3. \A h \in 0..Len(chain) : SubSeq(chain', 1, h) = SubSeq(chain, 1, h)
    <3> SUFFICES ASSUME NEW h \in 0..Len(chain)
                 PROVE  SubSeq(chain', 1, h) = SubSeq(chain, 1, h)
      OBVIOUS
    <3>1. QED BY <1>1, <2>2, PrefixesEqual
  <2>4. ASSUME NEW b \in BlockHash, Seen(b)
        PROVE  /\ Seen(b)'
               /\ (Len(chain) < Len(b) /\ Len(b) <= Len(chain')) => SubSeq(chain', 1, Len(b)) # b
    <3>1. CASE Extends(chain, b)
      <4>1. Len(b) \in 0..Len(chain) /\ SubSeq(chain, 1, Len(b)) = b /\ ~ (Len(chain) < Len(b))
        BY <1>1, <1>2, <3>1 DEF Extends
      <4>2. Len(b) <= Len(chain') /\ SubSeq(chain', 1, Len(b)) = b
        BY <1>1, <2>2, <2>3, <4>1
      <4>3. QED BY <4>1, <4>2 DEF Seen, Extends
    <3>2. CASE ~ Extends(chain, b)
      <4>1. reorgs > 0
        BY <2>4, <3>2 DEF Seen
      <4>2. PICK i \in 1..Len(b) : i <= Len(chain) /\ b[i] # chain[i]
        BY <2>4, <3>2 DEF Seen, Parted
      <4>3. i <= Len(chain') /\ b[i] # chain'[i]
        BY <1>1, <1>2, <2>2, <4>2
      <4>4. Len(b) <= Len(chain') => SubSeq(chain', 1, Len(b))[i] = chain'[i]
        BY <1>2, <2>2
      <4>5. QED BY <2>1, <4>1, <4>3, <4>4 DEF Seen, Parted
    <3>3. QED BY <3>1, <3>2
  <2>5. Len(chain) \in 0..Len(chain) /\ Len(chain) <= Len(chain')
    BY <1>1, <2>2
  <2>6. QED BY <2>3, <2>4, <2>5
<1>4. CASE Reorg
  <2>1. reorgs = 0 /\ reorgs' > 0
    BY <1>4, ChainAssumption DEF Reorg
  <2>2. PICK d \in 1..MaxReorgDepth :
          /\ d <= TipHeight
          /\ \E fork \in [1..(d + 1) -> Tag] :
               fork[1] # chain[TipHeight - d + 1] /\ chain' = HashAt(TipHeight - d) \o fork
    BY <1>4 DEF Reorg
  <2>3. PICK fork \in [1..(d + 1) -> Tag] :
          fork[1] # chain[TipHeight - d + 1] /\ chain' = HashAt(TipHeight - d) \o fork
    BY <2>2
  <2>4. PICK f \in 0..Len(chain) : f = TipHeight - d
    BY <1>1, <2>2, ChainAssumption DEF TipHeight
  <2>5. f + 1 \in 1..Len(chain)
    BY <1>1, <2>2, <2>4, ChainAssumption DEF TipHeight
  <2>6. PICK kept \in Seq(Tag) : kept = SubSeq(chain, 1, f) /\ Len(kept) = f
    <3>1. SubSeq(chain, 1, f) \in Seq(Tag) /\ Len(SubSeq(chain, 1, f)) = f
      BY <1>1
    <3>2. QED BY <3>1
  <2>7. fork \in Seq(Tag) /\ Len(fork) = d + 1 /\ d + 1 \in Nat /\ d + 1 >= 1
    BY ChainAssumption
  <2>8. chain' = kept \o fork
    BY <2>3, <2>4, <2>6 DEF HashAt
  <2>9. /\ chain' \in Seq(Tag) /\ Len(chain') = f + (d + 1)
        /\ \A i \in 1..f : chain'[i] = kept[i]
        /\ chain'[f + 1] = fork[1]
    <3>1. /\ kept \o fork \in Seq(Tag) /\ Len(kept \o fork) = Len(kept) + Len(fork)
          /\ \A i \in 1..(Len(kept) + Len(fork)) :
               (kept \o fork)[i] = IF i <= Len(kept) THEN kept[i] ELSE fork[i - Len(kept)]
      BY <2>6, <2>7, ConcatProperties
    <3>2. f \in Nat /\ f + 1 \in 1..(f + (d + 1)) /\ ~ (f + 1 <= f) /\ (f + 1) - f = 1
      BY <2>7
    <3>3. \A i \in 1..f : i \in 1..(f + (d + 1)) /\ i <= f
      BY <2>7
    <3>4. Len(kept) = f /\ Len(fork) = d + 1
      BY <2>6, <2>7
    <3>5. \A i \in 1..(f + (d + 1)) : (kept \o fork)[i] = IF i <= f THEN kept[i] ELSE fork[i - f]
      BY <3>1, <3>4
    <3>6. chain'[f + 1] = fork[1]
      BY <2>8, <3>2, <3>5
    <3>7. \A i \in 1..f : chain'[i] = kept[i]
      BY <2>8, <3>3, <3>5
    <3>8. QED BY <2>8, <3>1, <3>4, <3>6, <3>7
  <2>10. /\ f <= Len(chain') /\ f + 1 <= Len(chain') /\ Len(chain') \in Nat
    BY <2>7, <2>9
  <2>11. \A i \in 1..f : chain'[i] = chain[i]
    BY <1>1, <2>6, <2>9
  <2>12. \A h \in 0..f : SubSeq(chain', 1, h) = SubSeq(chain, 1, h)
    <3> SUFFICES ASSUME NEW h \in 0..f PROVE SubSeq(chain', 1, h) = SubSeq(chain, 1, h)
      OBVIOUS
    <3>1. h \in 0..Len(chain) /\ h \in 0..Len(chain') /\ \A i \in 1..h : i \in 1..f
      BY <1>1, <2>10
    <3>2. QED BY <1>1, <2>9, <2>11, <3>1, PrefixesEqual
  <2>13. chain[f + 1] # chain'[f + 1]
    BY <2>3, <2>4, <2>9
  <2>14. ASSUME NEW b \in BlockHash, Seen(b)
         PROVE  /\ Seen(b)'
                /\ (f < Len(b) /\ Len(b) <= Len(chain')) => SubSeq(chain', 1, Len(b)) # b
    <3>1. Len(b) \in 0..Len(chain) /\ SubSeq(chain, 1, Len(b)) = b
      BY <1>1, <1>2, <2>1, <2>14 DEF Seen, Extends
    <3>2. CASE Len(b) <= f
      <4>1. Len(b) \in 0..f /\ Len(b) <= Len(chain') /\ ~ (f < Len(b))
        BY <1>2, <2>10, <3>2
      <4>2. SubSeq(chain', 1, Len(b)) = b
        BY <2>12, <3>1, <4>1
      <4>3. QED BY <4>1, <4>2 DEF Seen, Extends
    <3>3. CASE ~ (Len(b) <= f)
      <4>1. f + 1 \in 1..Len(b)
        BY <1>2, <3>3
      <4>2. b[f + 1] = chain[f + 1]
        BY <1>1, <3>1, <4>1
      <4>3. Seen(b)'
        BY <2>1, <2>10, <2>13, <4>1, <4>2 DEF Seen, Parted
      <4>4. Len(b) <= Len(chain') => SubSeq(chain', 1, Len(b))[f + 1] = chain'[f + 1]
        BY <1>2, <2>9, <2>10, <4>1
      <4>5. QED BY <2>13, <4>2, <4>3, <4>4
    <3>4. QED BY <3>2, <3>3
  <2>15. f \in 0..f
    OBVIOUS
  <2>16. QED BY <2>10, <2>12, <2>14, <2>15
<1>5. QED BY <1>3, <1>4

(* A height whose recorded hash is the node's keeps that agreement only below *)
(* the fork, where the node's hashes are what they were.                      *)
LEMMA NodeKeepsAgreement ==
  ASSUME Typed, InStep, ForkInv, reorgs' <= 1, Extend \/ Reorg, UNCHANGED tables,
         NEW n \in 0..lastHeight, Agrees(n)'
  PROVE  Agrees(n) /\ HashAt(n)' = HashAt(n)
<1>1. /\ chain \in Seq(Tag) /\ chain' \in Seq(Tag) /\ Len(chain) \in Nat /\ Len(chain') \in Nat
      /\ chain \in BlockHash /\ reorgs \in Nat
  BY NodeKeepsChain, HashIsPath DEF Typed, ForkInv
<1>2. PICK f \in 0..Len(chain) :
        /\ f <= Len(chain') /\ SubSeq(chain', 1, f) = SubSeq(chain, 1, f)
        /\ \A b \in BlockHash : (Seen(b) /\ f < Len(b) /\ Len(b) <= Len(chain')) =>
             SubSeq(chain', 1, Len(b)) # b
  BY <1>1, NodeForks
<1>3. /\ n <= Len(chain')
      /\ \A r \in indexBlocks : r.height <= n => r.hash = SubSeq(chain', 1, r.height)
  BY DEF Agrees, TipHeight, HashAt, tables
<1>4. n \in Nat /\ Ledger!TypeOK /\ OneHashPerHeight /\ HashesSeen
  BY LedgerFacts DEF Typed, TypeOK, InStep, ForkInv
<1>5. n <= f
  <2> SUFFICES ASSUME ~ (n <= f) PROVE FALSE
    OBVIOUS
  <2>1. PICK r \in indexBlocks : r.height = n
    BY <1>4 DEF OneHashPerHeight
  <2>2. r.hash = SubSeq(chain', 1, n) /\ r.hash \in BlockHash /\ Len(r.hash) = n /\ Seen(r.hash)
    BY <1>3, <1>4, <2>1, LedgerFacts DEF HashesSeen
  <2>3. f < n
    BY <1>4
  <2>4. QED BY <1>2, <1>3, <2>2, <2>3
<1>6. \A h \in 0..f : SubSeq(chain', 1, h) = SubSeq(chain, 1, h)
  <2>1. \A i \in 1..f : chain'[i] = chain[i]
    <3>1. \A i \in 1..f : SubSeq(chain', 1, f)[i] = chain'[i]
      BY <1>1, <1>2
    <3>2. \A i \in 1..f : SubSeq(chain, 1, f)[i] = chain[i]
      BY <1>1, <1>2
    <3>3. QED BY <1>2, <3>1, <3>2
  <2>2. ASSUME NEW h \in 0..f PROVE SubSeq(chain', 1, h) = SubSeq(chain, 1, h)
    <3>1. h \in 0..Len(chain) /\ h \in 0..Len(chain') /\ \A i \in 1..h : i \in 1..f
      BY <1>1, <1>2
    <3>2. QED BY <1>1, <2>1, <3>1, PrefixesEqual
  <2>3. QED BY <2>2
<1>7. \A r \in indexBlocks : r.height <= n => r.height \in 0..f
  BY <1>4, <1>5, LedgerFacts
<1>8. n \in 0..f /\ n <= Len(chain)
  BY <1>1, <1>4, <1>5
<1>9. QED BY <1>3, <1>6, <1>7, <1>8 DEF Agrees, TipHeight, HashAt

LEMMA NodeKeepsForkInv ==
  ASSUME Typed, InStep, ForkInv, reorgs' <= 1, NodeStep
  PROVE  ForkInv'
<1>1. /\ chain \in BlockHash /\ reorgs \in Nat
      /\ Extend \/ Reorg
      /\ UNCHANGED <<tables, pc, batch>> /\ Ledger!TypeOK /\ batch \in Seq(BlockHash)
  BY DEF Typed, TypeOK, ForkInv, NodeStep, task
<1>2. \A b \in BlockHash : Seen(b) => Seen(b)'
  <2>1. PICK f \in 0..Len(chain) :
          /\ f <= Len(chain') /\ SubSeq(chain', 1, f) = SubSeq(chain, 1, f)
          /\ \A b \in BlockHash : Seen(b) =>
               /\ Seen(b)'
               /\ (f < Len(b) /\ Len(b) <= Len(chain')) => SubSeq(chain', 1, Len(b)) # b
    BY <1>1, NodeForks
  <2>2. QED BY <2>1
<1>3. reorgs' \in Nat
  <2>1. reorgs' = reorgs \/ reorgs' = reorgs + 1
    BY <1>1 DEF Extend, Reorg
  <2>2. reorgs \in Nat
    BY <1>1
  <2>3. QED BY <2>1, <2>2
<1>4. UNCHANGED <<utxos, undo, indexBlocks, lastHeight>>
  BY <1>1 DEF tables
<1>5. HashesSeen'
  <2>1. \A r \in indexBlocks : Len(r.hash) = r.height /\ Seen(r.hash) /\ r.hash \in BlockHash
    BY <1>1, LedgerFacts DEF ForkInv, HashesSeen
  <2>2. \A i \in 1..Len(batch) : Seen(batch[i]) /\ batch[i] \in BlockHash
    BY <1>1 DEF ForkInv, HashesSeen
  <2>3. QED BY <1>1, <1>2, <1>4, <2>1, <2>2 DEF HashesSeen
<1>6. RowsGrounded'
  BY <1>4 DEF ForkInv, RowsGrounded
<1>7. \A n \in 0..lastHeight : Agrees(n)' => Agrees(n) /\ HashAt(n)' = HashAt(n)
  BY <1>1, NodeKeepsAgreement
<1>8. BatchIsPath'
  <2>1. \A n \in 0..lastHeight' : Agrees(n)' =>
          \A i \in 1..Len(batch') : SubSeq(batch'[i], 1, n) = HashAt(n)'
    BY <1>1, <1>4, <1>7 DEF ForkInv, BatchIsPath
  <2>2. QED BY <1>1, <2>1 DEF ForkInv, BatchIsPath, Extends
<1>9. VersionsKept'
  <2>1. \A n : Ledger!Restorable(n)' = Ledger!Restorable(n)
    BY <1>4 DEF Ledger!Restorable
  <2>2. QED BY <1>4, <1>7, <2>1 DEF ForkInv, VersionsKept, UnspentAlong
<1>10. LedgerMatchesHashes'
  BY <1>4 DEF ForkInv, LedgerMatchesHashes, RecordedAt, UnspentAlong
<1>11. QED BY <1>3, <1>5, <1>6, <1>8, <1>9, <1>10 DEF ForkInv

(* A step that leaves the node and the tables alone, and the batch unless it *)
(* drops it.                                                                 *)
LEMMA OthersKeepForkInv ==
  ASSUME ForkInv, UNCHANGED <<node, tables>>,
         \/ batch' = batch /\ (pc' # "applying" => batch = <<>>)
         \/ batch' = <<>>
  PROVE  ForkInv'
<1>1. UNCHANGED <<chain, reorgs, utxos, undo, indexBlocks, lastHeight>>
  BY DEF node, tables
<1>2. 1..Len(<<>>) = {}
  OBVIOUS
<1>3. \A i \in 1..Len(batch') : i \in 1..Len(batch) /\ batch'[i] = batch[i]
  BY <1>2
<1>4. \A b : Seen(b)' = Seen(b)
  BY <1>1 DEF Seen, Extends, Parted
<1>5. HashesSeen'
  BY <1>1, <1>3, <1>4 DEF ForkInv, HashesSeen
<1>6. RowsGrounded'
  BY <1>1 DEF ForkInv, RowsGrounded
<1>7. \A n : Agrees(n)' = Agrees(n) /\ HashAt(n)' = HashAt(n)
  BY <1>1 DEF Agrees, TipHeight, HashAt
<1>8. BatchIsPath'
  <2>1. pc' # "applying" => batch' = <<>>
    OBVIOUS
  <2>2. \A i, j \in 1..Len(batch') : i < j => Extends(batch'[j], batch'[i])
    BY <1>3 DEF ForkInv, BatchIsPath
  <2>3. \A n \in 0..lastHeight : Agrees(n) =>
          \A i \in 1..Len(batch') : SubSeq(batch'[i], 1, n) = HashAt(n)
    BY <1>3 DEF ForkInv, BatchIsPath
  <2>4. QED BY <1>1, <1>7, <2>1, <2>2, <2>3 DEF BatchIsPath, Extends
<1>9. VersionsKept'
  <2>1. \A n : Ledger!Restorable(n)' = Ledger!Restorable(n)
    BY <1>1 DEF Ledger!Restorable
  <2>2. QED BY <1>1, <1>7, <2>1 DEF ForkInv, VersionsKept, UnspentAlong
<1>10. LedgerMatchesHashes'
  BY <1>1 DEF ForkInv, LedgerMatchesHashes, RecordedAt, UnspentAlong
<1>11. QED BY <1>1, <1>5, <1>6, <1>8, <1>9, <1>10 DEF ForkInv

(* A rollback that reaches the fork, with nothing left to apply. *)
LEMMA RollBackKeepsForkInv ==
  ASSUME Typed, InStep, ForkInv, RollBack, ReachesFork, batch = <<>>
  PROVE  ForkInv'
<1>1. /\ Ledger!TypeOK /\ OneHashPerHeight /\ chain \in BlockHash /\ lastHeight \in Int
      /\ UNCHANGED <<chain, reorgs>> /\ batch' = <<>> /\ TipHeight \in Nat
  BY LedgerFacts, HashHeight DEF RollBack, Typed, TypeOK, InStep, node, TipHeight
<1>2. PICK n \in -1..lastHeight : n = target /\ n < lastHeight
  BY TargetBelow DEF RollBack
<1>3. /\ Ledger!RollbackTo(n) /\ lastHeight' = n
      /\ indexBlocks' = {r \in indexBlocks : r.height <= n}
  BY <1>2 DEF RollBack, Ledger!RollbackTo
<1>4. \A h \in 0..n : h <= TipHeight /\ RecordedAt(h) = {HashAt(h)}
  BY <1>2 DEF ReachesFork
<1>5. n <= TipHeight
  <2>1. CASE n = -1
    BY <1>1, <2>1
  <2>2. CASE n # -1
    <3>1. n \in 0..n
      BY <1>1, <2>2
    <3>2. QED BY <1>4, <3>1
  <2>3. QED BY <2>1, <2>2
<1>6. \A r \in indexBlocks : r.height <= n => r.height \in 0..n /\ r.hash = HashAt(r.height)
  <2> SUFFICES ASSUME NEW r \in indexBlocks, r.height <= n
               PROVE  r.height \in 0..n /\ r.hash = HashAt(r.height)
    OBVIOUS
  <2>1. r.height \in 0..n
    BY <1>1, <1>2, LedgerFacts
  <2>2. r.hash \in RecordedAt(r.height)
    BY DEF RecordedAt
  <2>3. QED BY <1>4, <2>1, <2>2
<1>7. \A m \in 0..n : m \in 0..lastHeight /\ Agrees(m)
  <2> SUFFICES ASSUME NEW m \in 0..n PROVE m \in 0..lastHeight /\ Agrees(m)
    OBVIOUS
  <2>1. m <= n /\ m <= TipHeight /\ m \in 0..lastHeight
    BY <1>1, <1>2, <1>5
  <2>2. \A r \in indexBlocks : r.height <= m => r.height <= n
    BY <1>1, <2>1, LedgerFacts
  <2>3. QED BY <1>6, <2>1, <2>2 DEF Agrees
<1>8. \A m \in 0..n : Ledger!Restorable(m) = UnspentAlong(HashAt(m))
  BY <1>7 DEF ForkInv, VersionsKept
<1>9. CASE n = -1
  <2>1. Ledger!Restorable(n) = {}
    <3>1. \A r \in utxos : ~ (r.height <= -1)
      BY <1>1, LedgerFacts
    <3>2. \A u \in undo : ~ (u.orig <= -1)
      BY <1>1, LedgerFacts
    <3>3. QED BY <1>9, <3>1, <3>2 DEF Ledger!Restorable
  <2>2. RowsGrounded'
    BY <1>1, <1>3, <2>1, RollbackRestores DEF ForkInv
  <2>3. indexBlocks' = {}
    BY <1>1, <1>3, <1>9, LedgerFacts
  <2>4. 0..lastHeight' = {} /\ 1..Len(<<>>) = {}
    BY <1>3, <1>9
  <2>5. HashesSeen' /\ VersionsKept' /\ LedgerMatchesHashes'
    BY <1>1, <2>3, <2>4 DEF HashesSeen, VersionsKept, LedgerMatchesHashes, RecordedAt
  <2>6. BatchIsPath'
    BY <1>1, <2>4 DEF BatchIsPath
  <2>7. QED BY <1>1, <2>2, <2>5, <2>6 DEF ForkInv
<1>10. CASE n # -1
  <2>1. n \in 0..n /\ n \in 0..TipHeight
    <3>1. n \in Nat
      BY <1>1, <1>10
    <3>2. n \in 0..n
      BY <3>1
    <3>3. n \in 0..TipHeight
      BY <1>5, <3>1
    <3>4. QED BY <3>2, <3>3
  <2>2. HashAt(n) \in BlockHash
    BY <1>1, <2>1, HashAtHeight
  <2>3. \A r, s \in Ledger!Restorable(n) : r.out = s.out => r = s
    BY <1>8, <2>1, <2>2, UnspentOnce
  <2>4. /\ RowsGrounded' /\ utxos' = UnspentAlong(HashAt(n))
        /\ \A m \in 0..n : Ledger!Restorable(m)' = Ledger!Restorable(m)
    BY <1>1, <1>3, <1>8, <2>1, <2>3, RollbackRestores DEF ForkInv
  <2>5. \A h : HashAt(h)' = HashAt(h)
    BY <1>1 DEF HashAt
  <2>6. HashesSeen'
    <3>1. \A b : Seen(b)' = Seen(b)
      BY <1>1 DEF Seen, Extends, Parted
    <3>2. 1..Len(<<>>) = {}
      OBVIOUS
    <3>3. QED BY <1>1, <1>3, <3>1, <3>2 DEF ForkInv, HashesSeen
  <2>7. BatchIsPath'
    <3>1. 1..Len(<<>>) = {}
      OBVIOUS
    <3>2. QED BY <1>1, <3>1 DEF BatchIsPath
  <2>8. VersionsKept'
    <3>1. \A m \in 0..n : Ledger!Restorable(m)' = UnspentAlong(HashAt(m))
      BY <1>8, <2>4
    <3>2. QED BY <1>3, <2>5, <3>1 DEF VersionsKept, UnspentAlong
  <2>9. LedgerMatchesHashes'
    <3>1. ASSUME NEW tip \in RecordedAt(n)' PROVE tip = HashAt(n)
      <4>1. PICK r \in indexBlocks' : r.height = n /\ r.hash = tip
        BY DEF RecordedAt
      <4>2. r \in indexBlocks /\ r.height <= n
        BY <1>3, <4>1
      <4>3. QED BY <1>6, <4>1, <4>2
    <3>2. QED BY <1>3, <2>4, <3>1 DEF LedgerMatchesHashes, UnspentAlong
  <2>10. QED BY <1>1, <2>4, <2>6, <2>7, <2>8, <2>9 DEF ForkInv
<1>11. QED BY <1>9, <1>10

LEMMA FetchKeepsForkInv ==
  ASSUME Typed, InStep, ForkInv, "misread" \notin astray, FetchBatch
  PROVE  ForkInv'
<1>1. /\ chain \in BlockHash /\ TipHeight \in Nat /\ last = lastHeight /\ lastHeight \in Int
      /\ UNCHANGED <<node, tables>>
  BY LedgerFacts, HashHeight DEF FetchBatch, Typed, TypeOK, InStep, PointerInStep, TipHeight
<1>2. UNCHANGED <<chain, reorgs, utxos, undo, indexBlocks, lastHeight>>
  BY <1>1 DEF node, tables
<1>3. /\ batch' \in Seq(BlockHash)
      /\ \A i \in 1..Len(batch') : /\ last + i \in 0..TipHeight /\ batch'[i] = HashAt(last + i)
                                   /\ Len(batch'[i]) = last + i
  BY FetchedBatch
<1>4. Len(batch') \in Nat
  BY <1>3
<1>5. \A h \in 0..TipHeight : \A m \in 0..h : SubSeq(HashAt(h), 1, m) = HashAt(m)
  BY <1>1, PrefixOfHash DEF HashAt, TipHeight
<1>6. \A b : Seen(b)' = Seen(b)
  BY <1>2 DEF Seen, Extends, Parted
<1>7. \A n : Agrees(n)' = Agrees(n) /\ HashAt(n)' = HashAt(n)
  BY <1>2 DEF Agrees, TipHeight, HashAt
<1>8. HashesSeen'
  <2>1. ASSUME NEW i \in 1..Len(batch') PROVE Seen(batch'[i])
    <3>1. /\ last + i \in 0..TipHeight /\ batch'[i] = HashAt(last + i)
          /\ Len(batch'[i]) = last + i
      BY <1>3
    <3>2. Len(batch'[i]) <= Len(chain) /\ SubSeq(chain, 1, Len(batch'[i])) = batch'[i]
      BY <3>1 DEF HashAt, TipHeight
    <3>3. QED BY <3>2 DEF Seen, Extends
  <2>2. QED BY <1>2, <1>6, <2>1 DEF ForkInv, HashesSeen
<1>9. BatchIsPath'
  <2>1. pc' # "applying" => batch' = <<>>
    BY DEF FetchBatch
  <2>2. ASSUME NEW i \in 1..Len(batch'), NEW j \in 1..Len(batch'), i < j
        PROVE  Extends(batch'[j], batch'[i])
    <3>1. last + i \in 0..(last + j) /\ last + j \in 0..TipHeight
      BY <1>1, <1>3, <1>4, <2>2
    <3>2. SubSeq(batch'[j], 1, Len(batch'[i])) = batch'[i]
      BY <1>3, <1>5, <3>1
    <3>3. Len(batch'[i]) <= Len(batch'[j])
      BY <1>3, <3>1
    <3>4. QED BY <3>2, <3>3 DEF Extends
  <2>3. ASSUME NEW n \in 0..lastHeight, NEW i \in 1..Len(batch')
        PROVE  SubSeq(batch'[i], 1, n) = HashAt(n)
    <3>1. n \in 0..(last + i) /\ last + i \in 0..TipHeight /\ batch'[i] = HashAt(last + i)
      BY <1>1, <1>3, <1>4
    <3>2. QED BY <1>5, <3>1
  <2>4. QED BY <1>2, <1>7, <2>1, <2>2, <2>3 DEF BatchIsPath, Extends
<1>10. RowsGrounded'
  BY <1>2 DEF ForkInv, RowsGrounded
<1>11. VersionsKept'
  <2>1. \A n : Ledger!Restorable(n)' = Ledger!Restorable(n)
    BY <1>2 DEF Ledger!Restorable
  <2>2. QED BY <1>2, <1>7, <2>1 DEF ForkInv, VersionsKept, UnspentAlong
<1>12. LedgerMatchesHashes'
  BY <1>2 DEF ForkInv, LedgerMatchesHashes, RecordedAt, UnspentAlong
<1>13. QED BY <1>2, <1>8, <1>9, <1>10, <1>11, <1>12 DEF ForkInv

(* No block on a chain creates an outpoint again that was unspent further down. *)
LEMMA NotCreatedAgain ==
  ASSUME NEW b \in BlockHash, NEW n \in 0..(Len(b) - 1), NEW r \in UnspentAlong(SubSeq(b, 1, n))
  PROVE  r.out \notin CreatedBy(BlockTxs(b))
<1>1. Len(b) \in Nat /\ n \in Nat /\ n < Len(b) /\ n \in 0..Len(b) /\ Len(b) \in 0..Len(b)
  BY HashHeight
<1>2. PICK p \in BlockHash :
        p = SubSeq(b, 1, n) /\ Len(p) = n /\ \A h \in 0..n : SubSeq(p, 1, h) = SubSeq(b, 1, h)
  BY <1>1, PrefixOfHash
<1>3. r.height \in 0..n /\ \E t \in BlockTxs(SubSeq(p, 1, r.height)) : r.out \in Credited(t)
  <2>1. r \in UnspentAlong(p)
    BY <1>2
  <2>2. /\ r \in [out : Creditable, height : 0..Len(p)]
        /\ \E t \in BlockTxs(SubSeq(p, 1, r.height)) : r.out \in Credited(t)
    BY <2>1, UnspentRows
  <2>3. QED BY <1>2, <2>2
<1>4. PICK t \in BlockTxs(SubSeq(b, 1, r.height)) : r.out \in Credited(t)
  BY <1>2, <1>3
<1>5. SUFFICES ASSUME r.out \in CreatedBy(BlockTxs(b)) PROVE FALSE
  OBVIOUS
<1>6. PICK u \in BlockTxs(SubSeq(b, 1, Len(b))) : r.out \in Credited(u)
  BY <1>1, <1>5, PrefixOfHash DEF CreatedBy
<1>7. r.height \in 0..Len(b) /\ r.height # Len(b)
  BY <1>1, <1>3
<1>8. QED BY <1>1, <1>4, <1>6, <1>7, CreatedOnce

(* A block applied on top of the hashes recorded so far. *)
LEMMA ApplyKeepsForkInv ==
  ASSUME Typed, InStep, ForkInv, ProcessBlock
  PROVE  ForkInv'
<1>1. PICK b \in BlockHash : b = Head(batch)
  BY DEF ProcessBlock, Typed, TypeOK
<1>2. /\ Ledger!TypeOK /\ OneHashPerHeight /\ RowsGrounded /\ lastHeight \in Int /\ lastHeight >= -1
      /\ UNCHANGED <<chain, reorgs>> /\ chain \in BlockHash /\ pc = "applying" /\ pc' = pc
      /\ batch \in Seq(BlockHash) /\ batch # <<>> /\ batch' = Tail(batch)
      /\ Ledger!ApplyBlock(Len(b), b, BlockTxs(b))
  BY <1>1, LedgerFacts DEF ProcessBlock, Typed, TypeOK, InStep, ForkInv, node
<1>3. /\ 1 \in 1..Len(batch) /\ batch[1] = b /\ batch' \in Seq(BlockHash)
      /\ \A i \in 1..Len(batch') : i + 1 \in 1..Len(batch) /\ batch'[i] = batch[i + 1] /\ 1 < i + 1
  BY <1>1, <1>2
<1>4. Len(b) = lastHeight + 1 /\ Len(b) \in Nat
  BY <1>2, <1>3, HashHeight DEF InStep, BatchFollowsPointer
<1>5. lastHeight' = lastHeight + 1 /\ RowsGrounded'
  BY <1>2, <1>4, ApplyRows, ApplyGrounds
<1>6. /\ Ledger!ApplyBlock(lastHeight + 1, b, BlockTxs(b)) /\ lastHeight + 1 \in Nat
      /\ BlockTxs(b) \in SUBSET Tx
  BY <1>2, <1>4, IndexerAssumption
<1>7. Ledger!TypeOK' /\ OneHashPerHeight'
  BY <1>2, <1>6, ApplyTyped, ApplyRecords
<1>8. PICK new : new = [height |-> Len(b), hash |-> b]
  OBVIOUS
<1>9. \A r \in indexBlocks : r.height \in Nat /\ r.height <= lastHeight /\ r.height # Len(b)
  BY <1>2, <1>4, LedgerFacts DEF OneHashPerHeight
<1>10. indexBlocks' = indexBlocks \cup {new}
  BY <1>2, <1>8, <1>9 DEF Ledger!ApplyBlock, Ledger!Upsert, Ledger!SameKey, Ledger!IndexedKey
<1>11. new.height = Len(b) /\ new.hash = b
  BY <1>8
<1>12. /\ \A c : Seen(c)' = Seen(c)
       /\ \A h : HashAt(h)' = HashAt(h)
       /\ TipHeight' = TipHeight
  BY <1>2 DEF Seen, Extends, Parted, HashAt, TipHeight
<1>13. HashesSeen'
  <2>1. Seen(b) /\ \A i \in 1..Len(batch') : Seen(batch'[i])
    BY <1>3 DEF ForkInv, HashesSeen
  <2>2. \A r \in indexBlocks' : Len(r.hash) = r.height /\ Seen(r.hash)
    BY <1>10, <1>11, <2>1 DEF ForkInv, HashesSeen
  <2>3. QED BY <1>12, <2>1, <2>2 DEF HashesSeen
<1>14. \A n \in 0..lastHeight' : n \in 0..lastHeight \/ n = Len(b)
  BY <1>2, <1>4, <1>5
<1>15. \A n : Agrees(n)' => Agrees(n)
  BY <1>10, <1>12 DEF Agrees
<1>16. \A n \in 0..lastHeight : n \in 0..(Len(b) - 1) /\ n \in 0..Len(b)
  BY <1>2, <1>4
<1>17. BatchIsPath'
  <2>1. \A i, j \in 1..Len(batch') : i < j => Extends(batch'[j], batch'[i])
    <3> SUFFICES ASSUME NEW i \in 1..Len(batch'), NEW j \in 1..Len(batch'), i < j
                 PROVE  Extends(batch'[j], batch'[i])
      OBVIOUS
    <3>1. i + 1 \in 1..Len(batch) /\ j + 1 \in 1..Len(batch) /\ i + 1 < j + 1
      BY <1>3
    <3>2. Extends(batch[j + 1], batch[i + 1])
      BY <3>1 DEF ForkInv, BatchIsPath
    <3>3. QED BY <1>3, <3>2
  <2>2. ASSUME NEW n \in 0..lastHeight', Agrees(n)', NEW i \in 1..Len(batch')
        PROVE  SubSeq(batch'[i], 1, n) = HashAt(n)
    <3>1. i + 1 \in 1..Len(batch) /\ batch'[i] = batch[i + 1] /\ 1 < i + 1
      BY <1>3
    <3>2. CASE n \in 0..lastHeight
      BY <1>15, <2>2, <3>1, <3>2 DEF ForkInv, BatchIsPath
    <3>3. CASE n = Len(b)
      <4>1. Extends(batch[i + 1], batch[1])
        BY <1>3, <3>1 DEF ForkInv, BatchIsPath
      <4>2. SubSeq(batch[i + 1], 1, Len(b)) = b
        BY <1>3, <4>1 DEF Extends
      <4>3. new \in indexBlocks' /\ new.height <= n
        BY <1>4, <1>10, <1>11, <3>3
      <4>4. b = HashAt(n)'
        BY <1>11, <2>2, <3>3, <4>3 DEF Agrees
      <4>5. QED BY <1>12, <3>1, <3>3, <4>2, <4>4
    <3>4. QED BY <1>14, <3>2, <3>3
  <2>3. QED BY <1>2, <1>12, <2>1, <2>2 DEF BatchIsPath, Extends
<1>18. LedgerMatchesHashes'
  <2> SUFFICES ASSUME NEW tip \in RecordedAt(lastHeight)',
                      \A h \in 0..lastHeight' : RecordedAt(h)' = {SubSeq(tip, 1, h)}
               PROVE  utxos' = UnspentAlong(tip)
    BY DEF LedgerMatchesHashes, UnspentAlong
  <2>1. tip = b
    <3>1. PICK r \in indexBlocks' : r.height = lastHeight' /\ tip = r.hash
      BY DEF RecordedAt
    <3>2. r = new
      BY <1>4, <1>5, <1>9, <1>10, <3>1
    <3>3. QED BY <1>11, <3>1, <3>2
  <2>2. ASSUME NEW h \in 0..lastHeight PROVE RecordedAt(h) = {SubSeq(b, 1, h)}
    <3>1. h \in 0..lastHeight' /\ h # Len(b)
      BY <1>2, <1>4, <1>5
    <3>2. RecordedAt(h)' = {SubSeq(b, 1, h)}
      BY <2>1, <3>1
    <3>3. RecordedAt(h)' = RecordedAt(h)
      BY <1>10, <1>11, <3>1 DEF RecordedAt
    <3>4. QED BY <3>2, <3>3
  <2>3. CASE lastHeight = -1
    <3>1. utxos = {} /\ Len(b) = 0
      BY <1>2, <1>4, <2>3, LedgerFacts DEF RowsGrounded
    <3>2. \A r : r \in utxos' <=> r.out \notin SpentBy(BlockTxs(b)) /\ r \in NewRows(b)
      BY <1>2, <1>4, <3>1, ApplyRows
    <3>3. \A r : r \in utxos' <=> r \in UnspentAlong(b)
      BY <3>1, <3>2, UnspentAtGenesis
    <3>4. utxos' = UnspentAlong(b)
      <4>1. utxos' \subseteq UnspentAlong(b) /\ UnspentAlong(b) \subseteq utxos'
        BY <3>3
      <4>2. QED BY <4>1
    <3>5. QED BY <2>1, <3>4
  <2>4. CASE lastHeight # -1
    <3>1. lastHeight \in 0..lastHeight /\ lastHeight \in 0..Len(b)
      BY <1>2, <1>4, <2>4
    <3>2. PICK p \in BlockHash :
            /\ p = SubSeq(b, 1, lastHeight) /\ Len(p) = lastHeight
            /\ \A h \in 0..lastHeight : SubSeq(p, 1, h) = SubSeq(b, 1, h)
      BY <3>1, PrefixOfHash
    <3>3. p \in RecordedAt(lastHeight) /\ \A h \in 0..lastHeight : RecordedAt(h) = {SubSeq(p, 1, h)}
      BY <2>2, <3>1, <3>2
    <3>4. utxos = UnspentAlong(p)
      BY <3>3 DEF ForkInv, LedgerMatchesHashes
    <3>5. /\ \A r \in UnspentAlong(p) : r.out \notin CreatedBy(BlockTxs(b))
          /\ \A r : r \in UnspentAlong(b) <=>
               /\ r.out \notin SpentBy(BlockTxs(b))
               /\ r \in NewRows(b) \/ r \in UnspentAlong(p)
      BY <1>4, <3>2, UnspentGrows
    <3>6. \A r : r \in utxos' <=>
            /\ r.out \notin SpentBy(BlockTxs(b))
            /\ \/ r \in NewRows(b)
               \/ r \in utxos /\ r.out \notin CreatedBy(BlockTxs(b))
      BY <1>2, <1>4, ApplyRows
    <3>7. \A r : r \in utxos' <=> r \in UnspentAlong(b)
      BY <3>4, <3>5, <3>6
    <3>8. utxos' \subseteq UnspentAlong(b) /\ UnspentAlong(b) \subseteq utxos'
      BY <3>7
    <3>9. QED BY <2>1, <3>8
  <2>5. QED BY <2>3, <2>4
<1>19. VersionsKept'
  <2>1. ASSUME NEW n \in 0..lastHeight', Agrees(n)'
        PROVE  Ledger!Restorable(n)' = UnspentAlong(HashAt(n))
    <3>1. CASE n \in 0..lastHeight
      <4>1. Ledger!Restorable(n) = UnspentAlong(HashAt(n)) /\ SubSeq(b, 1, n) = HashAt(n)
        BY <1>3, <1>15, <2>1, <3>1 DEF ForkInv, VersionsKept, BatchIsPath
      <4>2. \A r \in UnspentAlong(SubSeq(b, 1, n)) : r.out \notin CreatedBy(BlockTxs(b))
        BY <1>16, <3>1, NotCreatedAgain
      <4>3. \A r \in Ledger!Restorable(n) : r.out \notin CreatedBy(BlockTxs(b))
        BY <4>1, <4>2
      <4>4. Ledger!Restorable(n)' = Ledger!Restorable(n)
        BY <1>2, <1>4, <3>1, <4>3, ApplyKeepsVersion
      <4>5. QED BY <4>1, <4>4
    <3>2. CASE n = Len(b)
      <4>1. \A r \in indexBlocks' : r.height <= n /\ r.hash = HashAt(r.height)
        <5>1. \A r \in indexBlocks' : r.height <= n
          BY <1>2, <1>4, <1>9, <1>10, <1>11, <3>2
        <5>2. QED BY <1>12, <2>1, <5>1 DEF Agrees
      <4>2. b = HashAt(n) /\ new \in indexBlocks'
        BY <1>10, <1>11, <3>2, <4>1
      <4>3. n \in 0..TipHeight
        BY <1>4, <1>12, <2>1, <3>2 DEF Agrees
      <4>4. \A h \in 0..n : SubSeq(b, 1, h) = HashAt(h)
        BY <1>2, <4>2, <4>3, PrefixOfHash DEF HashAt, TipHeight
      <4>5. ASSUME NEW h \in 0..lastHeight' PROVE RecordedAt(h)' = {SubSeq(b, 1, h)}
        <5>1. h \in 0..n
          BY <1>4, <1>5, <3>2
        <5>2. PICK r \in indexBlocks' : r.height = h
          BY <1>7 DEF OneHashPerHeight
        <5>3. \A q \in indexBlocks' : q.height = h => q.hash = SubSeq(b, 1, h)
          BY <4>1, <4>4, <5>1
        <5>4. QED BY <5>2, <5>3 DEF RecordedAt
      <4>6. b \in RecordedAt(lastHeight)'
        BY <1>4, <1>5, <1>11, <4>2 DEF RecordedAt
      <4>7. utxos' = UnspentAlong(b)
        BY <1>18, <4>5, <4>6 DEF LedgerMatchesHashes, UnspentAlong
      <4>8. Ledger!Restorable(n)' = utxos'
        <5>1. n = lastHeight'
          BY <1>4, <1>5, <3>2
        <5>2. \A r \in utxos' : r.height <= n
          BY <1>5, <5>1 DEF RowsGrounded
        <5>3. \A u \in undo' : ~ (u.at > n)
          <6>1. \A u \in undo' : u.at \in Nat /\ u.at <= n
            BY <1>5, <1>7, <5>1 DEF RowsGrounded, Ledger!TypeOK, Ledger!Undo
          <6>2. n \in Nat
            BY <1>4, <3>2
          <6>3. QED BY <6>1, <6>2
        <5>4. QED BY <5>2, <5>3 DEF Ledger!Restorable
      <4>9. QED BY <4>2, <4>7, <4>8
    <3>3. QED BY <1>14, <3>1, <3>2
  <2>2. QED BY <1>12, <2>1 DEF VersionsKept, UnspentAlong
<1>20. reorgs' \in Nat
  BY <1>2 DEF ForkInv
<1>21. QED BY <1>5, <1>13, <1>17, <1>18, <1>19, <1>20 DEF ForkInv

LEMMA InitForkInv == Init => ForkInv
<1> SUFFICES ASSUME Init PROVE ForkInv
  OBVIOUS
<1>1. /\ lastHeight = -1 /\ indexBlocks = {} /\ utxos = {} /\ undo = {} /\ batch = <<>> /\ reorgs = 0
  BY DEF Init, Ledger!Init, ChainInit
<1>2. 0..lastHeight = {} /\ 1..Len(batch) = {}
  BY <1>1
<1>3. QED
  BY <1>1, <1>2 DEF ForkInv, HashesSeen, RowsGrounded, BatchIsPath, VersionsKept,
                    LedgerMatchesHashes, RecordedAt

\* The one reorganization, with nothing misread and no shallow rollback.
Unbroken == reorgs <= 1 /\ astray = {}

LEMMA StepForkInv ==
  ASSUME IInv, Unbroken => ForkInv, [Next]_vars
  PROVE  Unbroken' => ForkInv'
<1> SUFFICES ASSUME Unbroken' PROVE ForkInv'
  OBVIOUS
<1>1. astray = {} /\ astray' = {} /\ reorgs' <= 1 /\ Typed
  BY AstrayGrows DEF Unbroken, IInv
<1>2. reorgs \in Nat /\ reorgs' \in Nat /\ (reorgs' = reorgs \/ NodeStep)
  BY <1>1, StepTyped
     DEF Typed, Next, Loop, NodeStep, BlockLoopTick, BlockLoopOffline, StopWaiting, AskNode,
         CompareHashes, RollBack, Boot, BootFails, VerifyRecent, VerifyFails, FetchBatch,
         ProcessBlock, ProcessBlockFails, FinishBatch, Crash, vars, node
<1>3. reorgs <= 1
  BY <1>1, <1>2, NodeTyped DEF Typed
<1>4. InStep /\ ForkInv
  BY <1>1, <1>3 DEF Unbroken, IInv
<1>5. CASE UNCHANGED vars
  <2>1. UNCHANGED <<node, tables>> /\ batch' = batch /\ (pc' # "applying" => batch = <<>>)
    BY <1>4, <1>5 DEF vars, task, ForkInv, BatchIsPath
  <2>2. QED BY <1>4, <2>1, OthersKeepForkInv
<1>6. CASE NodeStep
  BY <1>1, <1>4, <1>6, NodeKeepsForkInv
<1>7. CASE BlockLoopTick \/ BlockLoopOffline
  <2>1. UNCHANGED <<node, tables>> /\ batch' = batch /\ (pc' # "applying" => batch = <<>>)
    BY <1>4, <1>7 DEF BlockLoopTick, BlockLoopOffline, task, ForkInv, BatchIsPath
  <2>2. QED BY <1>4, <2>1, OthersKeepForkInv
<1>8. CASE ProcessBlockFails \/ Crash
  <2>1. UNCHANGED <<node, tables>> /\ batch' = <<>>
    BY <1>8 DEF ProcessBlockFails, Crash
  <2>2. QED BY <1>4, <2>1, OthersKeepForkInv
<1>9. CASE \/ StopWaiting \/ AskNode \/ Boot \/ BootFails \/ VerifyRecent \/ VerifyFails
           \/ FinishBatch
  <2>1. UNCHANGED <<node, tables, batch>>
    BY <1>9 DEF StopWaiting, AskNode, Boot, BootFails, VerifyRecent, VerifyFails, FinishBatch
  <2>2. pc # "applying" \/ batch = <<>>
    BY <1>9 DEF StopWaiting, AskNode, Boot, BootFails, VerifyRecent, VerifyFails, FinishBatch
  <2>3. batch = <<>>
    BY <1>4, <2>2 DEF ForkInv, BatchIsPath
  <2>4. QED BY <1>4, <2>1, <2>3, OthersKeepForkInv
<1>10. CASE CompareHashes \/ RollBack
  <2>1. stage # "none" /\ UNCHANGED <<node, batch>>
    BY <1>10 DEF CompareHashes, RollBack
  <2>2. batch = <<>>
    BY <1>1, <1>4, <2>1 DEF Typed, CheckInv, ForkInv, BatchIsPath
  <2>3. CASE CompareHashes
    <3>1. UNCHANGED tables
      BY <2>3 DEF CompareHashes
    <3>2. QED BY <1>4, <2>1, <2>2, <3>1, OthersKeepForkInv
  <2>4. CASE RollBack
    <3>1. ReachesFork
      BY <1>1, <2>4 DEF RollBack
    <3>2. QED BY <1>1, <1>4, <2>2, <2>4, <3>1, RollBackKeepsForkInv
  <2>5. QED BY <1>10, <2>3, <2>4
<1>11. CASE FetchBatch
  BY <1>1, <1>4, <1>11, FetchKeepsForkInv
<1>12. CASE ProcessBlock
  BY <1>1, <1>4, <1>12, ApplyKeepsForkInv
<1>13. QED
  BY <1>5, <1>6, <1>7, <1>8, <1>9, <1>10, <1>11, <1>12 DEF Next, Loop

(* The ledger is the UTXO set of the chain its hashes are of, after any batch,
   crash, failed call or rollback, while the node has reorganized once at most,
   no pointer was misread and no rollback stopped above the fork.  All three
   are needed: the chain may come back to a fork it left, rows of a block may
   be applied twice, and rows of blocks that are gone may be kept. *)
THEOREM LedgerFollowsHashes == Spec => []UnbrokenLedger
<1>1. IInv /\ (Unbroken => ForkInv) /\ [Next]_vars => (Unbroken => ForkInv)'
  BY StepForkInv
<1>2. (Unbroken => ForkInv) => UnbrokenLedger
  BY DEF ForkInv, Unbroken, UnbrokenLedger
<1>3. QED BY <1>1, <1>2, InitInv, StepInv, InitForkInv, PTL DEF Spec

-----------------------------------------------------------------------------
(* What the node has answered is its chain's still, or nothing differs from it:
   with one reorganization, answers that are out of date are of the chain the
   hashes were recorded from. *)
AnswersHold ==
  \/ \A a \in onChain : a.height <= TipHeight /\ a.hash = HashAt(a.height)
  \/ Mismatched = {}

\* The node was asked from the genesis block on.
AnswersWhole == \A a \in onChain : \A h \in 0..a.height : \E b \in onChain : b.height = h

AnswersInv ==
  /\ reorgs <= MaxReorgs
  /\ "misread" \notin astray =>
       /\ astray = {}
       /\ stage \in {"asked", "found"} => AnswersHold /\ AnswersWhole

LEMMA InitAnswersInv == Init => AnswersInv
BY ChainAssumption DEF Init, ChainInit, AnswersInv

(* A window longer than the chain begins at the genesis block. *)
LEMMA WindowIsWhole ==
  ASSUME MaxChain < ReorgDepth, Typed, InStep, ForkInv, lastHeight >= 0
  PROVE  Window = 0..lastHeight
<1>1. Ledger!TypeOK /\ OneHashPerHeight /\ lastHeight \in Int /\ lastHeight \in 0..lastHeight
  BY LedgerFacts DEF Typed, TypeOK, InStep
<1>2. lastHeight <= MaxChain
  <2>1. PICK r \in indexBlocks : r.height = lastHeight
    BY <1>1 DEF OneHashPerHeight
  <2>2. r.hash \in BlockHash /\ Len(r.hash) = lastHeight
    BY <1>1, <2>1, LedgerFacts DEF ForkInv, HashesSeen
  <2>3. QED BY <2>2, HashHeight
<1>3. PICK a \in Int : a = lastHeight - ReorgDepth + 1 /\ a <= 0
  BY <1>1, <1>2, IndexerAssumption, ChainAssumption
<1>4. Max({0, a}) \in {0, a} /\ Max({0, a}) >= 0
  <2>1. a \in Int /\ 0 \in Int
    BY <1>3
  <2>2. QED BY <2>1, GreaterOfTwo, Zenon
<1>5. Max({0, a}) = 0
  BY <1>3, <1>4
<1>6. QED BY <1>3, <1>5 DEF Window

LEMMA WindowAnswers ==
  ASSUME MaxChain < ReorgDepth, Typed, InStep, ForkInv, AskNode, stage' = "asked"
  PROVE  AnswersHold' /\ AnswersWhole'
<1>1. lastHeight >= 0 /\ onChain' = Answers /\ UNCHANGED <<chain, reorgs>>
  BY DEF AskNode, node
<1>2. Window = 0..lastHeight
  BY <1>1, WindowIsWhole
<1>3. AnswersHold'
  <2>1. \A a \in onChain' : a.height <= TipHeight /\ a.hash = HashAt(a.height)
    BY <1>1, AnswersTyped DEF Typed, TypeOK
  <2>2. QED BY <1>1, <2>1 DEF AnswersHold, TipHeight, HashAt
<1>4. ASSUME NEW a \in Answers, NEW h \in 0..a.height PROVE \E b \in Answers : b.height = h
  <2>1. lastHeight \in Int /\ TipHeight \in Nat
    BY LedgerFacts, HashHeight DEF Typed, TypeOK, TipHeight
  <2>2. a.height \in 0..lastHeight /\ a.height <= TipHeight
    BY <1>2, AnswersTyped DEF Typed, TypeOK
  <2>3. h \in Window /\ h <= TipHeight
    BY <1>2, <2>1, <2>2
  <2>4. [height |-> h, hash |-> HashAt(h)] \in Answers
    BY <2>3 DEF Answers
  <2>5. QED BY <2>4
<1>5. AnswersWhole'
  BY <1>1, <1>4 DEF AnswersWhole
<1>6. QED BY <1>3, <1>5

(* Answers survive what the node does. *)
LEMMA NodeKeepsAnswers ==
  ASSUME Typed, ForkInv, reorgs' <= 1, NodeStep, AnswersHold
  PROVE  AnswersHold'
<1>1. /\ chain \in Seq(Tag) /\ Len(chain) \in Nat /\ reorgs \in Nat /\ onChain \subseteq Ledger!Indexed
      /\ Extend \/ Reorg
      /\ UNCHANGED <<indexBlocks, onChain>> /\ Mismatched' = Mismatched
  BY HashIsPath DEF Typed, TypeOK, NodeStep, tables, task, check, Mismatched
<1>2. CASE Mismatched = {}
  BY <1>1, <1>2 DEF AnswersHold
<1>3. CASE \A a \in onChain : a.height <= TipHeight /\ a.hash = HashAt(a.height)
  <2>1. CASE Extend
    <3>1. PICK t \in Tag : chain' = Append(chain, t)
      BY <2>1 DEF Extend
    <3>2. /\ chain' \in Seq(Tag) /\ Len(chain') = Len(chain) + 1
          /\ \A i \in 1..Len(chain) : chain'[i] = chain[i]
      BY <1>1, <3>1
    <3>3. ASSUME NEW a \in onChain
          PROVE  a.height <= Len(chain') /\ a.hash = SubSeq(chain', 1, a.height)
      <4>1. /\ a.height \in 0..Len(chain) /\ a.height \in 0..Len(chain')
            /\ a.hash = SubSeq(chain, 1, a.height)
        BY <1>1, <1>3, <3>2 DEF TipHeight, HashAt, Ledger!Indexed
      <4>2. SubSeq(chain, 1, a.height) = SubSeq(chain', 1, a.height)
        BY <1>1, <3>2, <4>1, PrefixesEqual
      <4>3. QED BY <4>1, <4>2
    <3>4. QED BY <1>1, <3>3 DEF AnswersHold, TipHeight, HashAt
  <2>2. CASE Reorg
    <3>1. reorgs = 0
      BY <1>1, <2>2 DEF Reorg
    <3>2. \A r \in indexBlocks : r.hash = HashAt(r.height)
      BY <3>1 DEF ForkInv, HashesSeen, Seen, Extends, HashAt
    <3>3. Mismatched = {}
      BY <1>3, <3>2 DEF Mismatched
    <3>4. QED BY <1>1, <3>3 DEF AnswersHold
  <2>3. QED BY <1>1, <2>1, <2>2
<1>4. QED BY <1>2, <1>3 DEF AnswersHold

(* With answers that hold and are whole, a rollback reaches the fork. *)
LEMMA AnswersReachFork ==
  ASSUME Typed, InStep, RollBack, AnswersHold, AnswersWhole
  PROVE  ReachesFork
<1>1. PICK a \in onChain : a.height = target + 1 /\ a.height \in Mismatched
  BY DEF RollBack, Typed, CheckInv, Mismatched
<1>2. \A b \in onChain : b.height <= TipHeight /\ b.hash = HashAt(b.height)
  BY <1>1 DEF AnswersHold
<1>3. ASSUME NEW h \in 0..target PROVE h <= TipHeight /\ RecordedAt(h) = {HashAt(h)}
  <2>1. target \in Int /\ h \in 0..a.height
    BY <1>1 DEF Typed, TypeOK
  <2>2. PICK b \in onChain : b.height = h
    BY <2>1 DEF AnswersWhole
  <2>3. RecordedAt(b.height) = {b.hash}
    BY <2>1, <2>2, RollbackToAncestor
  <2>4. QED BY <1>2, <2>2, <2>3
<1>4. QED BY <1>3 DEF ReachesFork

LEMMA StepAnswersInv ==
  ASSUME MaxReorgs <= 1, MaxChain < ReorgDepth,
         IInv, Unbroken => ForkInv, AnswersInv, [Next]_vars
  PROVE  AnswersInv'
<1>1. Typed /\ Typed' /\ reorgs \in Nat
  BY StepTyped DEF IInv, Typed
<1>2. reorgs' <= MaxReorgs /\ (NodeStep \/ reorgs' = reorgs)
  <2>1. CASE NodeStep
    <3>1. reorgs' = reorgs \/ (reorgs < MaxReorgs /\ reorgs' = reorgs + 1)
      BY <2>1 DEF NodeStep, Extend, Reorg
    <3>2. QED BY <1>1, <2>1, <3>1, ChainAssumption DEF AnswersInv
  <2>2. CASE ~ NodeStep
    <3>1. reorgs' = reorgs
      BY <2>2 DEF Next, Loop, BlockLoopTick, BlockLoopOffline, StopWaiting, AskNode,
                  CompareHashes, RollBack, Boot, BootFails, VerifyRecent, VerifyFails,
                  FetchBatch, ProcessBlock, ProcessBlockFails, FinishBatch, Crash, vars, node
    <3>2. QED BY <3>1 DEF AnswersInv
  <2>3. QED BY <2>1, <2>2
<1> SUFFICES ASSUME "misread" \notin astray'
             PROVE  /\ astray' = {}
                    /\ stage' \in {"asked", "found"} => AnswersHold' /\ AnswersWhole'
  BY <1>2 DEF AnswersInv
<1>3. /\ "misread" \notin astray /\ astray = {} /\ InStep
      /\ stage \in {"asked", "found"} => AnswersHold /\ AnswersWhole
  BY AstrayGrows DEF AnswersInv, IInv
<1>4. reorgs <= 1 /\ reorgs' <= 1 /\ ForkInv
  <2>1. reorgs' \in Nat
    BY <1>1 DEF Typed
  <2>2. reorgs <= 1 /\ reorgs' <= 1
    BY <1>1, <1>2, <2>1, ChainAssumption DEF AnswersInv
  <2>3. QED BY <1>3, <2>2 DEF Unbroken
<1>5. CASE RollBack
  <2>1. ReachesFork
    BY <1>1, <1>3, <1>5, AnswersReachFork DEF RollBack
  <2>2. astray' = {} /\ stage' = "done"
    BY <1>3, <1>5, <2>1 DEF RollBack
  <2>3. QED BY <2>2
<1>6. CASE NodeStep
  <2>1. UNCHANGED <<stage, onChain, astray>>
    BY <1>6 DEF NodeStep, task, check
  <2>2. QED BY <1>1, <1>3, <1>4, <1>6, <2>1, NodeKeepsAnswers DEF AnswersWhole
<1>7. CASE AskNode
  <2>1. astray' = astray /\ stage' \in {"asked", "done"}
    BY <1>7 DEF AskNode
  <2>2. QED BY <1>1, <1>3, <1>4, <1>7, <2>1, WindowAnswers
<1>8. CASE CompareHashes
  <2>1. UNCHANGED <<node, tables, astray>> /\ stage = "asked"
    BY <1>8 DEF CompareHashes
  <2>2. stage' = "done" \/ UNCHANGED onChain
    BY <1>8 DEF CompareHashes
  <2>3. CASE UNCHANGED onChain
    <3>1. AnswersHold' /\ AnswersWhole'
      BY <1>3, <2>1, <2>3
         DEF AnswersHold, AnswersWhole, Mismatched, TipHeight, HashAt, node, tables
    <3>2. QED BY <1>3, <2>1, <3>1
  <2>4. QED BY <1>3, <2>1, <2>2, <2>3
<1>9. CASE Boot \/ BootFails \/ VerifyRecent \/ VerifyFails \/ Crash
  <2>1. stage' = "none" /\ astray' \subseteq astray \cup {"misread"}
    BY <1>9 DEF Boot, BootFails, VerifyRecent, VerifyFails, Misread, Crash
  <2>2. QED BY <1>3, <2>1
<1>10. CASE StopWaiting \/ FetchBatch \/ ProcessBlock \/ ProcessBlockFails \/ FinishBatch
  <2>1. stage' = "none" /\ astray' \subseteq astray \cup {"misread"}
    BY <1>1, <1>10 DEF StopWaiting, FetchBatch, ProcessBlock, ProcessBlockFails, FinishBatch,
                       Misread, check, Typed, CheckInv
  <2>2. QED BY <1>3, <2>1
<1>11. CASE BlockLoopTick \/ BlockLoopOffline \/ UNCHANGED vars
  <2>1. UNCHANGED <<node, tables, task, astray>>
    BY <1>11 DEF BlockLoopTick, BlockLoopOffline, vars
  <2>2. UNCHANGED <<chain, indexBlocks, stage, onChain, astray>>
    BY <2>1 DEF node, tables, task, check
  <2>3. QED BY <1>3, <2>2 DEF AnswersHold, AnswersWhole, Mismatched, TipHeight, HashAt
<1>12. QED
  BY <1>5, <1>6, <1>7, <1>8, <1>9, <1>10, <1>11 DEF Next, Loop

(* With such a window and one reorganization no rollback is shallow, even when
   the node reorganizes between its answers and the rollback: the ledger
   matches its hashes until a pointer is misread. *)
THEOREM LongWindowKeepsLedger ==
  ASSUME MaxReorgs <= 1, MaxChain < ReorgDepth
  PROVE  Spec => []("misread" \notin astray => LedgerMatchesHashes)
<1>1. IInv /\ (Unbroken => ForkInv) /\ AnswersInv /\ [Next]_vars => AnswersInv'
  BY StepAnswersInv
<1>2. IInv /\ (Unbroken => ForkInv) /\ [Next]_vars => (Unbroken => ForkInv)'
  BY StepForkInv
<1>3. IInv /\ (Unbroken => ForkInv) /\ AnswersInv => ("misread" \notin astray => LedgerMatchesHashes)
  BY ChainAssumption DEF IInv, Typed, AnswersInv, Unbroken, ForkInv
<1>4. QED BY <1>1, <1>2, <1>3, InitInv, StepInv, InitForkInv, InitAnswersInv, PTL DEF Spec
=============================================================================
