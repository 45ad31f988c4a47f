--------------------------- MODULE AddressIndexer ---------------------------
(***************************************************************************)
(* The address indexer's loop (backend/app/indexer/address_index.py) over  *)
(* the ledger's tables, next to a node whose chain grows and reorganizes   *)
(* and a block indexer that publishes the tip.  Every await that lets      *)
(* another task or the node move is a boundary between actions; only this  *)
(* task writes the tables, so a read of them is joined with the await that *)
(* follows it.  The tables and the kv keys survive a crash, the task's own *)
(* variables do not.                                                       *)
(***************************************************************************)
EXTENDS Chain, Transactions, FiniteSetsExt

CONSTANTS
  BlockTxs(_),  \* BlockTxs(hash): the transactions of a block
  ReorgDepth,   \* settings.REORG_DEPTH
  BatchSize,    \* blocks fetched at once (50 in the code)
  MaxFaults     \* bound: failed calls and crashes in a behaviour

ASSUME IndexerAssumption ==
  /\ ReorgDepth \in Nat \ {0} /\ BatchSize \in Nat \ {0} /\ MaxFaults \in Nat
  /\ \A hash \in BlockHash : BlockTxs(hash) \subseteq Tx

(* What the node's validation grants: along a chain a transaction is mined
   once, and spends what its block or an earlier one created. *)
ASSUME ChainedTransactions ==
  \A hash \in BlockHash : \A i, j \in 0..Len(hash) : i < j =>
    \A t \in BlockTxs(SubSeq(hash, 1, i)), u \in BlockTxs(SubSeq(hash, 1, j)) :
      t # u /\ Inputs[t] \cap Outputs[u] = {}

VARIABLES
  utxos, undo, addressTxs, indexBlocks, lastHeight,  \* the ledger's tables
  tipHeight,   \* kv TIP_HEIGHT, written by the block indexer (0 when absent)
  phase,       \* kv INDEXER_STATUS.phase, written by the block indexer
  pc,          \* where the task is
  last,        \* run_backfill_loop's copy of the pointer
  batch,       \* fetched blocks still to be applied, by hash
  advanced,    \* a block of this batch was applied
  stage,       \* how far _check_for_reorg has come
  onChain,     \* the node's answers it works on, as [height, hash]
  target,      \* the height it is about to roll back to
  faults,      \* failed calls and crashes so far
  astray       \* history: a pointer was "misread", a rollback was "shallow"

Ledger == INSTANCE AddressLedger WITH Hash <- BlockHash, MaxHeight <- MaxChain

tables == <<utxos, undo, addressTxs, indexBlocks, lastHeight>>
kv     == <<tipHeight, phase>>
check  == <<stage, onChain, target>>
task   == <<pc, last, batch, advanced, check>>
vars   == <<node, tables, kv, task, faults, astray>>

TypeOK ==
  /\ Ledger!TypeOK
  /\ tipHeight \in Nat
  /\ phase \in {"none", "live", "rpc_offline"}
  /\ pc \in {"waiting", "booting", "loop", "verifying", "applying", "dead"}
  /\ last \in Int /\ last >= -1
  /\ batch \in Seq(BlockHash)
  /\ advanced \in BOOLEAN
  /\ stage \in {"none", "asked", "found", "done"}
  /\ onChain \subseteq Ledger!Indexed
  /\ target \in Int /\ target >= -1
  /\ astray \subseteq {"misread", "shallow"}

Init ==
  /\ ChainInit
  /\ Ledger!Init
  /\ tipHeight = 0 /\ phase = "none"
  /\ pc = "waiting" /\ last = -1 /\ batch = <<>> /\ advanced = FALSE
  /\ stage = "none" /\ onChain = {} /\ target = -1
  /\ faults = 0 /\ astray = {}

-----------------------------------------------------------------------------
(* What the block indexer does for this task: publish the tip it polled and
   its phase. *)
BlockLoopTickOffByOne ==
  /\ tipHeight' = TipHeight - 1
  /\ phase' = "live"
  /\ UNCHANGED <<node, tables, task, faults, astray>>

BlockLoopTick ==
  /\ tipHeight' = TipHeight
  /\ phase' = "live"
  /\ UNCHANGED <<node, tables, task, faults, astray>>

BlockLoopOffline ==
  /\ faults < MaxFaults /\ faults' = faults + 1
  /\ phase' = "rpc_offline"
  /\ UNCHANGED <<node, tables, tipHeight, task, astray>>

NodeStep == (Extend \/ Reorg) /\ UNCHANGED <<tables, kv, task, faults, astray>>

-----------------------------------------------------------------------------
RecordedAt(h) == {r.hash : r \in {r \in indexBlocks : r.height = h}}

(* The heights _check_for_reorg looks at, and what the node says of them.  A
   height the node no longer has is an RPCError, and no answer. *)
Window == Max({0, lastHeight - ReorgDepth + 1})..lastHeight

Answers ==
  {[height |-> h, hash |-> HashAt(h)] : h \in {h \in Window : h <= TipHeight}}

(* The heights whose recorded hash is not the one the node gave; a height
   with no recorded hash is trusted. *)
Mismatched ==
  {a.height : a \in {a \in onChain :
                       \E r \in indexBlocks : r.height = a.height /\ r.hash # a.hash}}

(* Wait until the block indexer reports progress. *)
StopWaiting ==
  /\ pc = "waiting" /\ phase = "live"
  /\ pc' = "booting"
  /\ UNCHANGED <<node, tables, kv, last, batch, advanced, check, faults, astray>>

(* A slip: the hashes are verified on boot only. *)
AskNodeOnBoot ==
  /\ stage = "none" /\ pc = "booting"
  /\ stage' = "asked" /\ onChain' = Answers
  /\ UNCHANGED <<node, tables, kv, pc, last, batch, advanced, target, faults, astray>>

(* _check_for_reorg, on boot and whenever the task has caught up: ask the node
   for the hashes of the window.  Nothing indexed, or a failed batch, ends
   the check. *)
AskNode ==
  /\ stage = "none"
  /\ \/ pc = "booting" /\ pc' = pc
     \/ pc = "loop" /\ tipHeight <= last /\ pc' = "verifying"
  /\ \/ lastHeight >= 0 /\ stage' = "asked" /\ onChain' = Answers /\ UNCHANGED faults
     \/ lastHeight < 0 /\ stage' = "done" /\ UNCHANGED <<onChain, faults>>
     \/ /\ lastHeight >= 0 /\ stage' = "done" /\ UNCHANGED onChain
        /\ faults < MaxFaults /\ faults' = faults + 1
  /\ UNCHANGED <<node, tables, kv, last, batch, advanced, target, astray>>

(* A slip: the walk stops at the highest mismatch. *)
CompareFromTheTop ==
  /\ stage = "asked"
  /\ \/ Mismatched = {} /\ stage' = "done" /\ onChain' = {} /\ UNCHANGED target
     \/ /\ Mismatched # {} /\ stage' = "found" /\ UNCHANGED onChain
        /\ target' = Max({-1, Max(Mismatched) - 1})
  /\ UNCHANGED <<node, tables, kv, pc, last, batch, advanced, faults, astray>>

(* Read the recorded hashes and walk up from the lowest height to the first
   mismatch. *)
CompareHashes ==
  /\ stage = "asked"
  /\ \/ Mismatched = {} /\ stage' = "done" /\ onChain' = {} /\ UNCHANGED target
     \/ /\ Mismatched # {} /\ stage' = "found" /\ UNCHANGED onChain
        /\ target' = Max({-1, Min(Mismatched) - 1})
  /\ UNCHANGED <<node, tables, kv, pc, last, batch, advanced, faults, astray>>

(* Roll back below it, in one transaction.  The answers are as old as the call
   that brought them; a rollback that keeps a hash the node does not have now
   is shallow. *)
ReachesFork ==
  \A h \in 0..target : h <= TipHeight /\ RecordedAt(h) = {HashAt(h)}

RollBack ==
  /\ stage = "found"
  /\ Ledger!RollbackTo(target)
  /\ astray' = IF ReachesFork THEN astray ELSE astray \cup {"shallow"}
  /\ stage' = "done" /\ onChain' = {} /\ target' = -1
  /\ UNCHANGED <<node, kv, pc, last, batch, advanced, faults>>

(* The check on boot is over: read the pointer and enter the loop. *)
Boot ==
  /\ pc = "booting" /\ stage = "done"
  /\ last' = lastHeight
  /\ pc' = "loop" /\ stage' = "none"
  /\ UNCHANGED <<node, tables, kv, batch, advanced, onChain, target, faults, astray>>

(* No handler is around the reads and the rollback of the boot: the first that
   fails ends the task, for as long as the process lives. *)
BootFails ==
  /\ pc = "booting"
  /\ faults < MaxFaults /\ faults' = faults + 1
  /\ pc' = "dead" /\ stage' = "none" /\ onChain' = {} /\ target' = -1
  /\ UNCHANGED <<node, tables, kv, last, batch, advanced, astray>>

(* A slip: the rolled back pointer is not read again. *)
VerifyWithoutResuming ==
  /\ pc = "verifying" /\ stage = "done"
  /\ pc' = "loop" /\ stage' = "none"
  /\ UNCHANGED <<node, tables, kv, last, batch, advanced, onChain, target, faults, astray>>

(* The check of the loop is over: resume lower if it rolled back. *)
VerifyRecent ==
  /\ pc = "verifying" /\ stage = "done"
  /\ last' = IF lastHeight < last THEN lastHeight ELSE last
  /\ pc' = "loop" /\ stage' = "none"
  /\ UNCHANGED <<node, tables, kv, batch, advanced, onChain, target, faults, astray>>

(* The loop goes on with its old copy of a pointer it could not read. *)
Misread == astray' = IF last = lastHeight THEN astray ELSE astray \cup {"misread"}

(* A read, the rollback or the last read of the pointer fails: the loop's own
   handler starts the next pass. *)
VerifyFails ==
  /\ pc = "verifying"
  /\ faults < MaxFaults /\ faults' = faults + 1
  /\ Misread
  /\ pc' = "loop" /\ stage' = "none" /\ onChain' = {} /\ target' = -1
  /\ UNCHANGED <<node, tables, kv, last, batch, advanced>>

(* Fetch the next blocks up to the published tip: hashes up to the first
   height the node has not, bodies up to the first that fails. *)
FetchBatch ==
  /\ pc = "loop" /\ tipHeight > last
  /\ LET wanted == (last + 1)..Min({tipHeight, last + BatchSize})
         found  == {h \in wanted : h <= TipHeight}
         n      == Cardinality(found)
     IN \E k \in 0..n :
          /\ batch' = [i \in 1..k |-> HashAt(last + i)]
          /\ \/ k = n /\ UNCHANGED faults
             \/ k < n /\ faults < MaxFaults /\ faults' = faults + 1
  /\ pc' = IF batch' = <<>> THEN "loop" ELSE "applying"
  /\ advanced' = FALSE
  /\ UNCHANGED <<node, tables, kv, last, check, astray>>

(* process_block: one block, one transaction. *)
ProcessBlock ==
  /\ pc = "applying" /\ batch # <<>>
  /\ LET hash == Head(batch)
     IN Ledger!ApplyBlock(Len(hash), hash, BlockTxs(hash))
  /\ batch' = Tail(batch)
  /\ advanced' = TRUE
  /\ UNCHANGED <<node, kv, pc, last, check, faults, astray>>

(* The transaction fails and is rolled back; the rest of the batch is
   dropped. *)
ProcessBlockFails ==
  /\ pc = "applying" /\ batch # <<>>
  /\ faults < MaxFaults /\ faults' = faults + 1
  /\ batch' = <<>>
  /\ UNCHANGED <<node, tables, kv, pc, last, advanced, check, astray>>

(* Read the pointer again if a block was applied; when that read fails the
   next pass starts from the old copy. *)
FinishBatch ==
  /\ pc = "applying" /\ batch = <<>>
  /\ \/ last' = (IF advanced THEN lastHeight ELSE last) /\ UNCHANGED <<faults, astray>>
     \/ /\ advanced /\ Misread /\ last' = last
        /\ faults < MaxFaults /\ faults' = faults + 1
  /\ pc' = "loop"
  /\ UNCHANGED <<node, tables, kv, batch, advanced, check>>

(* The process dies and starts again: only the database is left. *)
Crash ==
  /\ faults < MaxFaults /\ faults' = faults + 1
  /\ pc' = "waiting" /\ last' = -1 /\ batch' = <<>> /\ advanced' = FALSE
  /\ stage' = "none" /\ onChain' = {} /\ target' = -1
  /\ UNCHANGED <<node, tables, kv, astray>>

Loop == \/ StopWaiting \/ AskNode \/ CompareHashes \/ RollBack \/ Boot
        \/ VerifyRecent \/ FetchBatch \/ ProcessBlock \/ FinishBatch

Next == \/ NodeStep \/ BlockLoopTick \/ BlockLoopOffline
        \/ Loop \/ BootFails \/ VerifyFails \/ ProcessBlockFails \/ Crash

(* Both tasks are scheduled as long as the process runs; the node, failures
   and crashes owe nothing. *)
Spec == Init /\ [][Next]_vars /\ WF_vars(Loop) /\ WF_vars(BlockLoopTick)

-----------------------------------------------------------------------------
(* The UTXO set of the chain that ends in a block, read off the blocks
   themselves: created at one height and spent at none. *)
UnspentAlong(hash) ==
  LET Mined(h) == BlockTxs(SubSeq(hash, 1, h))
  IN {r \in [out : Creditable, height : 0..Len(hash)] :
        /\ r.out \in UNION {Credited(t) : t \in Mined(r.height)}
        /\ \A h \in 0..Len(hash), t \in Tx :
             t \in Mined(h) => r.out \notin Inputs[t]}

(* In the loop, the task's copy of the pointer is the database's, unless a
   read of the pointer has failed: a fetch never asks for the wrong heights
   after a rollback, a failed block or a restart. *)
PointerInStep == pc = "loop" /\ "misread" \notin astray => last = lastHeight

(* A rollback goes to the common ancestor as far as the node has answered,
   however the chain moved since: every height it keeps, of those answered,
   has the hash that was read, and the one above was given another. *)
RollsBackToAncestor ==
  [][lastHeight' < lastHeight /\ "misread" \notin astray =>
       /\ \A a \in onChain : a.height <= lastHeight' => RecordedAt(a.height) = {a.hash}
       /\ \E a \in onChain :
            a.height = lastHeight' + 1 /\ a.hash \notin RecordedAt(a.height)]_vars

(* When the recorded hashes are those of one chain, the ledger is the UTXO set
   of that chain, whatever forks were applied and rolled back before. *)
LedgerMatchesHashes ==
  \A tip \in RecordedAt(lastHeight) :
    (\A h \in 0..lastHeight : RecordedAt(h) = {SubSeq(tip, 1, h)})
      => utxos = UnspentAlong(tip)

(* It is so for one reorganization, through failures and crashes at any step,
   unless a pointer was misread or a rollback stopped above the fork. *)
UnbrokenLedger == reorgs <= 1 /\ astray = {} => LedgerMatchesHashes

(* Once the chain rests, the index comes to the tip and its last REORG_DEPTH
   hashes are the chain's, and it stays so, whichever calls failed on the way:
   only a failure on boot keeps it behind, and only a misread pointer leaves
   a hash out. *)
FollowsChain ==
  <>[](pc # "dead" =>
         /\ lastHeight = TipHeight
         /\ "misread" \notin astray => \A h \in Window : RecordedAt(h) = {HashAt(h)})
=============================================================================
