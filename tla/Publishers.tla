----------------------------- MODULE Publishers -----------------------------
(***************************************************************************)
(* What the indexer announces (backend/app/indexer/main_loop.py): the tip  *)
(* that the block loop polls, stores under two keys and publishes, the     *)
(* progress of the sync, and the mempool summaries of the mempool loop.    *)
(*                                                                         *)
(* The node goes through the best blocks 1, 2, ...; Height gives the height *)
(* of each, so that a reorganization may keep it.  A hash is the block's   *)
(* number.  How blocks are stored is the subject of BlockIndexer: here one *)
(* batch moves the index some blocks along.                                *)
(***************************************************************************)
EXTENDS EventBus, Integers

CONSTANTS
  Height,       \* Height[b]: the height of the b-th best block
  BatchSize,    \* INDEXER_BATCH_SIZE
  MaxMempool,   \* bound: mempool summaries published
  MaxFaults     \* bound: calls to the node or the store that fail

ASSUME PublishersAssumption ==
  /\ Height \in Seq(Nat \ {0}) /\ Height # <<>>
  /\ BatchSize \in Nat \ {0} /\ MaxMempool \in Nat /\ MaxFaults \in Nat

VARIABLES
  best,       \* the node's best block
  tipHeight,  \* Keys.TIP_HEIGHT, 0 when absent
  tipHash,    \* Keys.TIP_HASH, 0 when absent
  phase,      \* the phase field of Keys.INDEXER_STATUS
  indexed,    \* the best block the index has reached
  block,      \* the block loop: [pc, tip, hash, prev]
  mempool,    \* the mempool loop: [pc, left]
  faults,
  lost        \* history: a new tip was stored and never announced

publishers == <<best, tipHeight, tipHash, phase, indexed, block, mempool, faults, lost>>

Best == DOMAIN Height

\* A process that finds an empty store, or the keys of the one before it.
\* The phase is set to syncing before the first tick.
PublishersInit(stored, faultsLeft, mempoolLeft) ==
  /\ best = 1
  /\ tipHeight = (IF stored = 0 THEN 0 ELSE Height[stored]) /\ tipHash = stored
  /\ phase = "syncing" /\ indexed = stored
  /\ block = [pc |-> "poll", tip |-> 0, hash |-> 0, prev |-> 0]
  /\ mempool = [pc |-> "status", left |-> mempoolLeft]
  /\ faults = MaxFaults - faultsLeft /\ lost = FALSE

Message(type, height, hash) == [type |-> type, height |-> height, hash |-> hash]

NodeMoves ==
  /\ best + 1 \in Best
  /\ best' = best + 1
  /\ UNCHANGED <<bus, tipHeight, tipHash, phase, indexed, block, mempool, faults, lost>>

Fault == faults < MaxFaults /\ faults' = faults + 1
-----------------------------------------------------------------------------
(* The block loop *)
PollTip ==
  /\ block.pc = "poll"
  /\ block' = [block EXCEPT !.pc = "batch", !.tip = best]
  /\ UNCHANGED <<bus, best, tipHeight, tipHash, phase, indexed, mempool, faults, lost>>

CaughtUp ==
  /\ block.pc = "batch" /\ indexed >= block.tip
  /\ phase' = "live"
  /\ block' = [block EXCEPT !.pc = "hash"]
  /\ UNCHANGED <<bus, best, tipHeight, tipHash, indexed, mempool, faults, lost>>

\* One batch, its status and its sync event, which carries the height reached.
SyncBatch ==
  LET reached == IF indexed + BatchSize < block.tip THEN indexed + BatchSize ELSE block.tip
  IN /\ block.pc = "batch" /\ indexed < block.tip
     /\ indexed' = reached
     /\ phase' = IF Height[reached] < Height[block.tip] - 1 THEN "syncing" ELSE "live"
     /\ Publish(Message("sync", Height[reached], 0))
     /\ block' = [block EXCEPT !.pc = "hash"]
     /\ UNCHANGED <<best, tipHeight, tipHash, mempool, faults, lost>>

(* A slip: the stored height is read after it was replaced. *)
ReadBestHashTooLate ==
  /\ block.pc = "hash"
  /\ block' = [block EXCEPT !.pc = "height", !.hash = best, !.prev = Height[block.tip]]
  /\ UNCHANGED <<bus, best, tipHeight, tipHash, phase, indexed, mempool, faults, lost>>

\* getbestblockhash, then the height stored by the last tick.
ReadBestHash ==
  /\ block.pc = "hash"
  /\ block' = [block EXCEPT !.pc = "height", !.hash = best, !.prev = tipHeight]
  /\ UNCHANGED <<bus, best, tipHeight, tipHash, phase, indexed, mempool, faults, lost>>

StoreTipHeight ==
  /\ block.pc = "height"
  /\ tipHeight' = Height[block.tip]
  /\ block' = [block EXCEPT !.pc = "tiphash"]
  /\ UNCHANGED <<bus, best, tipHash, phase, indexed, mempool, faults, lost>>

StoreTipHash ==
  /\ block.pc = "tiphash"
  /\ tipHash' = block.hash
  /\ block' = [block EXCEPT !.pc = "announce"]
  /\ UNCHANGED <<bus, best, tipHeight, phase, indexed, mempool, faults, lost>>

\* A failed write is logged and the tick goes on to the announcement.
StoreTipFails ==
  /\ block.pc \in {"height", "tiphash"} /\ Fault
  /\ block' = [block EXCEPT !.pc = "announce"]
  /\ UNCHANGED <<bus, best, tipHeight, tipHash, phase, indexed, mempool, lost>>

Announce ==
  /\ block.pc = "announce"
  /\ block' = [block EXCEPT !.pc = "poll"]
  /\ IF block.prev # Height[block.tip]
     THEN Publish(Message("block", Height[block.tip], block.hash))
     ELSE UNCHANGED bus
  /\ UNCHANGED <<best, tipHeight, tipHash, phase, indexed, mempool, faults, lost>>

\* The block's body cannot be fetched: the failure is logged, and the next
\* tick finds the height already stored.
AnnounceFails ==
  /\ block.pc = "announce" /\ block.prev # Height[block.tip] /\ Fault
  /\ block' = [block EXCEPT !.pc = "poll"]
  /\ lost' = (lost \/ tipHeight = Height[block.tip])
  /\ UNCHANGED <<bus, best, tipHeight, tipHash, phase, indexed, mempool>>

\* A lost connection ends the tick.
Offline ==
  /\ block.pc \in {"poll", "batch", "hash"} /\ Fault
  /\ phase' = "rpc_offline"
  /\ block' = [block EXCEPT !.pc = "poll"]
  /\ UNCHANGED <<bus, best, tipHeight, tipHash, indexed, mempool, lost>>
-----------------------------------------------------------------------------
(* The mempool loop *)
MempoolStatus ==
  /\ mempool.pc = "status" /\ phase = "live"
  /\ mempool' = [mempool EXCEPT !.pc = "build"]
  /\ UNCHANGED <<bus, best, tipHeight, tipHash, phase, indexed, block, faults, lost>>

MempoolPublish ==
  /\ mempool.pc = "build" /\ mempool.left > 0
  /\ Publish(Message("mempool", 0, 0))
  /\ mempool' = [pc |-> "status", left |-> mempool.left - 1]
  /\ UNCHANGED <<best, tipHeight, tipHash, phase, indexed, block, faults, lost>>

\* The handlers of both kinds of failure end in the pause before the next turn.
MempoolFails ==
  /\ mempool.pc = "build" /\ Fault
  /\ mempool' = [mempool EXCEPT !.pc = "status"]
  /\ UNCHANGED <<bus, best, tipHeight, tipHash, phase, indexed, block, lost>>

BlockLoop ==
  \/ PollTip \/ CaughtUp \/ SyncBatch \/ ReadBestHash
  \/ StoreTipHeight \/ StoreTipHash \/ StoreTipFails
  \/ Announce \/ AnnounceFails \/ Offline

MempoolLoop == MempoolStatus \/ MempoolPublish \/ MempoolFails
=============================================================================
