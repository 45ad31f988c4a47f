---------------------------- MODULE BlockIndexer ----------------------------
(***************************************************************************)
(* The block indexer's loop (backend/app/indexer/main_loop.py): one tick   *)
(* polls the node, checks the recent hashes for a reorganization, stores   *)
(* the missing blocks, advances the pointer and publishes the tip.  Every  *)
(* key is written by a commit of its own, so a crash or a failed write may *)
(* come between any two of them.  The keys survive a crash, the task's own *)
(* variables do not.                                                       *)
(*                                                                         *)
(* A block hash is a path in the chain (module Chain), so the height of a  *)
(* hash is its length.  Bodies are known by their hash.                    *)
(***************************************************************************)
EXTENDS Chain, FiniteSets

CONSTANTS
  ReorgDepth,  \* settings.REORG_DEPTH
  BatchSize,   \* settings.INDEXER_BATCH_SIZE
  RecentKept,  \* members kept in RECENT_BLOCKS (200 in the code)
  Absent,      \* no value under a key
  MaxFaults,    \* bound: failed node calls in a behaviour
  MaxBadWrites, \* bound: failed database writes in a behaviour
  MaxCrashes,   \* bound: crashes of the process in a behaviour
  MaxTroubles   \* bound: all of these together

ASSUME BlockIndexerAssumption ==
  /\ ReorgDepth \in Nat /\ BatchSize \in Nat \ {0} /\ RecentKept \in Nat \ {0}
  /\ {MaxFaults, MaxBadWrites, MaxCrashes, MaxTroubles} \subseteq Nat
  /\ Absent \notin BlockHash

VARIABLES
  byHeight,   \* BLOCK_BY_HEIGHT: height -> hash
  bodies,     \* BLOCK_BY_HASH: the hashes with a stored block
  recent,     \* RECENT_BLOCKS: members; the score of a hash is its height
  pointer,    \* INDEXER_LAST_HEIGHT, -1 when absent
  tipHeight,  \* TIP_HEIGHT, -1 when absent
  tipHash,    \* TIP_HASH
  phase,      \* INDEXER_STATUS.phase
  pc,         \* where the task is in its tick
  tip,        \* the tick's tip
  start,      \* the tick's first height to store
  queue,      \* fetched blocks still to be stored, by hash
  stored,     \* max_h: highest height stored by the tick
  doomed,     \* the height and hash a reorg check is dropping
  bestHash,   \* the tick's best block hash
  faults, badWrites, crashes

keys  == <<byHeight, bodies, recent, pointer, tipHeight, tipHash, phase>>
local == <<tip, start, queue, stored, doomed, bestHash>>
count == <<faults, badWrites, crashes>>
vars  == <<node, keys, pc, local, count>>

Writing == {"dropHeight", "dropBody", "rewind", "storeHeight", "storeBody",
            "storeRecent", "trim", "advance", "status", "caughtUp",
            "setTipHeight", "setTipHash", "offline"}
Calling == {"poll", "fetch", "best"}

TypeOK ==
  /\ byHeight \in [0..MaxChain -> BlockHash \cup {Absent}]
  /\ bodies \subseteq BlockHash /\ recent \subseteq BlockHash
  /\ pointer \in -1..MaxChain /\ tipHeight \in -1..MaxChain
  /\ tipHash \in BlockHash \cup {Absent}
  /\ phase \in {"none", "syncing", "live", "rpc_offline"}
  /\ pc \in Writing \cup Calling \cup {"boot", "check", "dead"}
  /\ tip \in 0..MaxChain /\ start \in 0..(MaxChain + 1)
  /\ queue \in Seq(BlockHash) /\ stored \in -1..MaxChain
  /\ doomed \in BlockHash /\ bestHash \in BlockHash

Idle ==  \* the task's variables at the head of a tick
  /\ tip' = 0 /\ start' = 0 /\ queue' = <<>> /\ stored' = -1
  /\ doomed' = <<>> /\ bestHash' = <<>>

Init ==
  /\ ChainInit
  /\ byHeight = [h \in 0..MaxChain |-> Absent]
  /\ bodies = {} /\ recent = {} /\ pointer = -1
  /\ tipHeight = -1 /\ tipHash = Absent /\ phase = "none"
  /\ pc = "boot"
  /\ tip = 0 /\ start = 0 /\ queue = <<>> /\ stored = -1
  /\ doomed = <<>> /\ bestHash = <<>>
  /\ faults = 0 /\ badWrites = 0 /\ crashes = 0

Untroubled == faults + badWrites + crashes < MaxTroubles

NodeStep == (Extend \/ Reorg) /\ UNCHANGED <<keys, pc, local, count>>

-----------------------------------------------------------------------------
At(here, there) == pc = here /\ pc' = there /\ UNCHANGED <<node, count>>

(* The phase is seeded before the first tick; that write may fail. *)
Boot ==
  /\ At("boot", "poll")
  /\ phase' \in {phase, "syncing"}
  /\ UNCHANGED <<byHeight, bodies, recent, pointer, tipHeight, tipHash, local>>

(* A slip: the reorg check is left out. *)
PollWithoutCheck ==
  /\ At("poll", "fetch")
  /\ tip' = TipHeight /\ start' = pointer + 1
  /\ UNCHANGED <<keys, queue, stored, doomed, bestHash>>

(* getblockcount, then the pointer; a reorg check only past the genesis. *)
PollTip ==
  /\ At("poll", IF pointer > 0 THEN "check" ELSE "fetch")
  /\ tip' = TipHeight /\ start' = pointer + 1
  /\ UNCHANGED <<keys, queue, stored, doomed, bestHash>>

(* A slip: one height short of REORG_DEPTH. *)
ShortWindow == {h \in 1..pointer : h > pointer - ReorgDepth + 1}

(* The heights _reorg_check compares, and those whose cached hash is not the
   chain's: a height with no cached hash, or that the node no longer has, is
   skipped. *)
Window == {h \in 1..pointer : h > pointer - ReorgDepth}

Mismatched ==
  {h \in Window :
     h <= TipHeight /\ byHeight[h] # Absent /\ byHeight[h] # HashAt(h)}

(* _reorg_check walks down from the pointer and stops at the first mismatch,
   which is the highest. *)
ReorgFound ==
  /\ Mismatched # {}
  /\ At("check", "dropHeight")
  /\ \E h \in Mismatched :
       /\ \A m \in Mismatched : m <= h
       /\ doomed' = byHeight[h]
  /\ UNCHANGED <<keys, tip, start, queue, stored, bestHash>>

NoReorg ==
  /\ Mismatched = {}
  /\ At("check", "fetch")
  /\ UNCHANGED <<keys, local>>

(* A slip: the hash stays listed. *)
DropHeightForgotten ==
  /\ At("dropHeight", "dropBody")
  /\ UNCHANGED <<keys, local>>

DropHeight ==
  /\ At("dropHeight", "dropBody")
  /\ byHeight' = [byHeight EXCEPT ![Len(doomed)] = Absent]
  /\ UNCHANGED <<bodies, recent, pointer, tipHeight, tipHash, phase, local>>

DropBody ==
  /\ At("dropBody", "rewind")
  /\ bodies' = bodies \ {doomed}
  /\ UNCHANGED <<byHeight, recent, pointer, tipHeight, tipHash, phase, local>>

(* A slip: the pointer stays where it was. *)
RewindForgotten ==
  /\ At("rewind", "fetch")
  /\ UNCHANGED <<keys, local>>

(* rollback_to = max(0, h - 1), and h is never below 1. *)
RewindPointer ==
  /\ At("rewind", "fetch")
  /\ pointer' = Len(doomed) - 1
  /\ start' = Len(doomed)
  /\ UNCHANGED <<byHeight, bodies, recent, tipHeight, tipHash, phase,
                 tip, queue, stored, doomed, bestHash>>

-----------------------------------------------------------------------------
CaughtUp == /\ start > tip /\ At("fetch", "caughtUp")
            /\ UNCHANGED <<keys, local>>

ReportCaughtUp ==
  /\ At("caughtUp", "best")
  /\ phase' = "live"
  /\ UNCHANGED <<byHeight, bodies, recent, pointer, tipHeight, tipHash, local>>

(* _fetch_and_store_range: the hashes of start..end up to the first the node
   has not, the bodies up to the first that fails. *)
LastToFetch == IF tip < start + BatchSize - 1 THEN tip ELSE start + BatchSize - 1

FetchRange ==
  /\ pc = "fetch" /\ start <= tip
  /\ pc' = "storeHeight"
  /\ LET found == {h \in start..LastToFetch : h <= TipHeight}
         n     == Cardinality(found)
     IN \E k \in 0..n :
          /\ queue' = [i \in 1..k |-> HashAt(start + i - 1)]
          /\ IF k = n THEN UNCHANGED faults
             ELSE faults < MaxFaults /\ Untroubled /\ faults' = faults + 1
  /\ stored' = start - 1
  /\ UNCHANGED <<node, keys, badWrites, crashes, tip, start, doomed, bestHash>>

StoreHeight ==
  /\ queue # <<>> /\ At("storeHeight", "storeBody")
  /\ byHeight' = [byHeight EXCEPT ![Len(Head(queue))] = Head(queue)]
  /\ UNCHANGED <<bodies, recent, pointer, tipHeight, tipHash, phase, local>>

StoreBody ==
  /\ At("storeBody", "storeRecent")
  /\ bodies' = bodies \cup {Head(queue)}
  /\ UNCHANGED <<byHeight, recent, pointer, tipHeight, tipHash, phase, local>>

(* A slip: max_h counts the next height. *)
StoreRecentOffByOne ==
  /\ At("storeRecent", "storeHeight")
  /\ recent' = recent \cup {Head(queue)}
  /\ stored' = Len(Head(queue)) + 1
  /\ queue' = Tail(queue)
  /\ UNCHANGED <<byHeight, bodies, pointer, tipHeight, tipHash, phase,
                 tip, start, doomed, bestHash>>

StoreRecent ==
  /\ At("storeRecent", "storeHeight")
  /\ recent' = recent \cup {Head(queue)}
  /\ stored' = Len(Head(queue))
  /\ queue' = Tail(queue)
  /\ UNCHANGED <<byHeight, bodies, pointer, tipHeight, tipHash, phase,
                 tip, start, doomed, bestHash>>

EndOfRange ==
  /\ queue = <<>>
  /\ At("storeHeight", IF stored >= start THEN "trim" ELSE "best")
  /\ UNCHANGED <<keys, local>>

(* zremrangebyrank(0, -201) keeps the members of highest score; which of two
   forks' blocks goes first is SQLite's choice. *)
TrimRecent ==
  /\ At("trim", "advance")
  /\ recent' \in
       IF Cardinality(recent) <= RecentKept THEN {recent}
       ELSE {kept \in SUBSET recent :
               /\ Cardinality(kept) = RecentKept
               /\ \A k \in kept, r \in recent \ kept : Len(k) >= Len(r)}
  /\ UNCHANGED <<byHeight, bodies, pointer, tipHeight, tipHash, phase, local>>

(* A slip: the pointer goes to the tip, stored or not. *)
AdvanceToTip ==
  /\ At("advance", "status")
  /\ pointer' = tip
  /\ UNCHANGED <<byHeight, bodies, recent, tipHeight, tipHash, phase, local>>

Advance ==
  /\ At("advance", "status")
  /\ pointer' = stored
  /\ UNCHANGED <<byHeight, bodies, recent, tipHeight, tipHash, phase, local>>

ReportProgress ==
  /\ At("status", "best")
  /\ phase' = IF stored < tip - 1 THEN "syncing" ELSE "live"
  /\ UNCHANGED <<byHeight, bodies, recent, pointer, tipHeight, tipHash, local>>

-----------------------------------------------------------------------------
(* getbestblockhash, asked long after the tick's getblockcount. *)
ReadBestHash ==
  /\ At("best", "setTipHeight")
  /\ bestHash' = TipHash
  /\ UNCHANGED <<keys, tip, start, queue, stored, doomed>>

SetTipHeight ==
  /\ At("setTipHeight", "setTipHash")
  /\ tipHeight' = tip
  /\ UNCHANGED <<byHeight, bodies, recent, pointer, tipHash, phase, local>>

SetTipHash ==
  /\ At("setTipHash", "poll")
  /\ tipHash' = bestHash
  /\ Idle
  /\ UNCHANGED <<byHeight, bodies, recent, pointer, tipHeight, phase>>

-----------------------------------------------------------------------------
(* The node does not answer.  The reorg check swallows that and the tick goes
   on; elsewhere the tick ends, after reporting the node offline when the
   connection itself failed. *)
CallFails ==
  /\ faults < MaxFaults /\ Untroubled /\ faults' = faults + 1
  /\ \/ pc = "check" /\ pc' = "fetch" /\ UNCHANGED local
     \/ pc \in Calling /\ (pc = "fetch" => start <= tip)
        /\ pc' \in {"offline", "poll"} /\ Idle
  /\ UNCHANGED <<node, keys, badWrites, crashes>>

ReportOffline ==
  /\ At("offline", "poll")
  /\ phase' = "rpc_offline"
  /\ UNCHANGED <<byHeight, bodies, recent, pointer, tipHeight, tipHash, local>>

(* A write fails, the retries for a locked database being exhausted: storing a
   block ends the range, the offline report is outside every handler and ends
   the task, and any other write ends the tick. *)
WriteFails ==
  /\ badWrites < MaxBadWrites /\ Untroubled /\ badWrites' = badWrites + 1
  /\ \/ pc \in {"storeHeight", "storeBody", "storeRecent"} /\ queue # <<>>
        /\ pc' = "storeHeight" /\ queue' = <<>>
        /\ UNCHANGED <<tip, start, stored, doomed, bestHash>>
     \/ pc = "offline" /\ pc' = "dead" /\ UNCHANGED local
     \/ pc \in Writing \ {"storeHeight", "storeBody", "storeRecent", "offline"}
        /\ pc' = "poll" /\ Idle
  /\ UNCHANGED <<node, keys, faults, crashes>>

Crash ==
  /\ crashes < MaxCrashes /\ Untroubled /\ crashes' = crashes + 1
  /\ pc' = "boot" /\ Idle
  /\ UNCHANGED <<node, keys, faults, badWrites>>

Tick == \/ Boot \/ PollTip \/ ReorgFound \/ NoReorg \/ DropHeight \/ DropBody
        \/ RewindPointer \/ CaughtUp \/ ReportCaughtUp \/ FetchRange
        \/ StoreHeight \/ StoreBody \/ StoreRecent \/ EndOfRange \/ TrimRecent
        \/ Advance \/ ReportProgress \/ ReadBestHash \/ SetTipHeight
        \/ SetTipHash \/ ReportOffline

Next == NodeStep \/ Tick \/ CallFails \/ WriteFails \/ Crash

(* The task is scheduled as long as the process runs; the node, failures and
   crashes owe nothing. *)
Spec == Init /\ [][Next]_vars /\ WF_vars(Tick)

-----------------------------------------------------------------------------
(* No height up to the pointer is missing, except between the writes of a
   rollback: "the pointer never advances past a hole". *)
NoHole ==
  pc \notin {"dropBody", "rewind"} =>
    \A h \in 0..pointer : byHeight[h] # Absent

(* That holds as long as no write fails and the process does not die, whatever
   the node does and however its calls fail. *)
UnbrokenNoHole == badWrites = 0 /\ crashes = 0 => NoHole

(* A hash listed at or below the pointer has its block: a reader that takes
   the hash from one key and the block from the other finds both, whatever
   crash or failed write came between the two. *)
BodyBehindHash ==
  \A h \in 0..pointer : byHeight[h] # Absent => byHeight[h] \in bodies

(* A tick advances the pointer only over heights whose hash and block are both
   stored, and a rollback moves it just below a height that has lost its hash;
   nothing else moves it. *)
PointerMovesOverStored ==
  [][/\ \A h \in (pointer + 1)..pointer' :
          byHeight[h] # Absent /\ byHeight[h] \in bodies
     /\ pointer' < pointer => byHeight[pointer' + 1] = Absent]_vars

(* Once the chain rests, the stored blocks come to be the chain's and the tip
   keys the chain's tip: a reorganization within the window is repaired, one
   height per tick.  A failed write or a crash may leave a hole for good. *)
FollowsChain ==
  <>[](badWrites = 0 /\ crashes = 0 =>
         /\ pointer = TipHeight
         /\ tipHeight = TipHeight /\ tipHash = TipHash
         /\ \A h \in 0..pointer : byHeight[h] = HashAt(h))

(* Whatever failed, as long as the task lives the index reaches the tip and
   lists no orphan. *)
ListsNoOrphan ==
  <>[](pc # "dead" =>
         /\ pointer = TipHeight
         /\ tipHeight = TipHeight /\ tipHash = TipHash
         /\ \A h \in 0..pointer : byHeight[h] \in {Absent, HashAt(h)})
=============================================================================
