-------------------------- MODULE SnapshotRewards --------------------------
(***************************************************************************)
(* Pool reward snapshots (backend/app/services/pool_rewards.py, the        *)
(* snapshot operations of backend/app/sqlite_store.py and the admin routes *)
(* of backend/app/routes/pool_rewards.py).  A request creates a draft and  *)
(* starts a background task that scans a height range, writes one entry    *)
(* per registered recipient and one row per recipient and block, and turns *)
(* the draft into a generated snapshot.  Meanwhile an administrator        *)
(* changes, deletes and cleans up snapshots, and the indexers follow the   *)
(* chain.                                                                  *)
(*                                                                         *)
(* The connection is in autocommit: the statements of one operation commit *)
(* one by one.  The write lock keeps other writers out in between, but     *)
(* neither readers nor a crash.  Rewards are counted in blocks.            *)
(***************************************************************************)
EXTENDS Integers, FiniteSets

CONSTANTS
  Snapshot,       \* ids, never reused (AUTOINCREMENT)
  HeightRange,    \* height ranges that are asked for, sets of heights
  Height,         \* the heights, 1..n
  Recipients,     \* Recipients[c]: addresses credited by coinbase c
  Registered,     \* payout addresses of active pools
  SettableStatus, \* statuses an administrator asks for
  SettableEntry,  \* and those asked for single entries
  Absent,         \* no hash cached at a height
  MaxReorgs,      \* bound: reorganizations (0 or 1)
  MaxFaults,      \* bound: exceptions inside a scan or the request for it
  MaxCrashes      \* bound: crashes, and failures of a scan's own handler

Coinbase == Height \X {0, 1}   \* a coinbase, by height and fork

Status      == {"draft", "generated", "approved", "paid", "rejected", "failed"}
EntryStatus == {"pending", "approved", "paid", "rejected"}

ASSUME SnapshotAssumption ==
  /\ IsFiniteSet(Height) /\ Height = 1..Cardinality(Height)
  /\ HeightRange \subseteq SUBSET Height /\ {} \notin HeightRange
  /\ DOMAIN Recipients = Coinbase
  /\ Absent \notin Coinbase
  /\ SettableStatus \subseteq Status /\ SettableEntry \subseteq EntryStatus
  /\ MaxReorgs \in 0..1 /\ MaxFaults \in Nat /\ MaxCrashes \in Nat

VARIABLES
  fork,         \* the fork the chain is on
  blockAt,      \* the block index: height -> cached block, by its coinbase
  credited,     \* the address index: coinbases with address_txs rows
  indexedTo,    \* the address index's last height
  snapshots,    \* pool_reward_snapshots: id -> [status, range, matched]
  entries,      \* pool_reward_snapshot_entries
  rewardBlocks, \* pool_reward_blocks
  scan,         \* requests and their tasks: id -> [pc, seen, found]
  sweep,        \* the delete in progress, which holds the write lock
  cascade,      \* the status changes whose entries are still to follow
  faults, crashes,
  adrift        \* history: snapshots left or made a draft with no scan to end it

index  == <<fork, blockAt, credited, indexedTo>>
tables == <<snapshots, entries, rewardBlocks>>
vars   == <<index, tables, scan, sweep, cascade, faults, crashes, adrift>>

NoTotals    == -1   \* the totals of a snapshot whose scan has not finished

Reward == Height \X Registered
Idle   == [pc |-> "none", seen |-> {}, found |-> {}]
NoSweep == [ids |-> {}, stage |-> "none", rows |-> FALSE]

SnapshotType == [status : Status \cup {"none"}, range : HeightRange \cup {{}},
                 matched : {NoTotals} \cup (0..Cardinality(Height))]

TypeOK ==
  /\ fork \in {0, 1} /\ indexedTo \in Height \cup {0}
  /\ blockAt \in [Height -> Coinbase \cup {Absent}]
  /\ credited \subseteq Coinbase
  /\ snapshots \in [Snapshot -> SnapshotType]
  /\ entries \subseteq [snap : Snapshot, addr : Registered,
                        count : 1..Cardinality(Height), status : EntryStatus]
  /\ rewardBlocks \subseteq [snap : Snapshot, height : Height, addr : Registered]
  /\ scan \in [Snapshot ->
                 [pc : {"none", "created", "start", "covered", "hashes", "rows",
                        "entries", "blocks", "finalize", "lost", "scrub", "failed"},
                  seen : SUBSET Coinbase, found : SUBSET Reward]]
  /\ sweep \in [ids : SUBSET Snapshot, stage : {"none", "blocks", "entries", "snapshots"},
                rows : BOOLEAN]
  /\ cascade \in SUBSET (Snapshot \X {"approved", "paid", "rejected"})
  /\ adrift \subseteq Snapshot

ChainAt(h) == <<h, fork>>

Init ==
  /\ fork = 0
  /\ blockAt = [h \in Height |-> Absent]
  /\ credited = {} /\ indexedTo = 0
  /\ snapshots = [s \in Snapshot |->
                    [status |-> "none", range |-> {}, matched |-> NoTotals]]
  /\ entries = {} /\ rewardBlocks = {}
  /\ scan = [s \in Snapshot |-> Idle]
  /\ sweep = NoSweep /\ cascade = {}
  /\ faults = 0 /\ crashes = 0 /\ adrift = {}

Exists(s) == snapshots[s].status # "none"
Unlocked  == sweep = NoSweep
-----------------------------------------------------------------------------
(* The indexers, as far as a scan can see them: the block indexer drops the
   highest orphan and stores what is missing, the address index applies the
   next block and rolls back to below the lowest orphan. *)
DropBlock ==
  /\ \E h \in Height :
       /\ blockAt[h] \notin {Absent, ChainAt(h)}
       /\ \A k \in Height : k > h => blockAt[k] \in {Absent, ChainAt(k)}
       /\ blockAt' = [blockAt EXCEPT ![h] = Absent]
  /\ UNCHANGED <<fork, credited, indexedTo>>

StoreBlock ==
  /\ \E h \in Height :
       /\ blockAt[h] = Absent
       /\ \A k \in Height : k < h => blockAt[k] # Absent
       /\ blockAt' = [blockAt EXCEPT ![h] = ChainAt(h)]
  /\ UNCHANGED <<fork, credited, indexedTo>>

ApplyBlock ==
  /\ indexedTo + 1 \in Height
  /\ credited' = credited \cup {ChainAt(indexedTo + 1)}
  /\ indexedTo' = indexedTo + 1
  /\ UNCHANGED <<fork, blockAt>>

RollBack ==
  /\ \E h \in Height :
       /\ \E c \in credited : c[1] = h /\ c # ChainAt(h)
       /\ \A c \in credited : c[1] < h => c = ChainAt(c[1])
       /\ credited' = {c \in credited : c[1] < h}
       /\ indexedTo' = h - 1
  /\ UNCHANGED <<fork, blockAt>>

Reorg ==
  /\ fork < MaxReorgs /\ fork' = 1
  /\ UNCHANGED <<blockAt, credited, indexedTo>>

Indexers == /\ DropBlock \/ StoreBlock \/ ApplyBlock \/ RollBack \/ Reorg
            /\ UNCHANGED <<tables, scan, sweep, cascade, faults, crashes, adrift>>
-----------------------------------------------------------------------------
(* A range is taken by a snapshot that neither failed nor was rejected. *)
Taken(range) ==
  \E s \in Snapshot : /\ snapshots[s].range = range
                      /\ snapshots[s].status \notin {"none", "failed", "rejected"}

(* create_snapshot: insert the draft, unless the range is taken.
   allow_duplicate skips the check. *)
Create(s, range, allowDuplicate) ==
  /\ Unlocked
  /\ snapshots[s].status = "none" /\ snapshots[s].range = {}
  /\ allowDuplicate \/ ~ Taken(range)
  /\ snapshots' = [snapshots EXCEPT ![s] =
                     [status |-> "draft", range |-> range, matched |-> NoTotals]]
  /\ scan' = [scan EXCEPT ![s].pc = "created"]
  /\ UNCHANGED <<index, entries, rewardBlocks, sweep, cascade, faults, crashes, adrift>>

(* One step of the background task of s. *)
Goto(s, here, there) ==
  /\ scan[s].pc = here
  /\ scan' = [scan EXCEPT ![s].pc = there]
  /\ UNCHANGED <<index, cascade, faults, crashes, adrift>>

(* The request reads the row back, and starts the scan; without a row there
   is nothing to start. *)
StartScan(s) ==
  /\ Goto(s, "created", IF Exists(s) THEN "start" ELSE "none")
  /\ UNCHANGED <<tables, sweep>>

(* The read fails or the request is cancelled: the draft stays, without a scan. *)
RequestBreaks(s) ==
  /\ faults < MaxFaults /\ faults' = faults + 1
  /\ scan[s].pc = "created"
  /\ scan' = [scan EXCEPT ![s].pc = "none"]
  /\ adrift' = adrift \cup {s}
  /\ UNCHANGED <<index, tables, sweep, cascade, crashes>>

(* A slip: a range that is not covered ends the task without an error. *)
CheckCoverageSilently(s) ==
  /\ Goto(s, "start",
       IF ~ Exists(s) \/ \E h \in snapshots[s].range : h > indexedTo
       THEN "none" ELSE "covered")
  /\ UNCHANGED <<tables, sweep>>

(* A slip: the address index is taken to be complete. *)
CoverageAssumed(s) ==
  /\ Goto(s, "start", IF Exists(s) THEN "covered" ELSE "none")
  /\ UNCHANGED <<tables, sweep>>

(* The row is read, and the address index must have reached the end of the
   range; a snapshot deleted before it starts ends the task. *)
CheckCoverage(s) ==
  /\ Goto(s, "start",
       IF ~ Exists(s) THEN "none"
       ELSE IF \E h \in snapshots[s].range : h > indexedTo THEN "scrub" ELSE "covered")
  /\ UNCHANGED <<tables, sweep>>

(* coinbase_reward_scan: the hash of each height, the coinbase of each block,
   the recipients of each coinbase.  A missing hash, or the missing block of a
   hash the block indexer has replaced since, fails the scan. *)
ReadHashes(s) ==
  /\ scan[s].pc = "covered"
  /\ scan' = [scan EXCEPT ![s].pc = "hashes",
                ![s].seen = {blockAt[h] : h \in snapshots[s].range} \ {Absent}]
  /\ UNCHANGED <<index, tables, sweep, cascade, faults, crashes, adrift>>

ReadBlocks(s) ==
  LET missing == {h \in snapshots[s].range : \A c \in scan[s].seen : c[1] # h}
      dropped == {c \in scan[s].seen : blockAt[c[1]] # c}
  IN /\ \/ missing = {} /\ Goto(s, "hashes", "rows")
        \/ (missing # {} \/ dropped # {}) /\ Goto(s, "hashes", "scrub")
     /\ UNCHANGED <<tables, sweep>>

ReadRecipients(s) ==
  /\ scan[s].pc = "rows"
  /\ scan' = [scan EXCEPT ![s].pc = "entries",
                ![s].found = {r \in Reward :
                   \E c \in scan[s].seen \cap credited :
                     c[1] = r[1] /\ r[2] \in Recipients[c]}]
  /\ UNCHANGED <<index, tables, sweep, cascade, faults, crashes, adrift>>

(* A slip: an entry counts every block that matched, not its address's own. *)
EntryRowsOfAll(s) ==
  {[snap |-> s, addr |-> a, status |-> "pending",
    count |-> Cardinality({r[1] : r \in scan[s].found})] :
     a \in {r[2] : r \in scan[s].found}}

(* One entry per registered recipient, one row per recipient and block. *)
EntryRows(s) ==
  {[snap |-> s, addr |-> a, status |-> "pending",
    count |-> Cardinality({r \in scan[s].found : r[2] = a})] :
     a \in {r[2] : r \in scan[s].found}}

BlockRows(s) ==
  {[snap |-> s, height |-> r[1], addr |-> r[2]] : r \in scan[s].found}

InsertEntries(s) ==
  /\ Unlocked /\ Goto(s, "entries", "blocks")
  /\ entries' = entries \cup EntryRows(s)
  /\ UNCHANGED <<snapshots, rewardBlocks, sweep>>

InsertBlocks(s) ==
  /\ Unlocked /\ Goto(s, "blocks", "finalize")
  /\ rewardBlocks' = rewardBlocks \cup BlockRows(s)
  /\ UNCHANGED <<snapshots, entries, sweep>>

(* A slip: recipients are counted instead of blocks. *)
FinalizeCountingRows(s) ==
  /\ Unlocked /\ snapshots[s].status = "draft"
  /\ Goto(s, "finalize", "none")
  /\ snapshots' = [snapshots EXCEPT ![s].status = "generated",
                      ![s].matched = Cardinality(scan[s].found)]
  /\ UNCHANGED <<entries, rewardBlocks, sweep>>

(* snapshot_finalize: a compare-and-set on the draft status. *)
Finalize(s) ==
  /\ Unlocked
  /\ \/ /\ snapshots[s].status = "draft"
        /\ Goto(s, "finalize", "none")
        /\ snapshots' = [snapshots EXCEPT ![s].status = "generated",
                ![s].matched = Cardinality({r[1] : r \in scan[s].found})]
     \/ /\ snapshots[s].status # "draft"
        /\ Goto(s, "finalize", "lost")
        /\ UNCHANGED snapshots
  /\ UNCHANGED <<entries, rewardBlocks, sweep>>

(* A slip: a deleted draft is treated like one whose status was changed. *)
LostDraftLeft(s) ==
  /\ Goto(s, "lost", "none")
  /\ UNCHANGED <<tables, sweep>>

(* The draft went away during the scan: results of a deleted snapshot are
   cleared, those of one whose status was changed are left. *)
AfterLostDraft(s) ==
  /\ \/ Exists(s) /\ Goto(s, "lost", "none") /\ UNCHANGED sweep
     \/ /\ ~ Exists(s) /\ Unlocked
        /\ Goto(s, "lost", "none")
        /\ sweep' = [ids |-> {s}, stage |-> "blocks", rows |-> FALSE]
  /\ UNCHANGED tables

(* Any exception inside the scan. *)
ScanFails(s) ==
  /\ faults < MaxFaults /\ faults' = faults + 1
  /\ scan[s].pc \notin {"none", "created", "scrub", "failed"}
  /\ scan' = [scan EXCEPT ![s].pc = "scrub"]
  /\ UNCHANGED <<index, tables, sweep, cascade, crashes, adrift>>

(* The handler clears what was written and marks a snapshot that is still a
   draft as failed. *)
ClearResults(s) ==
  /\ Unlocked /\ Goto(s, "scrub", "failed")
  /\ sweep' = [ids |-> {s}, stage |-> "blocks", rows |-> FALSE]
  /\ UNCHANGED tables

(* A slip: the draft guard is left out. *)
MarkFailedUnguarded(s) ==
  /\ Unlocked /\ Goto(s, "failed", "none")
  /\ snapshots' = IF Exists(s) THEN [snapshots EXCEPT ![s].status = "failed"]
                  ELSE snapshots
  /\ UNCHANGED <<entries, rewardBlocks, sweep>>

MarkFailed(s) ==
  /\ Unlocked /\ Goto(s, "failed", "none")
  /\ snapshots' = IF snapshots[s].status = "draft"
                  THEN [snapshots EXCEPT ![s].status = "failed"] ELSE snapshots
  /\ UNCHANGED <<entries, rewardBlocks, sweep>>

(* The handler itself fails, which is only logged. *)
HandlerFails(s) ==
  /\ crashes < MaxCrashes /\ crashes' = crashes + 1
  /\ scan[s].pc \in {"scrub", "failed"}
  /\ scan' = [scan EXCEPT ![s] = Idle]
  /\ UNCHANGED <<index, tables, sweep, cascade, faults, adrift>>
-----------------------------------------------------------------------------
(* The three DELETEs of snapshot_delete and snapshots_delete_by_status, or the
   first two, of snapshot_clear_results: each commits on its own. *)
Delete(s) ==
  /\ Unlocked /\ snapshots[s].range # {}
  /\ sweep' = [ids |-> {s}, stage |-> "blocks", rows |-> TRUE]
  /\ UNCHANGED <<index, tables, scan, cascade, faults, crashes, adrift>>

Cleanup ==
  /\ Unlocked
  /\ LET ids == {s \in Snapshot : snapshots[s].status \in {"failed", "draft"}}
     IN ids # {} /\ sweep' = [ids |-> ids, stage |-> "blocks", rows |-> TRUE]
  /\ UNCHANGED <<index, tables, scan, cascade, faults, crashes, adrift>>

SweepBlocks ==
  /\ sweep.stage = "blocks"
  /\ rewardBlocks' = {r \in rewardBlocks : r.snap \notin sweep.ids}
  /\ sweep' = [sweep EXCEPT !.stage = "entries"]
  /\ UNCHANGED <<index, snapshots, entries, scan, cascade, faults, crashes, adrift>>

SweepEntries ==
  /\ sweep.stage = "entries"
  /\ entries' = {e \in entries : e.snap \notin sweep.ids}
  /\ sweep' = IF sweep.rows THEN [sweep EXCEPT !.stage = "snapshots"] ELSE NoSweep
  /\ UNCHANGED <<index, snapshots, rewardBlocks, scan, cascade, faults, crashes, adrift>>

SweepSnapshots ==
  /\ sweep.stage = "snapshots"
  /\ snapshots' = [s \in Snapshot |->
       IF s \in sweep.ids THEN [snapshots[s] EXCEPT !.status = "none"]
       ELSE snapshots[s]]
  /\ sweep' = NoSweep
  /\ UNCHANGED <<index, entries, rewardBlocks, scan, cascade, faults, crashes, adrift>>

(* set_snapshot_status, and the cascade to the entries that follows it.  A
   draft may be asked for: no scan turns it back once finalize is passed. *)
SetStatus(s, status) ==
  /\ Unlocked /\ Exists(s)
  /\ snapshots' = [snapshots EXCEPT ![s].status = status]
  /\ cascade' = IF status \in {"approved", "paid", "rejected"}
                THEN cascade \cup {<<s, status>>} ELSE cascade
  /\ adrift' = IF status = "draft" /\ scan[s].pc \in {"none", "lost"}
               THEN adrift \cup {s} ELSE adrift
  /\ UNCHANGED <<index, entries, rewardBlocks, scan, sweep, faults, crashes>>

Cascade ==
  /\ Unlocked
  /\ \E c \in cascade :
       /\ entries' = {IF e.snap = c[1] THEN [e EXCEPT !.status = c[2]] ELSE e :
                        e \in entries}
       /\ cascade' = cascade \ {c}
  /\ UNCHANGED <<index, snapshots, rewardBlocks, scan, sweep, faults, crashes, adrift>>

(* update_entry. *)
UpdateEntry ==
  /\ Unlocked
  /\ \E e \in entries, status \in SettableEntry :
       /\ e.status # status
       /\ entries' = (entries \ {e}) \cup {[e EXCEPT !.status = status]}
  /\ UNCHANGED <<index, snapshots, rewardBlocks, scan, sweep, cascade, faults, crashes, adrift>>

(* The process dies: a batch of INSERTs that was under way keeps the rows it
   had committed, a batch of DELETEs stays where it is, no task is resumed. *)
Crash ==
  /\ crashes < MaxCrashes /\ crashes' = crashes + 1
  /\ LET writing(pc) == {s \in Snapshot : scan[s].pc = pc /\ Unlocked}
     IN /\ \E kept \in SUBSET UNION {EntryRows(s) : s \in writing("entries")} :
             entries' = entries \cup kept
        /\ \E kept \in SUBSET UNION {BlockRows(s) : s \in writing("blocks")} :
             rewardBlocks' = rewardBlocks \cup kept
  /\ scan' = [s \in Snapshot |-> Idle]
  /\ sweep' = NoSweep /\ cascade' = {}
  /\ UNCHANGED <<index, snapshots, faults, adrift>>
-----------------------------------------------------------------------------
Scan(s) ==
  \/ StartScan(s)
  \/ CheckCoverage(s) \/ ReadHashes(s) \/ ReadBlocks(s) \/ ReadRecipients(s)
  \/ InsertEntries(s) \/ InsertBlocks(s) \/ Finalize(s) \/ AfterLostDraft(s)
  \/ ClearResults(s) \/ MarkFailed(s)

Sweep == SweepBlocks \/ SweepEntries \/ SweepSnapshots

Admin ==
  \/ \E s \in Snapshot :
       \/ \E r \in HeightRange, dup \in BOOLEAN : Create(s, r, dup)
       \/ Delete(s)
       \/ \E status \in SettableStatus : SetStatus(s, status)
  \/ Cleanup \/ Cascade \/ UpdateEntry

Next ==
  \/ Indexers \/ Admin \/ Sweep \/ Crash
  \/ \E s \in Snapshot : Scan(s) \/ RequestBreaks(s) \/ ScanFails(s) \/ HandlerFails(s)

(* A request or a task that is under way goes on, and gets the write lock in
   the end (asyncio.Lock is first come, first served). *)
Spec == /\ Init /\ [][Next]_vars
        /\ \A s \in Snapshot : SF_vars(Scan(s))
        /\ WF_vars(Sweep)
-----------------------------------------------------------------------------
Swept(s) == s \in sweep.ids

(* Entries and reward rows belong to a snapshot, unless a scan is still to
   find out that its snapshot was deleted or a delete is under way: deleting a
   snapshot while it is scanned leaves nothing behind. *)
NoOrphanRows ==
  \A r \in entries \cup rewardBlocks :
    Exists(r.snap) \/ scan[r.snap].pc # "none" \/ Swept(r.snap)

(* A finished scan's totals, entries and reward rows tell the same story. *)
TotalsMatch ==
  \A s \in Snapshot :
    Exists(s) /\ snapshots[s].matched # NoTotals /\ ~ Swept(s) =>
      LET rows == {b \in rewardBlocks : b.snap = s}
      IN /\ snapshots[s].matched = Cardinality({b.height : b \in rows})
         /\ {b.addr : b \in rows} = {e.addr : e \in {e \in entries : e.snap = s}}
         /\ \A e \in entries : e.snap = s =>
              e.count = Cardinality({b \in rows : b.addr = e.addr})

(* A finished scan has, for every height of its range, the rewards of a block
   at that height: it counts all of them or "fail[s] loudly". *)
CoversRange ==
  \A s \in Snapshot :
    Exists(s) /\ snapshots[s].matched # NoTotals /\ ~ Swept(s) =>
      \A h \in snapshots[s].range : \E f \in {0, 1} :
        \A a \in Recipients[<<h, f>>] \cap Registered :
          [snap |-> s, height |-> h, addr |-> a] \in rewardBlocks

(* A background scan never overwrites a status an administrator has set: once
   it is not a draft, a status changes by a request or a delete only. *)
AdminStatusStands ==
  [][\A s \in Snapshot :
       /\ snapshots[s].status \notin {"none", "draft"}
       /\ snapshots'[s].status # snapshots[s].status
       => scan' = scan]_vars

(* A draft leaves that status in the end, generated or failed, so that the page
   that polls it does "surface it instead of hanging forever": whatever fails
   inside the scan, unless the process dies, the error handler fails, or the
   snapshot is adrift: its request broke before the scan was started, or an
   administrator made it a draft again when no scan was left to end it. *)
UnbrokenDraftEnds ==
  \A s \in Snapshot :
    snapshots[s].status = "draft" ~> snapshots[s].status # "draft" \/ crashes > 0 \/ s \in adrift
=============================================================================
