----------------------- MODULE SnapshotRewardsProofs ------------------------
(***************************************************************************)
(* Proofs about SnapshotRewards, for any number of snapshots, ranges,      *)
(* heights and recipients, any bound on failures, and any reorganization   *)
(* where a theorem does not say otherwise.                                 *)
(***************************************************************************)
EXTENDS SnapshotRewards, FiniteSetTheorems, TLAPS

EntryType == [snap : Snapshot, addr : Registered, count : 1..Cardinality(Height),
              status : EntryStatus]

BlockRowType == [snap : Snapshot, height : Height, addr : Registered]

ScanType == [pc : {"none", "created", "start", "covered", "hashes", "rows", "entries",
                   "blocks", "finalize", "lost", "scrub", "failed"},
             seen : SUBSET Coinbase, found : SUBSET Reward]

SweepType == [ids : SUBSET Snapshot, stage : {"none", "blocks", "entries", "snapshots"},
              rows : BOOLEAN]

IndexType ==
  /\ fork \in {0, 1} /\ indexedTo \in Height \cup {0}
  /\ blockAt \in [Height -> Coinbase \cup {Absent}]
  /\ credited \subseteq Coinbase

TablesType ==
  /\ snapshots \in [Snapshot -> SnapshotType]
  /\ entries \subseteq EntryType
  /\ rewardBlocks \subseteq BlockRowType

TasksType ==
  /\ scan \in [Snapshot -> ScanType]
  /\ sweep \in SweepType
  /\ cascade \in SUBSET (Snapshot \X {"approved", "paid", "rejected"})
  /\ faults \in Nat /\ crashes \in Nat /\ adrift \subseteq Snapshot

Types == IndexType /\ TablesType /\ TasksType

LEMMA TypesSuffice == Types => TypeOK
BY DEF Types, IndexType, TablesType, TasksType, EntryType, BlockRowType,
       ScanType, SweepType, TypeOK

-----------------------------------------------------------------------------
(* What a scan found, counted. *)
RewardsOf(found, a) == {r \in found : r[2] = a}

LEMMA HeightFacts ==
  /\ IsFiniteSet(Height) /\ Cardinality(Height) \in Nat
  /\ \A h \in Height : h \in Nat /\ h >= 1 /\ (h - 1 \in Height \/ h = 1)
BY SnapshotAssumption, FS_CardinalityType

(* An address has one reward in each of its blocks. *)
LEMMA RewardsCounted ==
  ASSUME NEW found \in SUBSET Reward, NEW a \in Registered
  PROVE  /\ IsFiniteSet(RewardsOf(found, a))
         /\ Cardinality(RewardsOf(found, a)) \in 0..Cardinality(Height)
         /\ (\E r \in found : r[2] = a) => Cardinality(RewardsOf(found, a)) # 0
<1> DEFINE S == RewardsOf(found, a)
           f == [r \in S |-> r[1]]
<1>1. \A r \in S : r = <<r[1], a>> /\ r[1] \in Height
  BY DEF RewardsOf, Reward
<1>2. f \in Injection(S, Height)
  <2>1. f \in [S -> Height]
    BY <1>1
  <2>2. \A r, q \in S : f[r] = f[q] => r = q
    BY <1>1
  <2>3. QED BY <2>1, <2>2 DEF Injection, IsInjective
<1>3. IsFiniteSet(S) /\ Cardinality(S) <= Cardinality(Height)
  BY <1>2, HeightFacts, FS_Injection
<1>4. Cardinality(S) \in Nat /\ (S # {} => Cardinality(S) # 0)
  BY <1>3, FS_CardinalityType, FS_EmptySet
<1>5. QED BY <1>3, <1>4, HeightFacts DEF RewardsOf

LEMMA HeightsCounted ==
  ASSUME NEW found \in SUBSET Reward
  PROVE  Cardinality({r[1] : r \in found}) \in 0..Cardinality(Height)
<1>1. {r[1] : r \in found} \in SUBSET Height
  BY DEF Reward
<1>2. QED BY <1>1, HeightFacts, FS_Subset, FS_CardinalityType

LEMMA RowTypes ==
  ASSUME Types, NEW s \in Snapshot
  PROVE  EntryRows(s) \subseteq EntryType /\ BlockRows(s) \subseteq BlockRowType
<1>1. scan[s].found \in SUBSET Reward
  BY DEF Types, TasksType, ScanType
<1>2. ASSUME NEW r \in scan[s].found
      PROVE  /\ r[2] \in Registered /\ r[1] \in Height
             /\ Cardinality({q \in scan[s].found : q[2] = r[2]}) \in 1..Cardinality(Height)
  <2>1. r[2] \in Registered /\ r[1] \in Height
    BY <1>1 DEF Reward
  <2>2. /\ Cardinality(RewardsOf(scan[s].found, r[2])) \in 0..Cardinality(Height)
        /\ Cardinality(RewardsOf(scan[s].found, r[2])) # 0
    BY <1>1, <2>1, RewardsCounted
  <2>3. QED BY <2>1, <2>2, HeightFacts DEF RewardsOf
<1>3. ASSUME NEW r \in scan[s].found
      PROVE  [snap |-> s, height |-> r[1], addr |-> r[2]] \in BlockRowType
  BY <1>2, Zenon DEF BlockRowType
<1>4. ASSUME NEW a \in {r[2] : r \in scan[s].found}
      PROVE  [snap |-> s, addr |-> a, status |-> "pending",
              count |-> Cardinality({r \in scan[s].found : r[2] = a})] \in EntryType
  BY <1>2 DEF EntryType, EntryStatus
<1>5. QED BY <1>3, <1>4, Zenon DEF EntryRows, BlockRows

-----------------------------------------------------------------------------
(* Every step keeps the types. *)
LEMMA IndexersKeepTypes ==
  ASSUME Types, Indexers
  PROVE  Types'
<1>1. /\ fork \in {0, 1} /\ indexedTo \in Height \cup {0}
      /\ blockAt \in [Height -> Coinbase \cup {Absent}] /\ credited \subseteq Coinbase
  BY DEF Types, IndexType
<1>2. TablesType' /\ TasksType'
  BY DEF Indexers, Types, TablesType, TasksType, tables
<1>3. \A h \in Height : ChainAt(h) \in Coinbase
  BY <1>1 DEF ChainAt, Coinbase
<1>4. IndexType'
  <2>1. CASE DropBlock \/ StoreBlock
    BY <1>1, <1>3, <2>1 DEF DropBlock, StoreBlock, IndexType
  <2>2. CASE ApplyBlock
    BY <1>1, <1>3, <2>2 DEF ApplyBlock, IndexType
  <2>3. CASE RollBack
    <3>1. PICK h \in Height : /\ credited' = {c \in credited : c[1] < h}
                            /\ indexedTo' = h - 1
      BY <2>3 DEF RollBack
    <3>2. h - 1 \in Height \cup {0}
      BY HeightFacts
    <3>3. QED BY <1>1, <2>3, <3>1, <3>2 DEF RollBack, IndexType
  <2>4. CASE Reorg
    BY <1>1, <2>4 DEF Reorg, IndexType
  <2>5. QED BY <2>1, <2>2, <2>3, <2>4 DEF Indexers
<1>5. QED BY <1>2, <1>4 DEF Types

LEMMA GotoKeepsTypes ==
  ASSUME Types, NEW s \in Snapshot, NEW here, Goto(s, here, scan'[s].pc),
         scan'[s].pc \in {"none", "created", "start", "covered", "hashes", "rows", "entries",
                         "blocks", "finalize", "lost", "scrub", "failed"},
         sweep' \in SweepType
  PROVE  IndexType' /\ TasksType'
<1>1. scan' \in [Snapshot -> ScanType]
  BY DEF Goto, Types, TasksType, ScanType
<1>2. QED BY <1>1 DEF Goto, Types, TasksType, IndexType, index

LEMMA SnapshotRow ==
  ASSUME Types, NEW s \in Snapshot
  PROVE  /\ snapshots[s] \in SnapshotType /\ snapshots[s].status \in Status \cup {"none"}
         /\ snapshots[s].range \in HeightRange \cup {{}}
         /\ snapshots[s].range \subseteq Height
         /\ snapshots[s].matched \in {NoTotals} \cup (0..Cardinality(Height))
         /\ scan[s] \in ScanType /\ scan[s].seen \subseteq Coinbase
         /\ scan[s].found \in SUBSET Reward
<1>1. snapshots[s] \in SnapshotType /\ scan[s] \in ScanType
  BY DEF Types, TablesType, TasksType
<1>2. /\ snapshots[s].status \in Status \cup {"none"}
      /\ snapshots[s].range \in HeightRange \cup {{}}
      /\ snapshots[s].matched \in {NoTotals} \cup (0..Cardinality(Height))
  BY <1>1, Zenon DEF SnapshotType
<1>3. snapshots[s].range \subseteq Height
  <2>1. \A r \in HeightRange \cup {{}} : r \subseteq Height
    BY SnapshotAssumption
  <2>2. QED BY <1>2, <2>1, Zenon
<1>4. scan[s].seen \subseteq Coinbase /\ scan[s].found \in SUBSET Reward
  BY <1>1 DEF ScanType
<1>5. QED BY <1>1, <1>2, <1>3, <1>4

(* A new record for one snapshot. *)
LEMMA SnapshotChanges ==
  ASSUME Types, NEW s \in Snapshot, NEW row \in SnapshotType,
         snapshots' = [snapshots EXCEPT ![s] = row], UNCHANGED <<entries, rewardBlocks>>
  PROVE  TablesType'
BY DEF Types, TablesType

LEMMA StatusChanges ==
  ASSUME Types, NEW s \in Snapshot, NEW status \in Status \cup {"none"}
  PROVE  [snapshots[s] EXCEPT !.status = status] \in SnapshotType
BY SnapshotRow DEF SnapshotType

LEMMA ScanKeepsTypes ==
  ASSUME Types, NEW s \in Snapshot, Scan(s)
  PROVE  Types'
<1>1. /\ sweep \in SweepType /\ scan \in [Snapshot -> ScanType] /\ scan[s] \in ScanType
      /\ TablesType
  BY DEF Types, TasksType
<1>2. CASE CheckCoverage(s)
  <2>1. TablesType' /\ sweep' = sweep
    BY <1>1, <1>2 DEF CheckCoverage, tables, TablesType
  <2>2. scan'[s].pc \in {"none", "scrub", "covered"} /\ Goto(s, "start", scan'[s].pc)
    BY <1>1, <1>2 DEF CheckCoverage, Goto, ScanType
  <2>3. QED BY <1>1, <2>1, <2>2, GotoKeepsTypes DEF Types
<1>3. CASE ReadHashes(s)
  <2>1. {blockAt[h] : h \in snapshots[s].range} \ {Absent} \in SUBSET Coinbase
    BY SnapshotRow DEF Types, IndexType
  <2>2. scan' \in [Snapshot -> ScanType]
    BY <1>1, <1>3, <2>1 DEF ReadHashes, ScanType
  <2>3. QED BY <1>3, <2>2 DEF ReadHashes, Types, TablesType, TasksType, IndexType, tables, index
<1>4. CASE ReadBlocks(s)
  <2>1. TablesType' /\ sweep' = sweep
    BY <1>1, <1>4 DEF ReadBlocks, tables, TablesType
  <2>2. scan'[s].pc \in {"rows", "scrub"} /\ Goto(s, "hashes", scan'[s].pc)
    BY <1>1, <1>4 DEF ReadBlocks, Goto, ScanType
  <2>3. QED BY <1>1, <2>1, <2>2, GotoKeepsTypes DEF Types
<1>5. CASE ReadRecipients(s)
  <2>1. scan' \in [Snapshot -> ScanType]
    BY <1>1, <1>5 DEF ReadRecipients, ScanType
  <2>2. QED BY <1>5, <2>1 DEF ReadRecipients, Types, TablesType, TasksType, IndexType, tables, index
<1>6. CASE InsertEntries(s)
  <2>1. scan'[s].pc = "blocks" /\ Goto(s, "entries", scan'[s].pc) /\ sweep' = sweep
    BY <1>1, <1>6 DEF InsertEntries, Goto, ScanType
  <2>2. TablesType'
    BY <1>1, <1>6, RowTypes DEF InsertEntries, TablesType
  <2>3. QED BY <1>1, <2>1, <2>2, GotoKeepsTypes DEF Types
<1>7. CASE InsertBlocks(s)
  <2>1. scan'[s].pc = "finalize" /\ Goto(s, "blocks", scan'[s].pc) /\ sweep' = sweep
    BY <1>1, <1>7 DEF InsertBlocks, Goto, ScanType
  <2>2. TablesType'
    BY <1>1, <1>7, RowTypes DEF InsertBlocks, TablesType
  <2>3. QED BY <1>1, <2>1, <2>2, GotoKeepsTypes DEF Types
<1>8. CASE Finalize(s)
  <2>1. /\ scan'[s].pc \in {"none", "lost"} /\ Goto(s, "finalize", scan'[s].pc)
        /\ sweep' = sweep
    BY <1>1, <1>8 DEF Finalize, Goto, ScanType
  <2>2. TablesType'
    <3>1. CASE snapshots' = snapshots
      BY <1>1, <1>8, <3>1 DEF Finalize, TablesType
    <3>2. CASE snapshots' = [snapshots EXCEPT ![s].status = "generated",
                                ![s].matched = Cardinality({r[1] : r \in scan[s].found})]
      <4>1. Cardinality({r[1] : r \in scan[s].found}) \in 0..Cardinality(Height)
        BY SnapshotRow, HeightsCounted
      <4>2. PICK n \in 0..Cardinality(Height) : n = Cardinality({r[1] : r \in scan[s].found})
        BY <4>1
      <4>3. [snapshots[s] EXCEPT !.status = "generated", !.matched = n] \in SnapshotType
        BY SnapshotRow DEF SnapshotType, Status
      <4>4. snapshots' = [snapshots EXCEPT ![s] =
                            [snapshots[s] EXCEPT !.status = "generated", !.matched = n]]
        BY <3>2, <4>2 DEF Types, TablesType, SnapshotType
      <4>5. QED BY <1>8, <4>3, <4>4, SnapshotChanges DEF Finalize
    <3>3. QED BY <1>8, <3>1, <3>2 DEF Finalize
  <2>3. QED BY <1>1, <2>1, <2>2, GotoKeepsTypes DEF Types
<1>9. CASE AfterLostDraft(s)
  <2>1. scan'[s].pc = "none" /\ Goto(s, "lost", scan'[s].pc) /\ TablesType'
    BY <1>1, <1>9 DEF AfterLostDraft, Goto, ScanType, tables, TablesType
  <2>2. sweep' \in SweepType
    <3>1. [ids |-> {s}, stage |-> "blocks", rows |-> FALSE] \in SweepType
      BY DEF SweepType
    <3>2. QED BY <1>1, <1>9, <3>1 DEF AfterLostDraft
  <2>3. QED BY <2>1, <2>2, GotoKeepsTypes DEF Types
<1>10. CASE ClearResults(s)
  <2>1. /\ scan'[s].pc = "failed" /\ Goto(s, "scrub", scan'[s].pc)
        /\ sweep' \in SweepType /\ TablesType'
    BY <1>1, <1>10 DEF ClearResults, Goto, ScanType, SweepType, tables, TablesType
  <2>2. QED BY <2>1, GotoKeepsTypes DEF Types
<1>11. CASE MarkFailed(s)
  <2>1. scan'[s].pc = "none" /\ Goto(s, "failed", scan'[s].pc) /\ sweep' = sweep
    BY <1>1, <1>11 DEF MarkFailed, Goto, ScanType
  <2>2. TablesType'
    <3>1. [snapshots[s] EXCEPT !.status = "failed"] \in SnapshotType
      BY StatusChanges DEF Status
    <3>2. snapshots' = snapshots
            \/ snapshots' = [snapshots EXCEPT ![s] = [snapshots[s] EXCEPT !.status = "failed"]]
      BY <1>11 DEF MarkFailed
    <3>3. QED BY <1>1, <1>11, <3>1, <3>2, SnapshotChanges DEF MarkFailed, TablesType
  <2>3. QED BY <1>1, <2>1, <2>2, GotoKeepsTypes DEF Types
<1>12. CASE StartScan(s)
  <2>1. TablesType' /\ sweep' = sweep
    BY <1>1, <1>12 DEF StartScan, tables, TablesType
  <2>2. scan'[s].pc \in {"none", "start"} /\ Goto(s, "created", scan'[s].pc)
    BY <1>1, <1>12 DEF StartScan, Goto, ScanType
  <2>3. QED BY <1>1, <2>1, <2>2, GotoKeepsTypes DEF Types
<1>13. QED
  BY <1>2, <1>3, <1>4, <1>5, <1>6, <1>7, <1>8, <1>9, <1>10, <1>11, <1>12 DEF Scan

LEMMA AdminKeepsTypes ==
  ASSUME Types, Admin
  PROVE  Types'
<1>1. /\ snapshots \in [Snapshot -> SnapshotType] /\ entries \subseteq EntryType
      /\ rewardBlocks \subseteq BlockRowType /\ scan \in [Snapshot -> ScanType]
      /\ sweep \in SweepType /\ faults \in Nat /\ crashes \in Nat /\ adrift \subseteq Snapshot
      /\ cascade \in SUBSET (Snapshot \X {"approved", "paid", "rejected"})
  BY DEF Types, TablesType, TasksType
<1>2. UNCHANGED index => IndexType'
  BY DEF Types, IndexType, index
<1>3. ASSUME NEW s \in Snapshot, NEW r \in HeightRange, NEW dup \in BOOLEAN, Create(s, r, dup)
      PROVE  Types'
  <2>1. [status |-> "draft", range |-> r, matched |-> NoTotals] \in SnapshotType
    BY DEF SnapshotType, Status
  <2>2. TablesType'
    BY <1>3, <2>1, SnapshotChanges DEF Create
  <2>3. scan' \in [Snapshot -> ScanType]
    BY <1>1, <1>3 DEF Create, ScanType
  <2>4. QED BY <1>1, <1>2, <1>3, <2>2, <2>3 DEF Create, Types, TasksType
<1>4. ASSUME NEW ids \in SUBSET Snapshot,
             sweep' = [ids |-> ids, stage |-> "blocks", rows |-> TRUE],
             UNCHANGED <<index, tables, scan, cascade, faults, crashes, adrift>>
      PROVE  Types'
  <2>1. sweep' \in SweepType
    BY <1>4 DEF SweepType
  <2>2. QED BY <1>1, <1>2, <1>4, <2>1 DEF Types, TablesType, TasksType, tables
<1>5. ASSUME NEW s \in Snapshot, Delete(s)
      PROVE  Types'
  BY <1>4, <1>5 DEF Delete
<1>6. CASE Cleanup
  BY <1>4, <1>6 DEF Cleanup
<1>7. ASSUME NEW s \in Snapshot, NEW status \in SettableStatus, SetStatus(s, status)
      PROVE  Types'
  <2>1. TablesType'
    <3>1. status \in Status \cup {"none"}
      BY SnapshotAssumption
    <3>2. [snapshots[s] EXCEPT !.status = status] \in SnapshotType
      BY <3>1, StatusChanges
    <3>3. snapshots' = [snapshots EXCEPT ![s] = [snapshots[s] EXCEPT !.status = status]]
      BY <1>7 DEF SetStatus
    <3>4. QED BY <1>7, <3>2, <3>3, SnapshotChanges DEF SetStatus
  <2>2. cascade' \in SUBSET (Snapshot \X {"approved", "paid", "rejected"})
    BY <1>1, <1>7 DEF SetStatus
  <2>3. adrift' \subseteq Snapshot
    BY <1>1, <1>7 DEF SetStatus
  <2>4. QED BY <1>1, <1>2, <1>7, <2>1, <2>2, <2>3 DEF SetStatus, Types, TasksType
<1>8. ASSUME NEW e \in EntryType, NEW status \in EntryStatus
      PROVE  [e EXCEPT !.status = status] \in EntryType
  BY DEF EntryType
<1>9. CASE Cascade
  <2>1. PICK c \in cascade :
          /\ entries' = {IF e.snap = c[1] THEN [e EXCEPT !.status = c[2]] ELSE e : e \in entries}
          /\ cascade' = cascade \ {c}
    BY <1>9 DEF Cascade
  <2>2. c[2] \in EntryStatus
    BY <1>1 DEF EntryStatus
  <2>3. \A e \in entries : (IF e.snap = c[1] THEN [e EXCEPT !.status = c[2]] ELSE e) \in EntryType
    BY <1>1, <1>8, <2>2
  <2>4. entries' \subseteq EntryType
    BY <2>1, <2>3, Zenon
  <2>5. QED BY <1>1, <1>2, <1>9, <2>1, <2>4 DEF Cascade, Types, TablesType, TasksType
<1>10. CASE UpdateEntry
  <2>1. PICK e \in entries, status \in SettableEntry :
          entries' = (entries \ {e}) \cup {[e EXCEPT !.status = status]}
    BY <1>10 DEF UpdateEntry
  <2>2. [e EXCEPT !.status = status] \in EntryType
    BY <1>1, <1>8, SnapshotAssumption
  <2>3. entries' \subseteq EntryType
    BY <1>1, <2>1, <2>2
  <2>4. QED BY <1>1, <1>2, <1>10, <2>3 DEF UpdateEntry, Types, TablesType, TasksType
<1>11. QED BY <1>3, <1>5, <1>6, <1>7, <1>9, <1>10 DEF Admin

LEMMA SweepKeepsTypes ==
  ASSUME Types, Sweep
  PROVE  Types'
<1>1. /\ snapshots \in [Snapshot -> SnapshotType] /\ entries \subseteq EntryType
      /\ rewardBlocks \subseteq BlockRowType /\ sweep \in SweepType
  BY DEF Types, TablesType, TasksType
<1>2. /\ IndexType' /\ UNCHANGED <<scan, cascade, faults, crashes, adrift>>
  BY DEF Sweep, SweepBlocks, SweepEntries, SweepSnapshots, Types, IndexType, index
<1>3. NoSweep \in SweepType
  BY DEF NoSweep, SweepType
<1>4. CASE SweepBlocks
  <2>1. sweep' \in SweepType
    BY <1>1, <1>4 DEF SweepBlocks, SweepType
  <2>2. QED BY <1>1, <1>2, <1>4, <2>1 DEF SweepBlocks, Types, TablesType, TasksType
<1>5. CASE SweepEntries
  <2>1. sweep' \in SweepType
    <3>1. [sweep EXCEPT !.stage = "snapshots"] \in SweepType
      BY <1>1 DEF SweepType
    <3>2. QED BY <1>3, <1>5, <3>1 DEF SweepEntries
  <2>2. QED BY <1>1, <1>2, <1>5, <2>1 DEF SweepEntries, Types, TablesType, TasksType
<1>6. CASE SweepSnapshots
  <2>1. \A s \in Snapshot : [snapshots[s] EXCEPT !.status = "none"] \in SnapshotType
    BY StatusChanges
  <2>2. snapshots' \in [Snapshot -> SnapshotType]
    BY <1>1, <1>6, <2>1 DEF SweepSnapshots
  <2>3. QED BY <1>1, <1>2, <1>3, <1>6, <2>2 DEF SweepSnapshots, Types, TablesType, TasksType
<1>7. QED BY <1>4, <1>5, <1>6 DEF Sweep

LEMMA CrashKeepsTypes ==
  ASSUME Types, Crash
  PROVE  Types'
<1>1. PICK keptEntries \in SUBSET UNION {EntryRows(s) : s \in Snapshot},
           keptBlocks \in SUBSET UNION {BlockRows(s) : s \in Snapshot} :
        entries' = entries \cup keptEntries /\ rewardBlocks' = rewardBlocks \cup keptBlocks
  BY DEF Crash
<1>2. TablesType'
  <2>1. keptEntries \subseteq EntryType /\ keptBlocks \subseteq BlockRowType
    BY RowTypes
  <2>2. QED BY <1>1, <2>1 DEF Crash, Types, TablesType
<1>3. Idle \in ScanType /\ NoSweep \in SweepType
  BY DEF Idle, ScanType, NoSweep, SweepType
<1>4. crashes' \in Nat
  BY DEF Crash, Types, TasksType
<1>5. QED BY <1>2, <1>3, <1>4 DEF Crash, Types, TasksType, IndexType, index

LEMMA InitTypes == Init => Types
<1> SUFFICES ASSUME Init PROVE Types
  OBVIOUS
<1> USE DEF Init
<1>1. IndexType
  BY DEF IndexType
<1>2. TablesType
  <2>1. [status |-> "none", range |-> {}, matched |-> NoTotals] \in SnapshotType
    BY DEF SnapshotType
  <2>2. QED BY <2>1 DEF TablesType
<1>3. Idle \in ScanType /\ NoSweep \in SweepType
  BY DEF Idle, ScanType, NoSweep, SweepType
<1>4. QED BY <1>1, <1>2, <1>3 DEF Types, TasksType

LEMMA StepTypes == Types /\ [Next]_vars => Types'
<1> SUFFICES ASSUME Types, [Next]_vars PROVE Types'
  OBVIOUS
<1>1. ASSUME NEW s \in Snapshot, RequestBreaks(s) \/ ScanFails(s) \/ HandlerFails(s)
      PROVE  Types'
  <2>1. Idle \in ScanType
    BY DEF Idle, ScanType
  <2>2. scan' \in [Snapshot -> ScanType]
    BY <1>1, <2>1 DEF RequestBreaks, ScanFails, HandlerFails, Types, TasksType, ScanType
  <2>3. faults' \in Nat /\ crashes' \in Nat /\ adrift' \subseteq Snapshot
    BY <1>1 DEF RequestBreaks, ScanFails, HandlerFails, Types, TasksType
  <2>4. QED BY <1>1, <2>2, <2>3 DEF RequestBreaks, ScanFails, HandlerFails, Types, TasksType,
                                    TablesType, IndexType, tables, index
<1>2. CASE UNCHANGED vars
  BY <1>2 DEF vars, Types, TasksType, TablesType, IndexType, tables, index
<1>3. QED
  BY <1>1, <1>2, IndexersKeepTypes, AdminKeepsTypes, SweepKeepsTypes, CrashKeepsTypes,
     ScanKeepsTypes DEF Next

(* The type invariant of the snapshot tables, the background scans and the
   indexers they read. *)
THEOREM SnapshotsTyped == Spec => []TypeOK
<1>1. Spec => []Types
  BY InitTypes, StepTypes, PTL DEF Spec
<1>2. QED BY <1>1, TypesSuffice, PTL

-----------------------------------------------------------------------------
(* A scan moves a status on from draft only: finalizing is a compare-and-set
   on the draft, and so is the mark of a failure. *)
StatusKept(s) ==
  snapshots[s].status \in {"none", "draft"} \/ snapshots'[s].status = snapshots[s].status

LEMMA ScansKeepStatus ==
  ASSUME Types, NEW s \in Snapshot, NEW o \in Snapshot, Scan(o)
  PROVE  StatusKept(s)
<1>1. snapshots \in [Snapshot -> SnapshotType]
  BY DEF Types, TablesType
<1>2. CASE UNCHANGED snapshots
  BY <1>2 DEF StatusKept
<1>3. CASE snapshots[o].status = "draft"
           /\ \A q \in Snapshot \ {o} : snapshots'[q] = snapshots[q]
  BY <1>3 DEF StatusKept
<1>4. CASE Finalize(o)
  BY <1>1, <1>2, <1>3, <1>4 DEF Finalize
<1>5. CASE MarkFailed(o)
  BY <1>1, <1>2, <1>3, <1>5 DEF MarkFailed
<1>6. QED
  BY <1>2, <1>4, <1>5
     DEF Scan, StartScan, CheckCoverage, ReadHashes, ReadBlocks, ReadRecipients,
         InsertEntries, InsertBlocks, AfterLostDraft, ClearResults, tables

(* A background scan never overwrites a status that is not draft: whatever an
   administrator has set, and whatever another scan has reached, stands until
   a request or a delete changes it. *)
THEOREM StatusesStand == Spec => AdminStatusStands
<1>1. ASSUME Types, [Next]_vars, NEW s \in Snapshot,
             snapshots[s].status \notin {"none", "draft"},
             snapshots'[s].status # snapshots[s].status
      PROVE  scan' = scan
  <2>1. ~ StatusKept(s)
    BY <1>1 DEF StatusKept
  <2>2. snapshots \in [Snapshot -> SnapshotType] /\ snapshots' # snapshots
    BY <1>1 DEF Types, TablesType
  <2>3. ~ \E o \in Snapshot : Scan(o)
    BY <1>1, <2>1, ScansKeepStatus
  <2>4. CASE Admin
    <3>1. ~ \E o \in Snapshot, r \in HeightRange, dup \in BOOLEAN : Create(o, r, dup)
      BY <1>1, <2>2 DEF Create
    <3>2. QED BY <2>2, <2>4, <3>1 DEF Admin, Delete, SetStatus, Cleanup, Cascade, UpdateEntry,
                                     tables
  <2>5. CASE Sweep
    BY <2>5 DEF Sweep, SweepBlocks, SweepEntries, SweepSnapshots
  <2>6. QED BY <1>1, <2>2, <2>3, <2>4, <2>5
            DEF Next, Indexers, Crash, RequestBreaks, ScanFails, HandlerFails, tables, vars
<1>2. Types /\ [Next]_vars =>
        [\A s \in Snapshot :
           /\ snapshots[s].status \notin {"none", "draft"}
           /\ snapshots'[s].status # snapshots[s].status
           => scan' = scan]_vars
  BY <1>1
<1>3. QED BY <1>2, InitTypes, StepTypes, PTL DEF Spec, AdminStatusStands

-----------------------------------------------------------------------------
(* The rows of a snapshot, as long as nothing has crashed: no operation was cut
   short, and a failed scan was cleared by its handler. *)
HasEntries(s) == \E e \in entries : e.snap = s
HasBlocks(s)  == \E b \in rewardBlocks : b.snap = s

(* Whether s was never created, its scan has written nothing yet, or has
   failed and is being cleared. *)
RowsInStep(s) ==
  /\ snapshots[s].range = {} =>
       /\ ~ Exists(s) /\ scan[s].pc = "none" /\ s \notin sweep.ids
       /\ ~ HasEntries(s) /\ ~ HasBlocks(s)
  /\ scan[s].pc \in {"created", "start", "covered", "hashes", "rows", "entries"} =>
       ~ HasEntries(s)
  /\ scan[s].pc \in {"created", "start", "covered", "hashes", "rows", "entries", "blocks"} =>
       ~ HasBlocks(s)
  /\ scan[s].pc = "failed" =>
       /\ HasBlocks(s) => s \in sweep.ids /\ sweep.stage = "blocks"
       /\ HasEntries(s) => s \in sweep.ids /\ sweep.stage \in {"blocks", "entries"}
  /\ s \in sweep.ids =>
       /\ sweep.stage \in {"entries", "snapshots"} => ~ HasBlocks(s)
       /\ sweep.stage = "snapshots" => ~ HasEntries(s)
  /\ HasEntries(s) \/ HasBlocks(s) => Exists(s) \/ scan[s].pc # "none" \/ s \in sweep.ids

(* What a scan found is what it wrote, as long as its snapshot is there. *)
EntriesMatch(s) ==
  /\ \A e \in entries : e.snap = s =>
       /\ \E r \in scan[s].found : r[2] = e.addr
       /\ e.count = Cardinality(RewardsOf(scan[s].found, e.addr))
  /\ \A r \in scan[s].found : \E e \in entries : e.snap = s /\ e.addr = r[2]

BlocksMatch(s) ==
  /\ \A b \in rewardBlocks : b.snap = s => <<b.height, b.addr>> \in scan[s].found
  /\ \A r \in scan[s].found : [snap |-> s, height |-> r[1], addr |-> r[2]] \in rewardBlocks

Finished(s) == snapshots[s].matched # NoTotals

Written(s) ==
  /\ scan[s].pc # "none" => ~ Finished(s)
  /\ s \in sweep.ids /\ ~ sweep.rows =>
       ~ Exists(s) \/ (~ Finished(s) /\ scan[s].pc \in {"failed", "none"})
  /\ Exists(s) /\ s \notin sweep.ids =>
       /\ scan[s].pc \in {"blocks", "finalize"} \/ Finished(s) => EntriesMatch(s)
       /\ scan[s].pc = "finalize" \/ Finished(s) => BlocksMatch(s)
       /\ Finished(s) =>
            snapshots[s].matched = Cardinality({r[1] : r \in scan[s].found})

Whole == crashes = 0 => \A s \in Snapshot : RowsInStep(s) /\ Written(s)

(* The entries of s but for their status, and its reward rows. *)
KeepsEntries(s) ==
  /\ \A e \in entries' : e.snap = s =>
       \E d \in entries : d.snap = s /\ d.addr = e.addr /\ d.count = e.count
  /\ \A d \in entries : d.snap = s =>
       \E e \in entries' : e.snap = s /\ d.addr = e.addr /\ d.count = e.count

KeepsBlocks(s) ==
  /\ \A b \in rewardBlocks' : b.snap = s => b \in rewardBlocks
  /\ \A b \in rewardBlocks : b.snap = s => b \in rewardBlocks'

LEMMA EntriesKept ==
  ASSUME NEW s \in Snapshot, KeepsEntries(s)
  PROVE  /\ HasEntries(s)' <=> HasEntries(s)
         /\ scan'[s].found = scan[s].found /\ EntriesMatch(s) => EntriesMatch(s)'
<1>1. HasEntries(s)' <=> HasEntries(s)
  BY DEF KeepsEntries, HasEntries
<1>2. ASSUME scan'[s].found = scan[s].found, EntriesMatch(s)
      PROVE  EntriesMatch(s)'
  <2>1. ASSUME NEW e \in entries', e.snap = s
        PROVE  /\ \E r \in scan'[s].found : r[2] = e.addr
               /\ e.count = Cardinality(RewardsOf(scan'[s].found, e.addr))
    <3>1. PICK d \in entries : d.snap = s /\ d.addr = e.addr /\ d.count = e.count
      BY <2>1 DEF KeepsEntries
    <3>2. /\ \E r \in scan[s].found : r[2] = d.addr
          /\ d.count = Cardinality(RewardsOf(scan[s].found, d.addr))
      BY <1>2, <3>1 DEF EntriesMatch
    <3>3. QED BY <1>2, <3>1, <3>2
  <2>2. ASSUME NEW r \in scan'[s].found
        PROVE  \E e \in entries' : e.snap = s /\ e.addr = r[2]
    <3>1. PICK d \in entries : d.snap = s /\ d.addr = r[2]
      BY <1>2, <2>2 DEF EntriesMatch
    <3>2. QED BY <3>1 DEF KeepsEntries
  <2>3. QED BY <2>1, <2>2 DEF EntriesMatch
<1>3. QED BY <1>1, <1>2

LEMMA BlocksKept ==
  ASSUME Types, NEW s \in Snapshot, KeepsBlocks(s)
  PROVE  /\ HasBlocks(s)' <=> HasBlocks(s)
         /\ scan'[s].found = scan[s].found /\ BlocksMatch(s) => BlocksMatch(s)'
<1>1. HasBlocks(s)' <=> HasBlocks(s)
  BY DEF KeepsBlocks, HasBlocks
<1>2. ASSUME scan'[s].found = scan[s].found, BlocksMatch(s)
      PROVE  BlocksMatch(s)'
  <2>1. \A r : [snap |-> s, height |-> r[1], addr |-> r[2]].snap = s
    OBVIOUS
  <2>2. QED BY <1>2, <2>1 DEF KeepsBlocks, BlocksMatch
<1>3. QED BY <1>1, <1>2

LEMMA RowsUnchanged ==
  ASSUME NEW s
  PROVE  /\ entries' = entries => KeepsEntries(s)
         /\ rewardBlocks' = rewardBlocks => KeepsBlocks(s)
BY DEF KeepsEntries, KeepsBlocks

(* A step that leaves the rows, the scan and the record of s alone. *)
LEMMA Bystander ==
  ASSUME Types, NEW s \in Snapshot, RowsInStep(s), Written(s),
         snapshots'[s] = snapshots[s], scan'[s] = scan[s], KeepsEntries(s), KeepsBlocks(s),
         sweep' = sweep \/ (s \notin sweep.ids /\ s \notin sweep'.ids)
  PROVE  RowsInStep(s)' /\ Written(s)'
<1>1. /\ HasEntries(s)' <=> HasEntries(s)
      /\ HasBlocks(s)' <=> HasBlocks(s)
      /\ EntriesMatch(s) => EntriesMatch(s)'
      /\ BlocksMatch(s) => BlocksMatch(s)'
  BY EntriesKept, BlocksKept
<1>2. (Exists(s)' <=> Exists(s)) /\ (Finished(s)' <=> Finished(s))
  BY DEF Exists, Finished
<1>3. RowsInStep(s)'
  BY <1>1, <1>2 DEF RowsInStep
<1>4. Written(s)'
  BY <1>1, <1>2 DEF Written
<1>5. QED BY <1>3, <1>4

(* A step of the scan of s that writes nothing. *)
LEMMA QuietStep ==
  ASSUME Types, NEW s \in Snapshot, RowsInStep(s), Written(s),
         UNCHANGED <<tables, sweep>>,
         scan[s].pc \notin {"none", "failed"},
         scan'[s].pc \in {"start", "covered", "hashes", "rows", "entries"} =>
           scan[s].pc \in {"created", "start", "covered", "hashes", "rows"},
         scan'[s].pc \in {"none", "start", "covered", "hashes", "rows", "entries", "lost",
                         "scrub"},
         scan'[s].pc = "none" => Exists(s) \/ scan[s].pc \in {"created", "start"}
  PROVE  RowsInStep(s)' /\ Written(s)'
<1>1. snapshots' = snapshots /\ entries' = entries /\ rewardBlocks' = rewardBlocks /\ sweep' = sweep
  BY DEF tables
<1>2. /\ HasEntries(s)' <=> HasEntries(s)
      /\ HasBlocks(s)' <=> HasBlocks(s)
  BY <1>1, RowsUnchanged, EntriesKept, BlocksKept
<1>3. (Exists(s)' <=> Exists(s)) /\ (Finished(s)' <=> Finished(s))
  BY <1>1 DEF Exists, Finished
<1>4. RowsInStep(s)'
  BY <1>1, <1>2, <1>3 DEF RowsInStep
<1>5. Written(s)'
  BY <1>1, <1>3 DEF Written
<1>6. QED BY <1>4, <1>5

LEMMA QuietScan ==
  ASSUME Types, NEW s \in Snapshot, RowsInStep(s), Written(s),
         \/ StartScan(s) \/ RequestBreaks(s)
         \/ CheckCoverage(s) \/ ReadHashes(s) \/ ReadBlocks(s) \/ ReadRecipients(s)
         \/ ScanFails(s)
         \/ Finalize(s) /\ snapshots[s].status # "draft"
         \/ AfterLostDraft(s) /\ Exists(s)
  PROVE  RowsInStep(s)' /\ Written(s)'
<1>1. scan \in [Snapshot -> ScanType] /\ scan[s] \in ScanType
  BY DEF Types, TasksType
<1>2. CASE CheckCoverage(s)
  <2>1. /\ UNCHANGED <<tables, sweep>> /\ scan[s].pc = "start"
        /\ scan'[s].pc \in {"none", "scrub", "covered"}
    BY <1>1, <1>2 DEF CheckCoverage, Goto, ScanType
  <2>2. QED BY <2>1, QuietStep
<1>3. CASE ReadHashes(s)
  <2>1. UNCHANGED <<tables, sweep>> /\ scan[s].pc = "covered" /\ scan'[s].pc = "hashes"
    BY <1>1, <1>3 DEF ReadHashes, ScanType
  <2>2. QED BY <2>1, QuietStep
<1>4. CASE ReadBlocks(s)
  <2>1. UNCHANGED <<tables, sweep>> /\ scan[s].pc = "hashes" /\ scan'[s].pc \in {"rows", "scrub"}
    BY <1>1, <1>4 DEF ReadBlocks, Goto, ScanType
  <2>2. QED BY <2>1, QuietStep
<1>5. CASE ReadRecipients(s)
  <2>1. UNCHANGED <<tables, sweep>> /\ scan[s].pc = "rows" /\ scan'[s].pc = "entries"
    BY <1>1, <1>5 DEF ReadRecipients, ScanType
  <2>2. QED BY <2>1, QuietStep
<1>6. CASE ScanFails(s)
  <2>1. /\ UNCHANGED <<tables, sweep>> /\ scan[s].pc \notin {"none", "failed"}
        /\ scan'[s].pc = "scrub"
    BY <1>1, <1>6 DEF ScanFails, ScanType
  <2>2. QED BY <2>1, QuietStep
<1>7. CASE Finalize(s) /\ snapshots[s].status # "draft"
  <2>1. UNCHANGED <<tables, sweep>> /\ scan[s].pc = "finalize" /\ scan'[s].pc = "lost"
    BY <1>1, <1>7 DEF Finalize, Goto, ScanType, tables
  <2>2. QED BY <2>1, QuietStep
<1>8. CASE AfterLostDraft(s) /\ Exists(s)
  <2>1. UNCHANGED <<tables, sweep>> /\ scan[s].pc = "lost" /\ scan'[s].pc = "none"
    BY <1>1, <1>8 DEF AfterLostDraft, Goto, ScanType, tables
  <2>2. QED BY <1>8, <2>1, QuietStep
<1>9. CASE StartScan(s) \/ RequestBreaks(s)
  <2>1. /\ UNCHANGED <<tables, sweep>> /\ scan[s].pc = "created"
        /\ scan'[s].pc \in {"none", "start"}
    BY <1>1, <1>9 DEF StartScan, RequestBreaks, Goto, ScanType
  <2>2. QED BY <2>1, QuietStep
<1>10. QED BY <1>2, <1>3, <1>4, <1>5, <1>6, <1>7, <1>8, <1>9

LEMMA WritesEntries ==
  ASSUME Types, NEW s \in Snapshot, RowsInStep(s), Written(s), InsertEntries(s)
  PROVE  RowsInStep(s)' /\ Written(s)'
<1>1. /\ scan[s].pc = "entries" /\ scan'[s].pc = "blocks" /\ scan'[s].found = scan[s].found
      /\ sweep' = sweep /\ sweep.ids = {} /\ snapshots' = snapshots
      /\ rewardBlocks' = rewardBlocks /\ entries' = entries \cup EntryRows(s)
  BY DEF InsertEntries, Goto, Types, TasksType, ScanType, Unlocked, NoSweep
<1>2. /\ HasBlocks(s)' <=> HasBlocks(s)
      /\ Exists(s)' <=> Exists(s)
      /\ Finished(s)' <=> Finished(s)
  BY <1>1, RowsUnchanged, BlocksKept DEF Exists, Finished
<1>3. ~ HasEntries(s) /\ ~ HasBlocks(s) /\ ~ Finished(s) /\ snapshots[s].range # {}
  BY <1>1 DEF RowsInStep, Written
<1>4. EntriesMatch(s)'
  <2>1. \A e \in entries' : e.snap = s => e \in EntryRows(s)
    BY <1>1, <1>3 DEF HasEntries
  <2>2. ASSUME NEW e \in entries', e.snap = s
        PROVE  /\ \E r \in scan[s].found : r[2] = e.addr
               /\ e.count = Cardinality(RewardsOf(scan[s].found, e.addr))
    <3>1. PICK a \in {r[2] : r \in scan[s].found} :
            e = [snap |-> s, addr |-> a, status |-> "pending",
                 count |-> Cardinality({r \in scan[s].found : r[2] = a})]
      BY <2>1, <2>2, Zenon DEF EntryRows
    <3>2. QED BY <3>1 DEF RewardsOf
  <2>3. ASSUME NEW r \in scan[s].found
        PROVE  \E e \in entries' : e.snap = s /\ e.addr = r[2]
    <3>1. [snap |-> s, addr |-> r[2], status |-> "pending",
           count |-> Cardinality({q \in scan[s].found : q[2] = r[2]})] \in EntryRows(s)
      BY Zenon DEF EntryRows
    <3>2. QED BY <1>1, <3>1
  <2>4. QED BY <1>1, <2>2, <2>3 DEF EntriesMatch
<1>5. RowsInStep(s)'
  BY <1>1, <1>2, <1>3 DEF RowsInStep
<1>6. Written(s)'
  BY <1>1, <1>2, <1>3, <1>4 DEF Written
<1>7. QED BY <1>5, <1>6

LEMMA WritesBlocks ==
  ASSUME Types, NEW s \in Snapshot, RowsInStep(s), Written(s), InsertBlocks(s)
  PROVE  RowsInStep(s)' /\ Written(s)'
<1>1. /\ scan[s].pc = "blocks" /\ scan'[s].pc = "finalize" /\ scan'[s].found = scan[s].found
      /\ sweep' = sweep /\ sweep.ids = {} /\ snapshots' = snapshots
      /\ entries' = entries /\ rewardBlocks' = rewardBlocks \cup BlockRows(s)
  BY DEF InsertBlocks, Goto, Types, TasksType, ScanType, Unlocked, NoSweep
<1>2. /\ HasEntries(s)' <=> HasEntries(s)
      /\ EntriesMatch(s) => EntriesMatch(s)'
      /\ Exists(s)' <=> Exists(s)
      /\ Finished(s)' <=> Finished(s)
  BY <1>1, RowsUnchanged, EntriesKept DEF Exists, Finished
<1>3. ~ HasBlocks(s) /\ ~ Finished(s) /\ snapshots[s].range # {}
  BY <1>1 DEF RowsInStep, Written
<1>4. BlocksMatch(s)'
  <2>1. \A b \in rewardBlocks' : b.snap = s => b \in BlockRows(s)
    BY <1>1, <1>3 DEF HasBlocks
  <2>2. scan[s].found \subseteq Reward
    BY SnapshotRow
  <2>3. ASSUME NEW b \in rewardBlocks', b.snap = s
        PROVE  <<b.height, b.addr>> \in scan[s].found
    <3>1. PICK r \in scan[s].found : b = [snap |-> s, height |-> r[1], addr |-> r[2]]
      BY <2>1, <2>3 DEF BlockRows
    <3>2. r = <<r[1], r[2]>>
      BY <2>2 DEF Reward
    <3>3. QED BY <3>1, <3>2
  <2>4. QED BY <1>1, <2>3 DEF BlocksMatch, BlockRows
<1>5. RowsInStep(s)'
  BY <1>1, <1>2, <1>3 DEF RowsInStep
<1>6. Written(s)'
  BY <1>1, <1>2, <1>3, <1>4 DEF Written
<1>7. QED BY <1>5, <1>6

LEMMA Finishes ==
  ASSUME Types, NEW s \in Snapshot, RowsInStep(s), Written(s),
         Finalize(s), snapshots[s].status = "draft"
  PROVE  RowsInStep(s)' /\ Written(s)'
<1>1. /\ scan[s].pc = "finalize" /\ scan'[s].pc = "none" /\ scan'[s].found = scan[s].found
      /\ sweep' = sweep /\ sweep.ids = {} /\ entries' = entries /\ rewardBlocks' = rewardBlocks
  BY DEF Finalize, Goto, Types, TasksType, ScanType, Unlocked, NoSweep
<1>2. /\ snapshots'[s].status = "generated" /\ snapshots'[s].range = snapshots[s].range
      /\ snapshots'[s].matched = Cardinality({r[1] : r \in scan'[s].found})
  <2>1. snapshots' = [snapshots EXCEPT ![s].status = "generated",
                        ![s].matched = Cardinality({r[1] : r \in scan[s].found})]
    BY DEF Finalize
  <2>2. snapshots \in [Snapshot -> SnapshotType]
    BY DEF Types, TablesType
  <2>3. QED BY <1>1, <2>1, <2>2 DEF SnapshotType
<1>3. /\ HasEntries(s)' <=> HasEntries(s)
      /\ HasBlocks(s)' <=> HasBlocks(s)
      /\ EntriesMatch(s) => EntriesMatch(s)'
      /\ BlocksMatch(s) => BlocksMatch(s)'
  BY <1>1, RowsUnchanged, EntriesKept, BlocksKept
<1>4. EntriesMatch(s)' /\ BlocksMatch(s)' /\ snapshots[s].range # {} /\ Exists(s)'
  BY <1>1, <1>2, <1>3 DEF RowsInStep, Written, Exists
<1>5. RowsInStep(s)'
  BY <1>1, <1>2, <1>4 DEF RowsInStep
<1>6. Written(s)'
  BY <1>1, <1>2, <1>4 DEF Written
<1>7. QED BY <1>5, <1>6

(* The handler of a failed scan, and the end of one whose snapshot is gone,
   start to clear what it wrote. *)
LEMMA Clears ==
  ASSUME Types, NEW s \in Snapshot, RowsInStep(s), Written(s),
         ClearResults(s) \/ (AfterLostDraft(s) /\ ~ Exists(s))
  PROVE  RowsInStep(s)' /\ Written(s)'
<1>1. /\ scan[s].pc \in {"scrub", "lost"} /\ scan'[s].pc \in {"failed", "none"}
      /\ sweep' = [ids |-> {s}, stage |-> "blocks", rows |-> FALSE]
      /\ snapshots' = snapshots
  BY DEF ClearResults, AfterLostDraft, Goto, Types, TasksType, ScanType, tables
<1>2. ~ Finished(s)' /\ (Exists(s)' <=> Exists(s)) /\ snapshots[s].range # {}
  BY <1>1 DEF Finished, Exists, Written, RowsInStep
<1>3. RowsInStep(s)'
  BY <1>1, <1>2 DEF RowsInStep
<1>4. Written(s)'
  BY <1>1, <1>2 DEF Written
<1>5. QED BY <1>3, <1>4

LEMMA GivesUp ==
  ASSUME Types, NEW s \in Snapshot, RowsInStep(s), Written(s), MarkFailed(s)
  PROVE  RowsInStep(s)' /\ Written(s)'
<1>1. /\ scan[s].pc = "failed" /\ scan'[s].pc = "none"
      /\ sweep' = sweep /\ sweep.ids = {} /\ entries' = entries /\ rewardBlocks' = rewardBlocks
  BY DEF MarkFailed, Goto, Types, TasksType, ScanType, Unlocked, NoSweep
<1>2. snapshots'[s].range = snapshots[s].range /\ snapshots'[s].matched = snapshots[s].matched
  BY SnapshotRow DEF MarkFailed, Types, TablesType, SnapshotType
<1>3. ~ HasEntries(s) /\ ~ HasBlocks(s) /\ ~ Finished(s) /\ snapshots[s].range # {}
  BY <1>1 DEF RowsInStep, Written
<1>4. ~ HasEntries(s)' /\ ~ HasBlocks(s)' /\ ~ Finished(s)'
  BY <1>1, <1>2, <1>3 DEF HasEntries, HasBlocks, Finished
<1>5. RowsInStep(s)'
  BY <1>1, <1>2, <1>3, <1>4 DEF RowsInStep
<1>6. Written(s)'
  BY <1>1, <1>4 DEF Written
<1>7. QED BY <1>5, <1>6

LEMMA ScanKeepsRows ==
  ASSUME Types, NEW s \in Snapshot, Scan(s) \/ RequestBreaks(s) \/ ScanFails(s),
         \A q \in Snapshot : RowsInStep(q) /\ Written(q),
         NEW q \in Snapshot
  PROVE  RowsInStep(q)' /\ Written(q)'
<1>1. CASE q = s
  <2>1. RowsInStep(s) /\ Written(s)
    OBVIOUS
  <2>2. QED BY <1>1, <2>1, QuietScan, WritesEntries, WritesBlocks, Finishes, Clears, GivesUp
            DEF Scan
<1>2. CASE q # s
  <2>1. /\ snapshots'[q] = snapshots[q] /\ scan'[q] = scan[q]
        /\ sweep' = sweep \/ (q \notin sweep.ids /\ q \notin sweep'.ids)
    <3>1. scan'[q] = scan[q]
      BY <1>2 DEF Scan, StartScan, RequestBreaks, ScanFails, CheckCoverage, ReadHashes,
                  ReadBlocks, ReadRecipients, InsertEntries, InsertBlocks, Finalize,
                  AfterLostDraft, ClearResults, MarkFailed, Goto, Types, TasksType
    <3>2. snapshots'[q] = snapshots[q]
      BY <1>2 DEF Scan, StartScan, RequestBreaks, ScanFails, CheckCoverage, ReadHashes,
                  ReadBlocks, ReadRecipients, InsertEntries, InsertBlocks, Finalize,
                  AfterLostDraft, ClearResults, MarkFailed, tables, Types, TablesType
    <3>3. \/ sweep' = sweep
          \/ sweep.ids = {} /\ sweep' = [ids |-> {s}, stage |-> "blocks", rows |-> FALSE]
      BY DEF Scan, StartScan, RequestBreaks, ScanFails, CheckCoverage, ReadHashes,
             ReadBlocks, ReadRecipients, InsertEntries, InsertBlocks, Finalize,
             AfterLostDraft, ClearResults, MarkFailed, Unlocked, NoSweep
    <3>4. QED BY <1>2, <3>1, <3>2, <3>3
  <2>2. KeepsEntries(q)
    <3>1. CASE InsertEntries(s)
      <4>1. ASSUME NEW e \in EntryRows(s) PROVE e.snap = s
        <5>1. PICK a \in {r[2] : r \in scan[s].found} :
                e = [snap |-> s, addr |-> a, status |-> "pending",
                     count |-> Cardinality({r \in scan[s].found : r[2] = a})]
          BY Zenon DEF EntryRows
        <5>2. QED BY <5>1
      <4>2. entries' = entries \cup EntryRows(s)
        BY <3>1 DEF InsertEntries
      <4>3. QED BY <1>2, <4>1, <4>2 DEF KeepsEntries
    <3>2. CASE entries' = entries
      BY <3>2, RowsUnchanged
    <3>3. QED
      BY <3>1, <3>2 DEF Scan, StartScan, RequestBreaks, ScanFails, CheckCoverage,
                        ReadHashes, ReadBlocks, ReadRecipients, InsertBlocks, Finalize,
                        AfterLostDraft, ClearResults, MarkFailed, tables
  <2>3. KeepsBlocks(q)
    <3>1. CASE InsertBlocks(s)
      BY <1>2, <3>1 DEF InsertBlocks, KeepsBlocks, BlockRows
    <3>2. CASE rewardBlocks' = rewardBlocks
      BY <3>2, RowsUnchanged
    <3>3. QED
      BY <3>1, <3>2 DEF Scan, StartScan, RequestBreaks, ScanFails, CheckCoverage,
                        ReadHashes, ReadBlocks, ReadRecipients, InsertEntries, Finalize,
                        AfterLostDraft, ClearResults, MarkFailed, tables
  <2>4. QED BY <2>1, <2>2, <2>3, Bystander
<1>3. QED BY <1>1, <1>2

-----------------------------------------------------------------------------
(* Administrators, the delete in progress and the indexers. *)
LEMMA IndexersKeepRows ==
  ASSUME Types, NEW s \in Snapshot, RowsInStep(s), Written(s), Indexers
  PROVE  RowsInStep(s)' /\ Written(s)'
BY Bystander, RowsUnchanged DEF Indexers, tables

LEMMA CreateKeepsRows ==
  ASSUME Types, NEW s \in Snapshot, RowsInStep(s), Written(s),
         NEW o \in Snapshot, NEW range \in HeightRange, NEW dup, Create(o, range, dup)
  PROVE  RowsInStep(s)' /\ Written(s)'
<1>1. /\ snapshots \in [Snapshot -> SnapshotType] /\ scan \in [Snapshot -> ScanType]
      /\ entries' = entries /\ rewardBlocks' = rewardBlocks /\ sweep' = sweep
  BY DEF Create, Types, TablesType, TasksType
<1>2. KeepsEntries(s) /\ KeepsBlocks(s)
  BY <1>1, RowsUnchanged
<1>3. CASE s # o
  <2>1. snapshots'[s] = snapshots[s] /\ scan'[s] = scan[s]
    BY <1>1, <1>3 DEF Create
  <2>2. QED BY <1>1, <1>2, <2>1, Bystander
<1>4. CASE s = o
  <2>1. /\ snapshots[s].range = {} /\ scan'[s].pc = "created"
        /\ snapshots'[s] = [status |-> "draft", range |-> range, matched |-> NoTotals]
    BY <1>1, <1>4 DEF Create, ScanType
  <2>2. snapshots'[s].range # {} /\ Exists(s)' /\ ~ Finished(s)'
    <3>1. range # {}
      BY SnapshotAssumption
    <3>2. /\ snapshots'[s].range = range /\ snapshots'[s].status = "draft"
          /\ snapshots'[s].matched = NoTotals
      BY <2>1
    <3>3. QED BY <3>1, <3>2 DEF Exists, Finished
  <2>3. ~ HasEntries(s)' /\ ~ HasBlocks(s)' /\ s \notin sweep'.ids
    BY <1>1, <2>1 DEF RowsInStep, HasEntries, HasBlocks
  <2>4. RowsInStep(s)'
    BY <2>1, <2>2, <2>3 DEF RowsInStep
  <2>5. Written(s)'
    BY <2>1, <2>2, <2>3 DEF Written
  <2>6. QED BY <2>4, <2>5
<1>5. QED BY <1>3, <1>4

(* A delete and a cleanup take their snapshots in, row and all. *)
LEMMA StartedSweepKeepsRows ==
  ASSUME Types, NEW s \in Snapshot, RowsInStep(s), Written(s), Unlocked,
         NEW ids \in SUBSET Snapshot, \A o \in ids : snapshots[o].range # {},
         sweep' = [ids |-> ids, stage |-> "blocks", rows |-> TRUE],
         UNCHANGED <<tables, scan>>
  PROVE  RowsInStep(s)' /\ Written(s)'
<1>1. /\ snapshots' = snapshots /\ entries' = entries /\ rewardBlocks' = rewardBlocks
      /\ scan' = scan /\ sweep.ids = {}
  BY DEF tables, Unlocked, NoSweep
<1>2. KeepsEntries(s) /\ KeepsBlocks(s)
  BY <1>1, RowsUnchanged
<1>3. CASE s \notin ids
  BY <1>1, <1>2, <1>3, Bystander
<1>4. CASE s \in ids
  <2>1. /\ HasEntries(s)' <=> HasEntries(s)
        /\ HasBlocks(s)' <=> HasBlocks(s)
        /\ Exists(s)' <=> Exists(s)
        /\ Finished(s)' <=> Finished(s)
    BY <1>1 DEF HasEntries, HasBlocks, Exists, Finished
  <2>2. RowsInStep(s)'
    BY <1>1, <1>4, <2>1 DEF RowsInStep
  <2>3. Written(s)'
    BY <1>1, <1>4, <2>1 DEF Written
  <2>4. QED BY <2>2, <2>3
<1>5. QED BY <1>3, <1>4

LEMMA SweepBlocksKeepsRows ==
  ASSUME Types, NEW s \in Snapshot, RowsInStep(s), Written(s), SweepBlocks
  PROVE  RowsInStep(s)' /\ Written(s)'
<1>1. /\ snapshots' = snapshots /\ entries' = entries /\ scan' = scan
      /\ rewardBlocks' = {r \in rewardBlocks : r.snap \notin sweep.ids}
      /\ sweep.stage = "blocks" /\ sweep'.stage = "entries"
      /\ sweep'.ids = sweep.ids /\ sweep'.rows = sweep.rows
  BY DEF SweepBlocks, Types, TasksType, SweepType
<1>2. CASE s \notin sweep.ids
  <2>1. KeepsEntries(s) /\ KeepsBlocks(s)
    BY <1>1, <1>2 DEF KeepsEntries, KeepsBlocks
  <2>2. QED BY <1>1, <1>2, <2>1, Bystander
<1>3. CASE s \in sweep.ids
  <2>1. /\ HasEntries(s)' <=> HasEntries(s)
        /\ Exists(s)' <=> Exists(s)
        /\ Finished(s)' <=> Finished(s)
    BY <1>1 DEF HasEntries, Exists, Finished
  <2>2. ~ HasBlocks(s)'
    BY <1>1, <1>3 DEF HasBlocks
  <2>3. RowsInStep(s)'
    BY <1>1, <1>3, <2>1, <2>2 DEF RowsInStep
  <2>4. Written(s)'
    BY <1>1, <1>3, <2>1 DEF Written
  <2>5. QED BY <2>3, <2>4
<1>4. QED BY <1>2, <1>3

LEMMA SweepEntriesKeepsRows ==
  ASSUME Types, NEW s \in Snapshot, RowsInStep(s), Written(s), SweepEntries
  PROVE  RowsInStep(s)' /\ Written(s)'
<1>1. /\ snapshots' = snapshots /\ rewardBlocks' = rewardBlocks /\ scan' = scan
      /\ entries' = {e \in entries : e.snap \notin sweep.ids} /\ sweep.stage = "entries"
  BY DEF SweepEntries
<1>2. \/ sweep.rows /\ sweep'.ids = sweep.ids /\ sweep'.rows /\ sweep'.stage = "snapshots"
      \/ ~ sweep.rows /\ sweep'.ids = {}
  BY DEF SweepEntries, NoSweep, Types, TasksType, SweepType
<1>3. CASE s \notin sweep.ids
  <2>1. KeepsEntries(s) /\ KeepsBlocks(s)
    BY <1>1, <1>3 DEF KeepsEntries, KeepsBlocks
  <2>2. QED BY <1>1, <1>2, <1>3, <2>1, Bystander
<1>4. CASE s \in sweep.ids
  <2>1. /\ HasBlocks(s)' <=> HasBlocks(s)
        /\ Exists(s)' <=> Exists(s)
        /\ Finished(s)' <=> Finished(s)
    BY <1>1 DEF HasBlocks, Exists, Finished
  <2>2. ~ HasEntries(s)' /\ ~ HasBlocks(s)'
    <3>1. ~ HasEntries(s)'
      BY <1>1, <1>4 DEF HasEntries
    <3>2. QED BY <1>1, <1>4, <2>1, <3>1 DEF RowsInStep
  <2>3. RowsInStep(s)'
    BY <1>1, <1>2, <1>4, <2>1, <2>2 DEF RowsInStep
  <2>4. Written(s)'
    <3>1. CASE sweep.rows
      BY <1>1, <1>2, <1>4, <2>1, <3>1 DEF Written
    <3>2. CASE ~ sweep.rows
      <4>1. Exists(s) => ~ Finished(s) /\ scan[s].pc \in {"failed", "none"}
        BY <1>4, <3>2 DEF Written
      <4>2. QED BY <1>1, <1>2, <2>1, <3>2, <4>1 DEF Written
    <3>3. QED BY <3>1, <3>2
  <2>5. QED BY <2>3, <2>4
<1>5. QED BY <1>3, <1>4

LEMMA SweepSnapshotsKeepsRows ==
  ASSUME Types, NEW s \in Snapshot, RowsInStep(s), Written(s), SweepSnapshots
  PROVE  RowsInStep(s)' /\ Written(s)'
<1>1. /\ entries' = entries /\ rewardBlocks' = rewardBlocks /\ scan' = scan
      /\ sweep.stage = "snapshots" /\ sweep'.ids = {}
  BY DEF SweepSnapshots, NoSweep
<1>2. CASE s \notin sweep.ids
  <2>1. snapshots'[s] = snapshots[s]
    BY <1>2 DEF SweepSnapshots
  <2>2. QED BY <1>1, <1>2, <2>1, RowsUnchanged, Bystander
<1>3. CASE s \in sweep.ids
  <2>1. /\ ~ Exists(s)'
        /\ Finished(s)' <=> Finished(s)
        /\ snapshots'[s].range = snapshots[s].range
    BY <1>3, SnapshotRow DEF SweepSnapshots, Exists, Finished, SnapshotType
  <2>2. /\ HasEntries(s)' <=> HasEntries(s)
        /\ HasBlocks(s)' <=> HasBlocks(s)
    BY <1>1 DEF HasEntries, HasBlocks
  <2>3. ~ HasEntries(s) /\ ~ HasBlocks(s)
    BY <1>1, <1>3 DEF RowsInStep
  <2>4. RowsInStep(s)'
    BY <1>1, <2>1, <2>2, <2>3 DEF RowsInStep
  <2>5. Written(s)'
    BY <1>1, <2>1 DEF Written
  <2>6. QED BY <2>4, <2>5
<1>4. QED BY <1>2, <1>3

(* A status request keeps the record's range and totals, and the record. *)
LEMMA SetStatusKeepsRows ==
  ASSUME Types, NEW s \in Snapshot, RowsInStep(s), Written(s),
         NEW o \in Snapshot, NEW status \in SettableStatus, SetStatus(o, status)
  PROVE  RowsInStep(s)' /\ Written(s)'
<1>1. /\ entries' = entries /\ rewardBlocks' = rewardBlocks /\ scan' = scan
      /\ sweep' = sweep /\ Exists(o) /\ snapshots \in [Snapshot -> SnapshotType]
  BY DEF SetStatus, Types, TablesType
<1>2. CASE s # o
  <2>1. snapshots'[s] = snapshots[s]
    BY <1>1, <1>2 DEF SetStatus
  <2>2. QED BY <1>1, <2>1, RowsUnchanged, Bystander
<1>3. CASE s = o
  <2>1. snapshots'[s].status = status /\ status # "none"
    <3>1. status # "none"
      BY SnapshotAssumption DEF Status
    <3>2. QED BY <1>1, <1>3, <3>1 DEF SetStatus, SnapshotType
  <2>2. snapshots'[s].range = snapshots[s].range /\ snapshots'[s].matched = snapshots[s].matched
    BY <1>1, <1>3 DEF SetStatus, SnapshotType
  <2>3. /\ HasEntries(s)' <=> HasEntries(s)
        /\ HasBlocks(s)' <=> HasBlocks(s)
        /\ EntriesMatch(s) => EntriesMatch(s)'
        /\ BlocksMatch(s) => BlocksMatch(s)'
    BY <1>1, RowsUnchanged, EntriesKept, BlocksKept
  <2>4. Exists(s)' /\ Exists(s) /\ (Finished(s)' <=> Finished(s))
    BY <1>1, <1>3, <2>1, <2>2 DEF Exists, Finished
  <2>5. RowsInStep(s)'
    BY <1>1, <2>2, <2>3, <2>4 DEF RowsInStep
  <2>6. Written(s)'
    BY <1>1, <2>2, <2>3, <2>4 DEF Written
  <2>7. QED BY <2>5, <2>6
<1>4. QED BY <1>2, <1>3

(* Changing the status of entries leaves their snapshot, address and count. *)
LEMMA EntryStatusKeepsRows ==
  ASSUME Types, NEW s \in Snapshot, RowsInStep(s), Written(s), Cascade \/ UpdateEntry
  PROVE  RowsInStep(s)' /\ Written(s)'
<1>1. /\ snapshots' = snapshots /\ rewardBlocks' = rewardBlocks /\ scan' = scan
      /\ sweep' = sweep /\ entries \subseteq EntryType
  BY DEF Cascade, UpdateEntry, Types, TablesType
<1>2. ASSUME NEW e \in entries, NEW status
      PROVE  LET d == [e EXCEPT !.status = status]
             IN  d.snap = e.snap /\ d.addr = e.addr /\ d.count = e.count
  BY <1>1 DEF EntryType
<1>3. CASE Cascade
  <2>1. PICK c \in cascade :
          entries' = {IF e.snap = c[1] THEN [e EXCEPT !.status = c[2]] ELSE e : e \in entries}
    BY <1>3 DEF Cascade
  <2>2. ASSUME NEW e \in entries
        PROVE  \E d \in entries' : d.snap = e.snap /\ d.addr = e.addr /\ d.count = e.count
    <3>1. (IF e.snap = c[1] THEN [e EXCEPT !.status = c[2]] ELSE e) \in entries'
      BY <2>1, Zenon
    <3>2. QED BY <1>2, <3>1
  <2>3. ASSUME NEW d \in entries'
        PROVE  \E e \in entries : d.snap = e.snap /\ d.addr = e.addr /\ d.count = e.count
    <3>1. PICK e \in entries : d = IF e.snap = c[1] THEN [e EXCEPT !.status = c[2]] ELSE e
      BY <2>1, <2>3, Zenon
    <3>2. QED BY <1>2, <3>1
  <2>4. KeepsEntries(s)
    BY <2>2, <2>3 DEF KeepsEntries
  <2>5. QED BY <1>1, <2>4, RowsUnchanged, Bystander
<1>4. CASE UpdateEntry
  <2>1. PICK o \in entries, status \in SettableEntry :
          entries' = (entries \ {o}) \cup {[o EXCEPT !.status = status]}
    BY <1>4 DEF UpdateEntry
  <2>2. PICK n \in entries' : n.snap = o.snap /\ n.addr = o.addr /\ n.count = o.count
    BY <1>2, <2>1
  <2>3. ASSUME NEW e \in entries
        PROVE  \E d \in entries' : d.snap = e.snap /\ d.addr = e.addr /\ d.count = e.count
    BY <2>1, <2>2
  <2>4. ASSUME NEW d \in entries'
        PROVE  \E e \in entries : d.snap = e.snap /\ d.addr = e.addr /\ d.count = e.count
    <3>1. CASE d \in entries
      BY <3>1
    <3>2. CASE d = [o EXCEPT !.status = status]
      BY <1>2, <3>2
    <3>3. QED BY <2>1, <3>1, <3>2, Zenon
  <2>5. KeepsEntries(s)
    BY <2>3, <2>4 DEF KeepsEntries
  <2>6. QED BY <1>1, <2>5, RowsUnchanged, Bystander
<1>5. QED BY <1>3, <1>4

LEMMA InitWhole == Init => Whole
BY DEF Init, Whole, RowsInStep, Written, Exists, Finished, HasEntries, HasBlocks,
       Idle, NoSweep, NoTotals

(* Crashes are counted, and so are failures of a scan's handler. *)
LEMMA CrashesStay ==
  ASSUME Types, [Next]_vars, crashes' = 0
  PROVE  crashes = 0 /\ ~ Crash /\ \A o \in Snapshot : ~ HandlerFails(o)
<1>1. crashes \in Nat /\ \A n \in Nat : n + 1 # 0
  BY DEF Types, TasksType
<1>2. ~ Crash /\ \A o \in Snapshot : ~ HandlerFails(o)
  <2>1. ASSUME Crash \/ \E o \in Snapshot : HandlerFails(o)
        PROVE  crashes' = crashes + 1
    BY <2>1 DEF Crash, HandlerFails
  <2>2. crashes' # crashes + 1
    BY <1>1
  <2>3. QED BY <2>1, <2>2, Zenon
<1>3. ASSUME NEW o \in Snapshot, Scan(o) \/ RequestBreaks(o) \/ ScanFails(o)
      PROVE  crashes' = crashes
  BY <1>3 DEF Scan, StartScan, RequestBreaks, ScanFails, CheckCoverage, ReadHashes,
              ReadBlocks, ReadRecipients, InsertEntries, InsertBlocks, Finalize,
              AfterLostDraft, ClearResults, MarkFailed, Goto
<1>4. ASSUME Indexers \/ Admin \/ Sweep
      PROVE  crashes' = crashes
  BY <1>4 DEF Indexers, Admin, Create, Delete, SetStatus, Cleanup, Cascade, UpdateEntry,
              Sweep, SweepBlocks, SweepEntries, SweepSnapshots
<1>5. QED BY <1>2, <1>3, <1>4 DEF Next, vars

LEMMA StepWhole == Types /\ Whole /\ [Next]_vars => Whole'
<1> SUFFICES ASSUME Types, Whole, [Next]_vars, crashes' = 0, NEW s \in Snapshot
             PROVE  RowsInStep(s)' /\ Written(s)'
  BY DEF Whole
<1>1. crashes = 0 /\ ~ Crash /\ \A o \in Snapshot : ~ HandlerFails(o)
  BY CrashesStay
<1>2. /\ \A q \in Snapshot : RowsInStep(q) /\ Written(q)
      /\ RowsInStep(s) /\ Written(s)
  BY <1>1 DEF Whole
<1>3. CASE Indexers
  BY <1>2, <1>3, IndexersKeepRows
<1>4. CASE Admin
  <2>1. CASE \E o \in Snapshot, r \in HeightRange, dup \in BOOLEAN : Create(o, r, dup)
    BY <1>2, <2>1, CreateKeepsRows
  <2>2. CASE \E o \in Snapshot : Delete(o)
    <3>1. PICK o \in Snapshot : Delete(o)
      BY <2>2
    <3>2. QED BY <1>2, <3>1, StartedSweepKeepsRows DEF Delete
  <2>3. CASE \E o \in Snapshot, status \in SettableStatus : SetStatus(o, status)
    BY <1>2, <2>3, SetStatusKeepsRows
  <2>4. CASE Cleanup
    <3>1. \A o \in Snapshot : snapshots[o].status \in {"failed", "draft"} =>
            snapshots[o].range # {}
      BY <1>2 DEF RowsInStep, Exists
    <3>2. PICK ids \in SUBSET Snapshot :
            /\ ids = {o \in Snapshot : snapshots[o].status \in {"failed", "draft"}}
            /\ sweep' = [ids |-> ids, stage |-> "blocks", rows |-> TRUE]
      BY <2>4 DEF Cleanup
    <3>3. QED BY <1>2, <2>4, <3>1, <3>2, StartedSweepKeepsRows DEF Cleanup
  <2>5. CASE Cascade \/ UpdateEntry
    BY <1>2, <2>5, EntryStatusKeepsRows
  <2>6. QED BY <1>4, <2>1, <2>2, <2>3, <2>4, <2>5 DEF Admin
<1>5. CASE Sweep
  BY <1>2, <1>5, SweepBlocksKeepsRows, SweepEntriesKeepsRows, SweepSnapshotsKeepsRows DEF Sweep
<1>6. CASE \E o \in Snapshot : Scan(o) \/ RequestBreaks(o) \/ ScanFails(o)
  BY <1>2, <1>6, ScanKeepsRows
<1>7. CASE UNCHANGED vars
  BY <1>2, <1>7, Bystander, RowsUnchanged DEF vars, tables
<1>8. QED BY <1>1, <1>3, <1>4, <1>5, <1>6, <1>7 DEF Next

(* Until a crash, deletes and failed scans leave nothing behind: whatever an
   administrator deletes and whenever a scan of it still runs, an entry or a
   reward row belongs to a snapshot that exists, is being swept, or has a scan
   that is still to find out that it is gone. *)
THEOREM NothingLeftBehind == Spec => [](crashes = 0 => NoOrphanRows)
<1>1. Types /\ Whole => (crashes = 0 => NoOrphanRows)
  <2> SUFFICES ASSUME Types, Whole, crashes = 0, NEW r \in entries \cup rewardBlocks
               PROVE  Exists(r.snap) \/ scan[r.snap].pc # "none" \/ Swept(r.snap)
    BY DEF NoOrphanRows
  <2>1. r.snap \in Snapshot
    BY DEF Types, TablesType, EntryType, BlockRowType
  <2>2. RowsInStep(r.snap) /\ (HasEntries(r.snap) \/ HasBlocks(r.snap))
    BY <2>1 DEF Whole, HasEntries, HasBlocks
  <2>3. QED BY <2>2 DEF RowsInStep, Swept
<1>2. QED BY <1>1, InitTypes, StepTypes, InitWhole, StepWhole, PTL DEF Spec

-----------------------------------------------------------------------------
(* The reward rows of one address are as many as its rewards in the scan. *)
LEMMA RowsCounted ==
  ASSUME Types, NEW s \in Snapshot, BlocksMatch(s), NEW a \in Registered
  PROVE  Cardinality({b \in rewardBlocks : b.snap = s /\ b.addr = a})
           = Cardinality(RewardsOf(scan[s].found, a))
<1> DEFINE R == RewardsOf(scan[s].found, a)
           B == {b \in rewardBlocks : b.snap = s /\ b.addr = a}
           f == [r \in R |-> [snap |-> s, height |-> r[1], addr |-> r[2]]]
<1>1. scan[s].found \in SUBSET Reward /\ rewardBlocks \subseteq BlockRowType
  BY SnapshotRow DEF Types, TablesType
<1>2. \A r \in R : r \in scan[s].found /\ r = <<r[1], a>> /\ r[2] = a
  BY <1>1 DEF RewardsOf, Reward
<1>3. ASSUME NEW r \in R
      PROVE  f[r] \in B
  BY <1>2 DEF BlocksMatch
<1>4. ASSUME NEW r \in R, NEW q \in R, f[r] = f[q]
      PROVE  r = q
  <2>1. f[r].height = r[1] /\ f[q].height = q[1]
    OBVIOUS
  <2>2. QED BY <1>2, <1>4, <2>1
<1>5. ASSUME NEW b \in B
      PROVE  \E r \in R : f[r] = b
  <2>1. <<b.height, b.addr>> \in R
    BY DEF BlocksMatch, RewardsOf
  <2>2. b = [snap |-> s, height |-> b.height, addr |-> b.addr]
    BY <1>1 DEF BlockRowType
  <2>3. f[<<b.height, b.addr>>] = b
    BY <2>1, <2>2
  <2>4. QED BY <2>1, <2>3
<1>6. f \in Bijection(R, B)
  <2>1. f \in [R -> B]
    BY <1>3
  <2>2. QED BY <2>1, <1>4, <1>5 DEF Bijection, Injection, Surjection, IsInjective
<1>7. IsFiniteSet(R)
  BY <1>1, RewardsCounted
<1>8. QED BY <1>6, <1>7, FS_Bijection DEF ExistsBijection

LEMMA WrittenTotals ==
  ASSUME Types, NEW s \in Snapshot, Written(s),
         Exists(s), snapshots[s].matched # NoTotals, ~ Swept(s)
  PROVE  LET rows == {b \in rewardBlocks : b.snap = s}
         IN /\ snapshots[s].matched = Cardinality({b.height : b \in rows})
            /\ {b.addr : b \in rows} = {e.addr : e \in {e \in entries : e.snap = s}}
            /\ \A e \in entries : e.snap = s =>
                 e.count = Cardinality({b \in rows : b.addr = e.addr})
<1> DEFINE found == scan[s].found
           rows  == {b \in rewardBlocks : b.snap = s}
<1>1. /\ EntriesMatch(s) /\ BlocksMatch(s)
      /\ snapshots[s].matched = Cardinality({r[1] : r \in found})
  BY DEF Written, Finished, Swept
<1>2. {b.height : b \in rows} = {r[1] : r \in found}
  <2>1. ASSUME NEW b \in rows PROVE \E r \in found : b.height = r[1]
    BY <1>1 DEF BlocksMatch
  <2>2. ASSUME NEW r \in found PROVE \E b \in rows : b.height = r[1]
    <3>1. [snap |-> s, height |-> r[1], addr |-> r[2]] \in rows
      BY <1>1 DEF BlocksMatch
    <3>2. QED BY <3>1
  <2>3. QED BY <2>1, <2>2
<1>3. {b.addr : b \in rows} = {e.addr : e \in {e \in entries : e.snap = s}}
  <2>1. ASSUME NEW b \in rows PROVE \E e \in entries : e.snap = s /\ e.addr = b.addr
    BY <1>1 DEF BlocksMatch, EntriesMatch
  <2>2. ASSUME NEW e \in entries, e.snap = s PROVE \E b \in rows : e.addr = b.addr
    <3>1. PICK r \in found : r[2] = e.addr
      BY <1>1, <2>2 DEF EntriesMatch
    <3>2. [snap |-> s, height |-> r[1], addr |-> r[2]] \in rows
      BY <1>1 DEF BlocksMatch
    <3>3. QED BY <3>1, <3>2
  <2>3. QED BY <2>1, <2>2
<1>4. ASSUME NEW e \in entries, e.snap = s
      PROVE  e.count = Cardinality({b \in rows : b.addr = e.addr})
  <2>1. e.addr \in Registered
    BY DEF Types, TablesType, EntryType
  <2>2. e.count = Cardinality(RewardsOf(found, e.addr))
    BY <1>1, <1>4 DEF EntriesMatch
  <2>3. {b \in rows : b.addr = e.addr} = {b \in rewardBlocks : b.snap = s /\ b.addr = e.addr}
    OBVIOUS
  <2>4. QED BY <1>1, <2>1, <2>2, <2>3, RowsCounted
<1>5. QED BY <1>1, <1>2, <1>3, <1>4

(* Until a crash, the totals of every finished snapshot, its entries and its
   reward rows agree: whatever scans failed, were raced by deletes and status
   requests, or read blocks of two forks. *)
THEOREM TotalsAgree == Spec => [](crashes = 0 => TotalsMatch)
<1>1. Types /\ Whole => (crashes = 0 => TotalsMatch)
  BY WrittenTotals DEF TotalsMatch, Whole
<1>2. QED BY <1>1, InitTypes, StepTypes, InitWhole, StepWhole, PTL DEF Spec

-----------------------------------------------------------------------------
(* Without reorganizations both indexes stay on one fork, and the address index
   never moves back behind what the coverage guard of a scan has seen of it. *)
OneFork ==
  /\ fork = 0
  /\ \A h \in Height : blockAt[h] \in {Absent, <<h, 0>>}
  /\ \A c \in credited : c[2] = 0
  /\ \A h \in Height : h <= indexedTo => <<h, 0>> \in credited

(* What a scan has established, from the guard to the rewards it found. *)
Guarded(s) == scan[s].pc \in {"covered", "hashes", "rows"} =>
                \A h \in snapshots[s].range : h <= indexedTo

HashesRead(s) ==
  /\ scan[s].pc \in {"hashes", "rows"} => \A c \in scan[s].seen : c[2] = 0
  /\ scan[s].pc = "rows" => \A h \in snapshots[s].range : <<h, 0>> \in scan[s].seen

RewardsFound(s) ==
  scan[s].pc \in {"entries", "blocks", "finalize"} \/ Finished(s) =>
    \A h \in snapshots[s].range : \A a \in Recipients[<<h, 0>>] \cap Registered :
      <<h, a>> \in scan[s].found

Covered(s) == Guarded(s) /\ HashesRead(s) /\ RewardsFound(s)

Complete == crashes = 0 => OneFork /\ \A s \in Snapshot : Covered(s)

LEMMA IndexersKeepFork ==
  ASSUME MaxReorgs = 0, Types, OneFork, Indexers
  PROVE  OneFork' /\ indexedTo \in Int /\ indexedTo' \in Int /\ indexedTo <= indexedTo'
<1>1. /\ indexedTo \in Height \cup {0} /\ credited \subseteq Coinbase
      /\ blockAt \in [Height -> Coinbase \cup {Absent}]
  BY DEF Types, IndexType
<1>2. indexedTo \in Int /\ \A h \in Height : h \in Int
  BY <1>1, HeightFacts
<1>3. CASE DropBlock \/ StoreBlock
  BY <1>1, <1>2, <1>3 DEF DropBlock, StoreBlock, OneFork, ChainAt
<1>4. CASE ApplyBlock
  <2>1. /\ indexedTo' = indexedTo + 1 /\ fork' = fork /\ blockAt' = blockAt
        /\ credited' = credited \cup {<<indexedTo + 1, 0>>}
    BY <1>4 DEF ApplyBlock, OneFork, ChainAt
  <2>2. ASSUME NEW h \in Height, h <= indexedTo'
        PROVE  <<h, 0>> \in credited'
    <3>1. h <= indexedTo \/ h = indexedTo + 1
      BY <1>2, <2>1, <2>2
    <3>2. QED BY <2>1, <3>1 DEF OneFork
  <2>3. \A c \in credited' : c[2] = 0
    BY <2>1 DEF OneFork
  <2>4. QED BY <1>2, <2>1, <2>2, <2>3 DEF OneFork
<1>5. CASE RollBack
  <2>1. PICK h \in Height, c \in credited : c[1] = h /\ c # <<h, 0>>
    BY <1>5 DEF RollBack, OneFork, ChainAt
  <2>2. c = <<c[1], c[2]>> /\ c[2] = 0
    BY <1>1 DEF OneFork, Coinbase
  <2>3. QED BY <2>1, <2>2
<1>6. CASE Reorg
  BY <1>6 DEF Reorg, OneFork
<1>7. QED BY <1>3, <1>4, <1>5, <1>6 DEF Indexers

(* Every other step leaves the indexes alone. *)
LEMMA OthersKeepIndexes ==
  ASSUME [Next]_vars, ~ Indexers
  PROVE  UNCHANGED <<fork, blockAt, credited, indexedTo>>
<1>1. ASSUME NEW s \in Snapshot, Scan(s) \/ RequestBreaks(s) \/ ScanFails(s) \/ HandlerFails(s)
      PROVE  UNCHANGED index
  BY <1>1 DEF Scan, StartScan, RequestBreaks, ScanFails, HandlerFails, CheckCoverage,
              ReadHashes, ReadBlocks, ReadRecipients, InsertEntries, InsertBlocks,
              Finalize, AfterLostDraft, ClearResults, MarkFailed, Goto
<1>2. ASSUME Admin \/ Sweep \/ Crash
      PROVE  UNCHANGED index
  BY <1>2 DEF Admin, Create, Delete, SetStatus, Cleanup, Cascade, UpdateEntry, Sweep,
              SweepBlocks, SweepEntries, SweepSnapshots, Crash
<1>3. QED BY <1>1, <1>2 DEF Next, vars, index

LEMMA CoveredBystander ==
  ASSUME Types, NEW s \in Snapshot, Covered(s),
         snapshots'[s].range = snapshots[s].range, Finished(s)' => Finished(s),
         scan'[s] = scan[s],
         indexedTo \in Int, indexedTo' \in Int, indexedTo <= indexedTo'
  PROVE  Covered(s)'
<1>1. Guarded(s)'
  <2>1. ASSUME NEW h \in snapshots[s].range, h <= indexedTo
        PROVE  h <= indexedTo'
    <3>1. h \in Int
      BY SnapshotRow, HeightFacts
    <3>2. QED BY <2>1, <3>1
  <2>2. QED BY <2>1 DEF Covered, Guarded
<1>2. HashesRead(s)' /\ RewardsFound(s)'
  BY DEF Covered, HashesRead, RewardsFound
<1>3. QED BY <1>1, <1>2 DEF Covered

LEMMA ScanCovers ==
  ASSUME Types, NEW s \in Snapshot, OneFork, Covered(s),
         Scan(s) \/ RequestBreaks(s) \/ ScanFails(s)
  PROVE  Covered(s)'
<1> USE DEF Covered
<1>1. /\ scan \in [Snapshot -> ScanType] /\ scan[s] \in ScanType /\ scan[s].seen \subseteq Coinbase
      /\ snapshots \in [Snapshot -> SnapshotType] /\ snapshots[s].range \subseteq Height
  BY SnapshotRow DEF Types, TasksType, TablesType
<1>2. indexedTo' = indexedTo /\ \A h \in snapshots[s].range : h \in Int /\ indexedTo \in Int
  <2>1. indexedTo' = indexedTo
    BY DEF Scan, StartScan, RequestBreaks, ScanFails, CheckCoverage, ReadHashes,
           ReadBlocks, ReadRecipients, InsertEntries, InsertBlocks, Finalize,
           AfterLostDraft, ClearResults, MarkFailed, Goto, index
  <2>2. QED BY <1>1, <2>1, HeightFacts DEF Types, IndexType
<1>3. CASE CheckCoverage(s)
  <2>1. /\ snapshots' = snapshots /\ scan'[s].seen = scan[s].seen /\ scan'[s].found = scan[s].found
        /\ scan'[s].pc \in {"none", "scrub", "covered"}
        /\ scan'[s].pc = "covered" => ~ \E h \in snapshots[s].range : h > indexedTo
    BY <1>1, <1>3 DEF CheckCoverage, Goto, ScanType, tables
  <2>2. Guarded(s)'
    BY <1>2, <2>1 DEF Guarded
  <2>3. QED BY <2>1, <2>2 DEF HashesRead, RewardsFound, Finished
<1>4. CASE ReadHashes(s)
  <2>1. /\ snapshots' = snapshots /\ scan[s].pc = "covered" /\ scan'[s].pc = "hashes"
        /\ scan'[s].found = scan[s].found
        /\ scan'[s].seen = {blockAt[h] : h \in snapshots[s].range} \ {Absent}
    BY <1>1, <1>4 DEF ReadHashes, ScanType, tables
  <2>2. \A c \in scan'[s].seen : c[2] = 0
    BY <1>1, <2>1 DEF OneFork
  <2>3. Guarded(s)'
    BY <1>2, <2>1 DEF Guarded
  <2>4. QED BY <2>1, <2>2, <2>3 DEF HashesRead, RewardsFound, Finished
<1>5. CASE ReadBlocks(s)
  <2>1. /\ snapshots' = snapshots /\ scan[s].pc = "hashes"
        /\ scan'[s].seen = scan[s].seen /\ scan'[s].found = scan[s].found
        /\ scan'[s].pc \in {"rows", "scrub"}
        /\ scan'[s].pc = "rows" =>
             {h \in snapshots[s].range : \A c \in scan[s].seen : c[1] # h} = {}
    BY <1>1, <1>5 DEF ReadBlocks, Goto, ScanType, tables
  <2>2. scan'[s].pc = "rows" => \A h \in snapshots[s].range : <<h, 0>> \in scan[s].seen
    <3>1. SUFFICES ASSUME scan'[s].pc = "rows", NEW h \in snapshots[s].range
                   PROVE  <<h, 0>> \in scan[s].seen
      OBVIOUS
    <3>2. PICK c \in scan[s].seen : c[1] = h
      BY <2>1, <3>1
    <3>3. c = <<c[1], c[2]>> /\ c[2] = 0
      BY <1>1, <2>1 DEF HashesRead, Coinbase
    <3>4. QED BY <3>2, <3>3
  <2>3. Guarded(s)'
    BY <1>2, <2>1 DEF Guarded
  <2>4. QED BY <2>1, <2>2, <2>3 DEF HashesRead, RewardsFound, Finished
<1>6. CASE ReadRecipients(s)
  <2>1. /\ snapshots' = snapshots /\ scan[s].pc = "rows" /\ scan'[s].pc = "entries"
        /\ scan'[s].found = {r \in Reward : \E c \in scan[s].seen \cap credited :
                               c[1] = r[1] /\ r[2] \in Recipients[c]}
    BY <1>1, <1>6 DEF ReadRecipients, ScanType, tables
  <2>2. ASSUME NEW h \in snapshots[s].range, NEW a \in Recipients[<<h, 0>>] \cap Registered
        PROVE  <<h, a>> \in scan'[s].found
    <3>1. <<h, 0>> \in scan[s].seen
      BY <2>1 DEF HashesRead
    <3>2. <<h, 0>> \in credited
      BY <1>1, <2>1 DEF Guarded, OneFork
    <3>3. <<h, a>> \in Reward
      BY <1>1 DEF Reward
    <3>4. QED BY <2>1, <3>1, <3>2, <3>3
  <2>3. QED BY <2>1, <2>2 DEF Guarded, HashesRead, RewardsFound
<1>7. CASE InsertEntries(s) \/ InsertBlocks(s)
  <2>1. /\ snapshots' = snapshots /\ scan[s].pc \in {"entries", "blocks"}
        /\ scan'[s].pc \in {"blocks", "finalize"} /\ scan'[s].found = scan[s].found
    BY <1>1, <1>7 DEF InsertEntries, InsertBlocks, Goto, ScanType
  <2>2. QED BY <2>1 DEF Guarded, HashesRead, RewardsFound
<1>8. CASE Finalize(s)
  <2>1. /\ snapshots'[s].range = snapshots[s].range /\ scan[s].pc = "finalize"
        /\ scan'[s].pc \in {"none", "lost"} /\ scan'[s].found = scan[s].found
    BY <1>1, <1>8 DEF Finalize, Goto, ScanType, SnapshotType
  <2>2. QED BY <2>1 DEF Guarded, HashesRead, RewardsFound
<1>9. CASE AfterLostDraft(s) \/ ClearResults(s) \/ MarkFailed(s) \/ ScanFails(s)
  <2>1. scan'[s].pc \in {"none", "failed", "scrub"} /\ scan'[s].found = scan[s].found
    BY <1>1, <1>9 DEF AfterLostDraft, ClearResults, MarkFailed, ScanFails, Goto, ScanType
  <2>2. snapshots'[s].range = snapshots[s].range /\ snapshots'[s].matched = snapshots[s].matched
    BY <1>1, <1>9 DEF AfterLostDraft, ClearResults, MarkFailed, ScanFails, tables, SnapshotType
  <2>3. QED BY <2>1, <2>2 DEF Guarded, HashesRead, RewardsFound, Finished
<1>10. CASE StartScan(s) \/ RequestBreaks(s)
  <2>1. /\ snapshots' = snapshots /\ scan'[s].found = scan[s].found
        /\ scan'[s].pc \in {"none", "start"}
    BY <1>1, <1>10 DEF StartScan, RequestBreaks, Goto, ScanType, tables
  <2>2. QED BY <2>1 DEF Guarded, HashesRead, RewardsFound, Finished
<1>11. QED BY <1>3, <1>4, <1>5, <1>6, <1>7, <1>8, <1>9, <1>10 DEF Scan

(* Any other step changes neither the range of a snapshot that has a scan nor
   what the scan has read. *)
LEMMA OthersKeepCovered ==
  ASSUME Types, [Next]_vars, ~ Indexers, ~ Crash, \A o \in Snapshot : ~ HandlerFails(o),
         NEW s \in Snapshot, ~ Scan(s), ~ RequestBreaks(s), ~ ScanFails(s), Covered(s)
  PROVE  Covered(s)'
<1>1. /\ scan \in [Snapshot -> ScanType] /\ snapshots \in [Snapshot -> SnapshotType]
      /\ indexedTo' = indexedTo /\ indexedTo \in Int
  BY OthersKeepIndexes, HeightFacts DEF Types, TasksType, TablesType, IndexType
<1>2. CASE /\ snapshots'[s].range = snapshots[s].range
           /\ snapshots'[s].matched = snapshots[s].matched
           /\ scan'[s] = scan[s]
  BY <1>1, <1>2, CoveredBystander DEF Finished
<1>3. ASSUME NEW o \in Snapshot, Scan(o) \/ RequestBreaks(o) \/ ScanFails(o)
      PROVE  snapshots'[s] = snapshots[s] /\ scan'[s] = scan[s]
  <2>1. o # s
    BY <1>3
  <2>2. scan'[s] = scan[s]
    BY <1>1, <1>3, <2>1
       DEF Scan, StartScan, RequestBreaks, ScanFails, CheckCoverage, ReadHashes,
           ReadBlocks, ReadRecipients, InsertEntries, InsertBlocks, Finalize,
           AfterLostDraft, ClearResults, MarkFailed, Goto
  <2>3. snapshots'[s] = snapshots[s]
    BY <1>1, <1>3, <2>1
       DEF Scan, StartScan, RequestBreaks, ScanFails, CheckCoverage, ReadHashes,
           ReadBlocks, ReadRecipients, InsertEntries, InsertBlocks, Finalize,
           AfterLostDraft, ClearResults, MarkFailed, tables
  <2>4. QED BY <2>2, <2>3
<1>4. ASSUME NEW o \in Snapshot, NEW r \in HeightRange, NEW dup \in BOOLEAN, Create(o, r, dup)
      PROVE  Covered(s)'
  <2>1. CASE o # s
    BY <1>1, <1>2, <1>4, <2>1 DEF Create
  <2>2. CASE o = s
    <3>1. scan'[s].pc = "created" /\ snapshots'[s].matched = NoTotals
      BY <1>1, <1>4, <2>2 DEF Create, ScanType
    <3>2. QED BY <3>1 DEF Covered, Guarded, HashesRead, RewardsFound, Finished
  <2>3. QED BY <2>1, <2>2
<1>5. ASSUME NEW o \in Snapshot, NEW status \in SettableStatus, SetStatus(o, status)
      PROVE  Covered(s)'
  <2>1. /\ snapshots'[s].range = snapshots[s].range
        /\ snapshots'[s].matched = snapshots[s].matched
        /\ scan'[s] = scan[s]
    BY <1>1, <1>5 DEF SetStatus, SnapshotType
  <2>2. QED BY <1>2, <2>1
<1>6. CASE SweepSnapshots
  <2>1. /\ snapshots'[s].range = snapshots[s].range
        /\ snapshots'[s].matched = snapshots[s].matched
        /\ scan'[s] = scan[s]
    BY <1>1, <1>6 DEF SweepSnapshots, SnapshotType
  <2>2. QED BY <1>2, <2>1
<1>7. ASSUME \/ \E o \in Snapshot : Delete(o)
             \/ Cleanup \/ Cascade \/ UpdateEntry \/ SweepBlocks \/ SweepEntries
             \/ UNCHANGED vars
      PROVE  snapshots' = snapshots /\ scan' = scan
  BY <1>7 DEF Delete, Cleanup, Cascade, UpdateEntry, SweepBlocks, SweepEntries, vars, tables
<1>8. QED BY <1>2, <1>3, <1>4, <1>5, <1>6, <1>7 DEF Next, Admin, Sweep

LEMMA InitComplete == Init => Complete
<1> SUFFICES ASSUME Init PROVE OneFork /\ \A s \in Snapshot : Covered(s)
  BY DEF Complete
<1>1. OneFork
  <2>1. \A h \in Height : ~ (h <= 0)
    BY HeightFacts
  <2>2. QED BY <2>1 DEF Init, OneFork
<1>2. ASSUME NEW s \in Snapshot
      PROVE  Covered(s)
  <2>1. scan[s].pc = "none" /\ snapshots[s].matched = NoTotals
    BY DEF Init, Idle
  <2>2. QED BY <2>1 DEF Covered, Guarded, HashesRead, RewardsFound, Finished
<1>3. QED BY <1>1, <1>2

LEMMA StepComplete ==
  ASSUME MaxReorgs = 0
  PROVE  Types /\ Complete /\ [Next]_vars => Complete'
<1> SUFFICES ASSUME Types, Complete, [Next]_vars, crashes' = 0
             PROVE  OneFork' /\ \A s \in Snapshot : Covered(s)'
  BY DEF Complete
<1>1. crashes = 0 /\ ~ Crash /\ \A o \in Snapshot : ~ HandlerFails(o)
  BY CrashesStay
<1>2. OneFork /\ \A s \in Snapshot : Covered(s)
  BY <1>1 DEF Complete
<1>3. CASE Indexers
  <2>1. OneFork' /\ indexedTo \in Int /\ indexedTo' \in Int /\ indexedTo <= indexedTo'
    BY <1>2, <1>3, IndexersKeepFork
  <2>2. snapshots' = snapshots /\ scan' = scan
    BY <1>3 DEF Indexers, tables
  <2>3. QED BY <1>2, <2>1, <2>2, CoveredBystander DEF Finished
<1>4. CASE ~ Indexers
  <2>1. OneFork'
    BY <1>2, <1>4, OthersKeepIndexes DEF OneFork
  <2>2. ASSUME NEW s \in Snapshot
        PROVE  Covered(s)'
    <3>1. Covered(s)
      BY <1>2
    <3>2. CASE Scan(s) \/ RequestBreaks(s) \/ ScanFails(s)
      BY <1>2, <3>1, <3>2, ScanCovers
    <3>3. CASE ~ Scan(s) /\ ~ RequestBreaks(s) /\ ~ ScanFails(s)
      BY <1>1, <1>4, <3>1, <3>3, OthersKeepCovered
    <3>4. QED BY <3>2, <3>3
  <2>3. QED BY <2>1, <2>2
<1>5. QED BY <1>3, <1>4

(* On a chain that does not reorganize, and until a crash, a finished scan has
   recorded every registered recipient of every coinbase in its range: the
   guard on the address index is enough, although the indexers, the scan's
   reads and the administrators interleave. *)
THEOREM RangesCovered ==
  ASSUME MaxReorgs = 0
  PROVE  Spec => [](crashes = 0 => CoversRange)
<1>1. Types /\ Whole /\ Complete => (crashes = 0 => CoversRange)
  <2> SUFFICES ASSUME Types, Whole, Complete, crashes = 0, NEW s \in Snapshot,
                      Exists(s), snapshots[s].matched # NoTotals, ~ Swept(s),
                      NEW h \in snapshots[s].range,
                      NEW a \in Recipients[<<h, 0>>] \cap Registered
               PROVE  [snap |-> s, height |-> h, addr |-> a] \in rewardBlocks
    BY DEF CoversRange
  <2>1. BlocksMatch(s) /\ RewardsFound(s)
    BY DEF Whole, Written, Complete, Covered, Finished, Swept
  <2>2. <<h, a>> \in scan[s].found
    BY <2>1 DEF RewardsFound, Finished
  <2>3. QED BY <2>1, <2>2 DEF BlocksMatch
<1>2. QED
  BY <1>1, InitTypes, StepTypes, InitWhole, StepWhole, InitComplete, StepComplete, PTL DEF Spec
=============================================================================
