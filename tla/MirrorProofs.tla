---------------------------- MODULE MirrorProofs ----------------------------
(***************************************************************************)
(* Proofs about Mirror: what the backfill's cursor covers, what the        *)
(* migrator's offset covers, that nedbd's copy agrees with SQLite's        *)
(* tables, and the type invariant; for every chain and table, every number *)
(* of names, writes, tasks and starts, every batch size and every bound on *)
(* failures.                                                               *)
(***************************************************************************)
EXTENDS Mirror, SequenceTheorems, FiniteSetTheorems, TLAPS

TaskType ==
  [pc : {"stopped", "batch", "down", "up"}, lowest : Int, highest : Int,
   current : Int, bottom : Int, next : Int, newTip : Int, wrote : BOOLEAN]

BackfillType ==
  /\ tip \in Nat
  /\ task \in TaskType
  /\ cursor \in [lowest : Int, highest : Int]

Covered(lowest, highest) == lowest..highest \subseteq blocks \cup missed \cup tips

(* The next height of a backward pass is the one below the range that is done,
   that of a forward pass has nothing untried between it and that range. *)
NextAdjoinsRange ==
  /\ task.pc = "batch" => task.current = task.lowest - 1
  /\ task.pc = "down" => task.next = task.lowest - 1
  /\ task.pc = "up" => /\ task.current = task.lowest - 1
                       /\ task.next > task.highest
                       /\ Covered(task.highest + 1, task.next - 1)

IInv == BackfillType /\ NothingSkippedUnseen /\ NextAdjoinsRange

USE DEF Covered

LEMMA InitiallyCovered == Init => IInv
BY BackfillAssumption
   DEF Init, BackfillInit, IInv, BackfillType, TaskType, NothingSkippedUnseen,
       NextAdjoinsRange, NoCursor, Stopped

(* The task of a run that resumes from a range. *)
LEMMA ResumedTask ==
  ASSUME NEW low \in Int, NEW high \in Int,
         task' = [Stopped EXCEPT !.pc = "batch", !.lowest = low, !.highest = high,
                                 !.current = low - 1]
  PROVE  /\ task' \in TaskType /\ task'.pc = "batch"
         /\ task'.lowest = low /\ task'.highest = high /\ task'.current = low - 1
<1>1. low - 1 \in Int
  OBVIOUS
<1>2. Stopped \in TaskType
  BY DEF Stopped, TaskType
<1>3. task' \in TaskType
  BY <1>1, <1>2, Zenon DEF TaskType
<1>4. QED BY <1>2, <1>3 DEF TaskType

(* What a step of the backfill does to the cursor, in memory and saved. *)
LEMMA StepOfBackfill == IInv /\ BackfillNext => IInv'
<1> SUFFICES ASSUME IInv, BackfillNext PROVE IInv'
  OBVIOUS
<1>a. tip \in Nat /\ tip \in Int /\ task \in TaskType /\ BlocksPerBatch \in Nat
  BY BackfillAssumption DEF IInv, BackfillType
<1>i. /\ task.lowest \in Int /\ task.highest \in Int
      /\ task.current \in Int /\ task.next \in Int
      /\ task.lowest - 1 \in Int /\ task.highest + 1 \in Int
      /\ task.next - 1 \in Int /\ task.next + 1 \in Int
  BY <1>a DEF TaskType
<1>b. cursor \in [lowest : Int, highest : Int]
  BY DEF IInv, BackfillType
<1>1. CASE TipRises
  BY <1>1 DEF TipRises,
       IInv, BackfillType, NothingSkippedUnseen, NextAdjoinsRange
<1>2. CASE StartRun
  <2>1. PICK saved \in {cursor, NoCursor} : Resume(saved) /\ UNCHANGED <<tip, blocks, cursor, missed>>
    BY <1>2 DEF StartRun
  <2>2. CASE saved.highest < 0
    <3>1. /\ task' = [Stopped EXCEPT !.pc = "batch", !.lowest = tip, !.highest = tip,
                                     !.current = tip - 1]
          /\ tips' = tips \cup {tip}
      BY <2>1, <2>2 DEF Resume
    <3>2. /\ task' \in TaskType /\ task'.pc = "batch"
          /\ task'.lowest = tip /\ task'.highest = tip /\ task'.current = tip - 1
      BY <1>a, <3>1, ResumedTask
    <3>3. QED BY <2>1, <3>1, <3>2
      DEF IInv, BackfillType, NothingSkippedUnseen, NextAdjoinsRange
  <2>3. CASE ~(saved.highest < 0)
    <3>1. saved = cursor /\ cursor # NoCursor
      BY <2>1, <2>3 DEF NoCursor
    <3>2. /\ task' = [Stopped EXCEPT !.pc = "batch", !.lowest = cursor.lowest,
                                     !.highest = cursor.highest,
                                     !.current = cursor.lowest - 1]
          /\ tips' = tips
      BY <2>1, <2>3, <3>1 DEF Resume
    <3>3. /\ task' \in TaskType /\ task'.pc = "batch"
          /\ task'.lowest = cursor.lowest /\ task'.highest = cursor.highest
          /\ task'.current = cursor.lowest - 1
      BY <1>b, <3>2, ResumedTask
    <3>4. QED BY <2>1, <3>1, <3>2, <3>3
      DEF IInv, BackfillType, NothingSkippedUnseen, NextAdjoinsRange
  <2>4. QED BY <2>2, <2>3
<1>3. CASE StopTask
  BY <1>3 DEF StopTask,
       IInv, BackfillType, NothingSkippedUnseen, NextAdjoinsRange
<1>4. CASE KillTask
  BY <1>4 DEF KillTask, Stopped, TaskType,
       IInv, BackfillType, NothingSkippedUnseen, NextAdjoinsRange
<1>5. CASE BeginBatch
  <2> DEFINE bottom == IF task.current - BlocksPerBatch > -1
                       THEN task.current - BlocksPerBatch ELSE -1
  <2>a. bottom \in Int
    BY <1>a, <1>i
  <2>b. task' = [task EXCEPT !.pc = "down", !.next = task.current, !.wrote = FALSE,
                             !.bottom = bottom]
    BY <1>5 DEF BeginBatch
  <2> HIDE DEF bottom
  <2>c. task' \in TaskType
    BY <1>a, <1>i, <2>a, <2>b, Zenon DEF TaskType
  <2>1. /\ task' \in TaskType /\ task'.pc = "down"
        /\ task'.next = task.current /\ task'.lowest = task.lowest
        /\ task'.highest = task.highest
    BY <1>a, <2>b, <2>c DEF TaskType
  <2>2. task.pc = "batch" /\ UNCHANGED <<tip, blocks, cursor, missed, tips>>
    BY <1>5 DEF BeginBatch
  <2>3. QED BY <2>1, <2>2
    DEF IInv, BackfillType, NothingSkippedUnseen, NextAdjoinsRange
<1>6. CASE Backward
  <2>1. /\ task' \in TaskType /\ task'.pc = "down"
        /\ task'.lowest = task.next /\ task'.next = task.next - 1
        /\ task'.highest = task.highest
    <3>1. \/ task' = [task EXCEPT !.lowest = task.next, !.next = task.next - 1,
                                  !.wrote = TRUE]
          \/ task' = [task EXCEPT !.lowest = task.next, !.next = task.next - 1]
      BY <1>6 DEF Backward
    <3>2. task.pc = "down"
      BY <1>6 DEF Backward
    <3>3. task' \in TaskType
      BY <1>a, <1>i, <3>1, Zenon DEF TaskType
    <3>4. QED BY <1>a, <3>1, <3>2, <3>3 DEF TaskType
  <2>2. /\ task.pc = "down" /\ UNCHANGED <<tip, cursor, tips>>
        /\ task.next \in blocks' \cup missed'
        /\ blocks \subseteq blocks' /\ missed \subseteq missed'
    BY <1>6 DEF Backward
  <2>3. QED BY <2>1, <2>2
    DEF IInv, BackfillType, NothingSkippedUnseen, NextAdjoinsRange, TaskType
<1>7. CASE EndBatch
  <2>1. /\ task' \in TaskType /\ task'.pc = "up"
        /\ task'.next = task.highest + 1 /\ task'.current = task.lowest - 1
        /\ task'.lowest = task.lowest /\ task'.highest = task.highest
    <3>1. task' = [task EXCEPT !.pc = "up", !.current = task.lowest - 1,
                               !.next = task.highest + 1, !.newTip = tip]
      BY <1>7 DEF EndBatch
    <3>2. tip \in Int
      BY <1>a
    <3>3. task' \in TaskType
      BY <1>a, <1>i, <3>1, <3>2, Zenon DEF TaskType
    <3>4. QED BY <1>a, <3>1, <3>3 DEF TaskType
  <2>2. /\ task.pc = "down" /\ UNCHANGED <<tip, blocks, missed, tips>>
        /\ cursor' \in {cursor, [lowest |-> task.lowest, highest |-> task.highest]}
    BY <1>7 DEF EndBatch, Saved
  <2>3. QED BY <2>1, <2>2
    DEF IInv, BackfillType, NothingSkippedUnseen, NextAdjoinsRange, TaskType
<1>8. CASE Forward
  <2>1. /\ task' \in TaskType /\ task'.pc = "up"
        /\ task'.next = task.next + 1 /\ task'.current = task.current
        /\ task'.lowest = task.lowest
        /\ task'.highest \in {task.next, task.highest}
    <3>1. \/ task' = [task EXCEPT !.highest = task.next, !.next = task.next + 1]
          \/ task' = [task EXCEPT !.next = task.next + 1]
      BY <1>8 DEF Forward
    <3>2. task.pc = "up"
      BY <1>8 DEF Forward
    <3>3. task' \in TaskType
      BY <1>a, <1>i, <3>1, Zenon DEF TaskType
    <3>4. QED BY <1>a, <3>1, <3>2, <3>3 DEF TaskType
  <2>2. /\ task.pc = "up" /\ UNCHANGED <<tip, cursor, tips>>
        /\ task.next \in blocks' \cup missed'
        /\ blocks \subseteq blocks' /\ missed \subseteq missed'
    BY <1>8 DEF Forward
  <2>3. QED BY <2>1, <2>2
    DEF IInv, BackfillType, NothingSkippedUnseen, NextAdjoinsRange, TaskType
<1>9. CASE EndForward
  BY <1>9 DEF EndForward, TaskType,
       IInv, BackfillType, NothingSkippedUnseen, NextAdjoinsRange
<1>10. CASE Finish
  BY <1>10 DEF Finish, Saved, Stopped, TaskType,
       IInv, BackfillType, NothingSkippedUnseen, NextAdjoinsRange
<1>11. QED
  BY <1>1, <1>2, <1>3, <1>4, <1>5, <1>6, <1>7, <1>8, <1>9, <1>10
     DEF BackfillNext, BackfillStep

LEMMA Step == IInv /\ [Next]_vars => IInv'
<1> SUFFICES ASSUME IInv, [Next]_vars PROVE IInv'
  OBVIOUS
<1>1. CASE UNCHANGED backfill
  BY <1>1 DEF IInv, BackfillType, NothingSkippedUnseen, NextAdjoinsRange, backfill
<1>2. CASE BackfillNext
  BY <1>2, StepOfBackfill
<1>3. QED BY <1>1, <1>2 DEF Next, vars, Mirroring, Backfilling, Migrating

(* No crash, stop, failed save or failed load of the cursor makes it cover a
   block that was neither written nor tried, except the tip of a first run. *)
THEOREM NoBlockSkippedUnseen == Spec => []NothingSkippedUnseen
<1>1. IInv => NothingSkippedUnseen BY DEF IInv
<1>2. QED BY InitiallyCovered, Step, <1>1, PTL DEF Spec

-----------------------------------------------------------------------------
(* The migrator *)

Rows == [key : {FirstRows[i] : i \in DOMAIN FirstRows} \cup NewKeys, write : Nat]

ScriptType ==
  [pc : {"off", "chunk", "send"}, total : Nat, offset : Nat, batches : SUBSET SUBSET Rows,
   fetched : Nat]

MigratorType ==
  /\ rows \in Seq(Rows) /\ copy \subseteq Rows /\ done \in Nat /\ script \in ScriptType
  /\ changes \in Nat /\ disturbed \in BOOLEAN /\ torn \in BOOLEAN
  /\ IsFiniteSet(copy) /\ \A b \in script.batches : IsFiniteSet(b)

\* Of a key there is one row in the table, in a batch and in nedbd.
KeysDiffer ==
  /\ \A i, j \in DOMAIN rows : rows[i].key = rows[j].key => i = j
  /\ \A b \in script.batches : \A r, s \in b : r.key = s.key => r = s
  /\ \A r, s \in copy : r.key = s.key => r = s

\* Between two chunks nothing is on its way, and a fetched chunk is in the table
\* as long as nobody disturbs it.
ChunkInTable ==
  /\ script.pc # "send" => script.fetched = 0
  /\ ~disturbed /\ script.pc = "send" =>
       /\ Reached <= Len(rows)
       /\ \A b \in script.batches : b \subseteq {rows[i] : i \in 1..Reached}

\* The script is never behind the saved offset, which is in the table.
OffsetsInOrder ==
  ~disturbed /\ ~torn =>
    done <= Len(rows) /\ (script.pc # "off" => done <= script.offset)

\* Every row before the place reached is in nedbd or on its way there.
UnderWay(i) ==
  \/ rows[i] \in copy
  \/ script.pc = "send" /\ \E b \in script.batches : rows[i] \in b

RowsReachedAreSent ==
  ~disturbed /\ ~torn =>
    \A i \in DOMAIN rows :
      /\ i <= done => rows[i] \in copy
      /\ script.pc # "off" /\ i <= script.offset => rows[i] \in copy
      /\ i <= Reached => UnderWay(i)

MigratorInv ==
  MigratorType /\ KeysDiffer /\ ChunkInTable /\ OffsetsInOrder /\ RowsReachedAreSent

LEMMA MigratorStarts == Init => MigratorInv
<1> SUFFICES ASSUME Init PROVE MigratorInv
  OBVIOUS
<1>1. MigratorInit
  BY DEF Init
<1>2. /\ rows \in Seq(Rows) /\ DOMAIN rows = DOMAIN FirstRows
      /\ \A i \in DOMAIN rows : rows[i] = [key |-> FirstRows[i], write |-> 0]
  <2>1. FirstRows \in Seq({FirstRows[i] : i \in DOMAIN FirstRows})
    BY MigratorAssumption
  <2>2. DOMAIN FirstRows = 1..Len(FirstRows) /\ Len(FirstRows) \in Nat
    BY <2>1
  <2>3. \A i \in DOMAIN FirstRows : [key |-> FirstRows[i], write |-> 0] \in Rows
    BY DEF Rows
  <2>4. rows = [i \in 1..Len(FirstRows) |-> [key |-> FirstRows[i], write |-> 0]]
    BY <1>1, <2>2 DEF MigratorInit
  <2>5. QED BY <2>2, <2>3, <2>4
<1>3. /\ script = Off /\ done = 0 /\ copy = {} /\ changes = 0
      /\ disturbed = FALSE /\ torn = FALSE
  BY <1>1 DEF MigratorInit
<1>4. script \in ScriptType /\ script.pc = "off" /\ script.batches = {} /\ script.fetched = 0
      /\ script.offset = 0
  BY <1>3 DEF Off, ScriptType
<1>5. MigratorType
  BY <1>2, <1>3, <1>4, FS_EmptySet DEF MigratorType
<1>6. KeysDiffer
  BY <1>2, <1>3, <1>4, MigratorAssumption DEF KeysDiffer
<1>7. ChunkInTable
  BY <1>4 DEF ChunkInTable
<1>8. Len(rows) \in Nat /\ DOMAIN rows = 1..Len(rows)
  BY <1>2
<1>9. OffsetsInOrder /\ RowsReachedAreSent
  BY <1>3, <1>4, <1>8 DEF OffsetsInOrder, RowsReachedAreSent, Reached
<1>10. QED BY <1>5, <1>6, <1>7, <1>9 DEF MigratorInv

(* The table without one of its rows. *)
LEMMA TableWithout ==
  ASSUME rows \in Seq(Rows), NEW i \in DOMAIN rows
  PROVE  /\ Without(i) \in Seq(Rows)
         /\ Len(Without(i)) \in Nat /\ Len(Without(i)) = Len(rows) - 1
         /\ DOMAIN Without(i) = 1..(Len(rows) - 1)
         /\ \A j \in 1..(Len(rows) - 1) :
              /\ j < i => Without(i)[j] = rows[j]
              /\ j >= i => Without(i)[j] = rows[j + 1]
<1>1. PICK n \in Nat : n = Len(rows)
  OBVIOUS
<1>2. i \in 1..n /\ DOMAIN rows = 1..n
  BY <1>1
<1>3. PICK low : low = SubSeq(rows, 1, i - 1)
  OBVIOUS
<1>4. low \in Seq(Rows) /\ Len(low) = i - 1 /\ \A j \in 1..(i - 1) : low[j] = rows[j]
  <2>1. \A j \in 1..(i - 1) : rows[j] \in Rows
    BY <1>1, <1>2
  <2>2. 1 \in Int /\ i - 1 \in Int
    BY <1>1, <1>2
  <2>3. /\ SubSeq(rows, 1, i - 1) \in Seq(Rows)
        /\ Len(SubSeq(rows, 1, i - 1)) = IF 1 <= i - 1 THEN (i - 1) - 1 + 1 ELSE 0
        /\ \A j \in 1..((i - 1) - 1 + 1) : SubSeq(rows, 1, i - 1)[j] = rows[1 + j - 1]
    BY <2>1, <2>2, SubSeqProperties
  <2>4. QED BY <1>1, <1>2, <1>3, <2>3
<1>5. PICK high : high = SubSeq(rows, i + 1, n)
  OBVIOUS
<1>6. high \in Seq(Rows) /\ Len(high) = n - i /\ \A j \in 1..(n - i) : high[j] = rows[i + j]
  <2>1. \A j \in (i + 1)..n : rows[j] \in Rows
    BY <1>1, <1>2
  <2>2. i + 1 \in Int /\ n \in Int
    BY <1>1, <1>2
  <2>3. /\ SubSeq(rows, i + 1, n) \in Seq(Rows)
        /\ Len(SubSeq(rows, i + 1, n)) = IF i + 1 <= n THEN n - (i + 1) + 1 ELSE 0
        /\ \A j \in 1..(n - (i + 1) + 1) : SubSeq(rows, i + 1, n)[j] = rows[i + 1 + j - 1]
    BY <2>1, <2>2, SubSeqProperties
  <2>4. QED BY <1>1, <1>2, <1>5, <2>3
<1>7. Without(i) = low \o high
  BY <1>1, <1>3, <1>5 DEF Without
<1>8. /\ low \o high \in Seq(Rows) /\ Len(low \o high) = n - 1
      /\ \A j \in 1..(n - 1) : (low \o high)[j] = IF j < i THEN low[j] ELSE high[(j - i) + 1]
  <2>1. /\ low \o high \in Seq(Rows) /\ Len(low \o high) = Len(low) + Len(high)
        /\ \A j \in 1..(Len(low) + Len(high)) :
             (low \o high)[j] = IF j <= Len(low) THEN low[j] ELSE high[j - Len(low)]
    BY <1>4, <1>6, ConcatProperties, Zenon
  <2>2. Len(low) + Len(high) = n - 1
    BY <1>2, <1>4, <1>6
  <2>3. \A j \in 1..(n - 1) : j - (i - 1) = (j - i) + 1 /\ (j <= i - 1 <=> j < i)
    BY <1>2
  <2>4. QED BY <1>2, <1>4, <2>1, <2>2, <2>3
<1>9. ASSUME NEW j \in 1..(n - 1)
      PROVE  /\ j < i => Without(i)[j] = rows[j]
             /\ j >= i => Without(i)[j] = rows[j + 1]
  <2>1. CASE j < i
    BY <1>2, <1>4, <1>7, <1>8, <2>1
  <2>2. CASE j >= i
    <3>1. (j - i) + 1 \in 1..(n - i) /\ i + ((j - i) + 1) = j + 1
      BY <1>2, <2>2
    <3>2. QED BY <1>6, <1>7, <1>8, <2>2, <3>1
  <2>3. QED BY <1>2, <2>1, <2>2
<1>10. DOMAIN Without(i) = 1..(n - 1) /\ n - 1 \in Nat
  <2>1. Without(i) \in Seq(Rows) /\ Len(Without(i)) = n - 1
    BY <1>7, <1>8
  <2>2. QED BY <1>2, <2>1
<1>11. QED BY <1>1, <1>7, <1>8, <1>9, <1>10

LEMMA OffsetsAreNumbers ==
  ASSUME MigratorType
  PROVE  /\ script.offset \in Nat /\ script.fetched \in Nat /\ script.total \in Nat
         /\ script.pc \in {"off", "chunk", "send"} /\ script.batches \in SUBSET SUBSET Rows
         /\ done \in Nat /\ Reached \in Nat
         /\ script.pc = "off" => Reached = done
         /\ script.pc # "off" => Reached = script.offset + script.fetched
         /\ Len(rows) \in Nat /\ DOMAIN rows = 1..Len(rows)
         /\ \A i \in DOMAIN rows : rows[i] \in Rows
<1>1. /\ script.offset \in Nat /\ script.fetched \in Nat /\ script.total \in Nat
      /\ script.pc \in {"off", "chunk", "send"} /\ script.batches \in SUBSET SUBSET Rows
  BY DEF MigratorType, ScriptType
<1>2. QED BY <1>1 DEF MigratorType, Reached

(* A change of the program's that leaves the rows it does not touch where they
   are. *)
LEMMA TableChanges ==
  ASSUME MigratorInv, NEW i \in Nat \ {0}, NEW table \in Seq(Rows), Changes(i, table),
         \A j, l \in DOMAIN table : table[j].key = table[l].key => j = l,
         i - 1 <= Len(table), i - 1 <= Len(rows),
         \A j \in 1..(i - 1) : table[j] = rows[j]
  PROVE  MigratorInv'
<1>1. /\ rows' = table /\ disturbed' = (disturbed \/ i <= Reached) /\ changes' = changes + 1
      /\ copy' = copy /\ done' = done /\ script' = script /\ torn' = torn
  BY DEF Changes
<1>2. /\ MigratorType /\ KeysDiffer /\ ChunkInTable /\ OffsetsInOrder /\ RowsReachedAreSent
  BY DEF MigratorInv
<1>3. Reached' = Reached
  BY <1>1 DEF Reached
<1>4. PICK n \in Nat : n = Len(table)
  OBVIOUS
<1>5. DOMAIN table = 1..n
  BY <1>4
<1>6. /\ script.offset \in Nat /\ script.fetched \in Nat /\ done \in Nat /\ Reached \in Nat
      /\ script.pc \in {"off", "chunk", "send"}
      /\ script.pc = "off" => Reached = done
      /\ script.pc # "off" => Reached = script.offset + script.fetched
  BY <1>2, OffsetsAreNumbers
<1>7. MigratorType'
  BY <1>1, <1>2 DEF MigratorType
<1>8. KeysDiffer'
  BY <1>1, <1>2 DEF KeysDiffer
<1>9. ASSUME ~disturbed'
      PROVE  /\ ~disturbed /\ Reached <= i - 1 /\ Reached <= n
             /\ \A j \in 1..Reached : table[j] = rows[j]
  <2>1. ~disturbed /\ ~(i <= Reached) /\ disturbed \in BOOLEAN
    BY <1>1, <1>2, <1>9 DEF MigratorType
  <2>2. Reached <= i - 1
    BY <1>6, <2>1
  <2>3. i - 1 <= n
    BY <1>4
  <2>4. QED BY <1>6, <2>1, <2>2, <2>3
<1>10. ChunkInTable'
  <2>1. script'.pc # "send" => script'.fetched = 0
    BY <1>1, <1>2 DEF ChunkInTable
  <2>2. ASSUME ~disturbed', script'.pc = "send"
        PROVE  /\ Reached' <= Len(rows')
               /\ \A b \in script'.batches : b \subseteq {rows'[j] : j \in 1..Reached'}
    <3>1. \A b \in script.batches : b \subseteq {rows[j] : j \in 1..Reached}
      BY <1>1, <1>2, <1>9, <2>2 DEF ChunkInTable
    <3>2. {rows[j] : j \in 1..Reached} = {table[j] : j \in 1..Reached}
      BY <1>9, <2>2
    <3>3. QED BY <1>1, <1>3, <1>4, <1>9, <2>2, <3>1, <3>2
  <2>3. QED BY <2>1, <2>2 DEF ChunkInTable
<1>11. ASSUME ~disturbed', ~torn'
       PROVE  /\ done <= Reached /\ done <= n /\ (script.pc # "off" => script.offset <= Reached)
              /\ script.pc # "off" => done <= script.offset
  <2>1. done <= Len(rows) /\ (script.pc # "off" => done <= script.offset)
    BY <1>1, <1>2, <1>9, <1>11 DEF OffsetsInOrder
  <2>2. done <= Reached
    BY <1>6, <2>1
  <2>3. Reached <= n
    BY <1>9, <1>11
  <2>4. done <= n
    BY <1>4, <1>6, <2>2, <2>3
  <2>5. script.pc # "off" => script.offset <= Reached
    BY <1>6
  <2>6. QED BY <2>1, <2>2, <2>4, <2>5
<1>12. OffsetsInOrder'
  BY <1>1, <1>4, <1>11 DEF OffsetsInOrder
<1>13. RowsReachedAreSent'
  <2>1. ASSUME ~disturbed', ~torn', NEW j \in DOMAIN table
        PROVE  /\ j <= done => table[j] \in copy
               /\ script.pc # "off" /\ j <= script.offset => table[j] \in copy
               /\ j <= Reached => \/ table[j] \in copy
                                  \/ script.pc = "send" /\ \E b \in script.batches : table[j] \in b
    <3>1. j \in Nat /\ j >= 1
      BY <1>5, <2>1
    <3>2. ASSUME j <= Reached
          PROVE  j \in DOMAIN rows /\ table[j] = rows[j]
      <4>1. j \in 1..Reached
        BY <1>6, <3>1, <3>2
      <4>2. Reached <= i - 1 /\ table[j] = rows[j]
        BY <1>9, <2>1, <4>1
      <4>3. PICK m \in Nat : m = Len(rows)
        BY <1>2, OffsetsAreNumbers
      <4>4. j \in 1..m
        BY <1>6, <3>1, <3>2, <4>2, <4>3
      <4>5. DOMAIN rows = 1..m
        BY <1>2, <4>3, OffsetsAreNumbers
      <4>6. QED BY <4>2, <4>4, <4>5
    <3>3. ~disturbed /\ ~torn
      BY <1>1, <1>9, <2>1
    <3>4. j <= done => j <= Reached
      BY <1>6, <1>11, <2>1, <3>1
    <3>5. script.pc # "off" /\ j <= script.offset => j <= Reached
      BY <1>6, <1>11, <2>1, <3>1
    <3>6. QED BY <1>2, <3>2, <3>3, <3>4, <3>5 DEF RowsReachedAreSent, UnderWay
  <2>2. QED BY <1>1, <1>3, <2>1 DEF RowsReachedAreSent, UnderWay
<1>14. QED BY <1>7, <1>8, <1>10, <1>12, <1>13 DEF MigratorInv

(* What the program does to the table while the script runs, or does not. *)
LEMMA ProgramSteps ==
  ASSUME MigratorInv,
         \/ \E k \in NewKeys : InsertRow(k)
         \/ \E i \in DOMAIN rows : DeleteRow(i) \/ ReplaceRow(i) \/ UpdateRow(i)
  PROVE  MigratorInv'
<1>1. /\ rows \in Seq(Rows) /\ changes \in Nat /\ changes + 1 \in Nat
      /\ \A i, j \in DOMAIN rows : rows[i].key = rows[j].key => i = j
  BY DEF MigratorInv, MigratorType, KeysDiffer
<1>2. PICK n \in Nat : n = Len(rows)
  BY <1>1
<1>3. DOMAIN rows = 1..n
  BY <1>1, <1>2
<1>4. ASSUME NEW table \in Seq(Rows), NEW row \in Rows,
             \A i, j \in DOMAIN table : table[i].key = table[j].key => i = j,
             \A i \in DOMAIN table : table[i].key # row.key
      PROVE  /\ Append(table, row) \in Seq(Rows)
             /\ Len(Append(table, row)) = Len(table) + 1
             /\ \A j \in 1..Len(table) : Append(table, row)[j] = table[j]
             /\ \A i, j \in DOMAIN Append(table, row) :
                  Append(table, row)[i].key = Append(table, row)[j].key => i = j
  <2>1. PICK m \in Nat : m = Len(table)
    OBVIOUS
  <2>2. /\ Append(table, row) \in Seq(Rows) /\ Len(Append(table, row)) = m + 1
        /\ \A j \in 1..m : Append(table, row)[j] = table[j]
        /\ Append(table, row)[m + 1] = row /\ DOMAIN table = 1..m
    BY <2>1, AppendProperties
  <2>3. DOMAIN Append(table, row) = 1..(m + 1)
    BY <2>2
  <2>4. ASSUME NEW j \in 1..(m + 1) PROVE j \in 1..m \/ j = m + 1
    OBVIOUS
  <2>5. QED BY <1>4, <2>1, <2>2, <2>3, <2>4
<1>5. ASSUME NEW k \in NewKeys, InsertRow(k)
      PROVE  MigratorInv'
  <2>1. PICK row \in Rows : row = [key |-> k, write |-> changes + 1] /\ row.key = k
    <3> DEFINE r == [key |-> k, write |-> changes + 1]
    <3>1. r \in Rows /\ r.key = k
      BY <1>1 DEF Rows
    <3>2. QED BY <3>1
  <2>2. /\ \A i \in DOMAIN rows : rows[i].key # k
        /\ Changes(Len(rows) + 1, Append(rows, row))
    BY <1>5, <2>1 DEF InsertRow
  <2>3. /\ Append(rows, row) \in Seq(Rows)
        /\ Len(Append(rows, row)) = n + 1
        /\ \A j \in 1..n : Append(rows, row)[j] = rows[j]
        /\ \A i, j \in DOMAIN Append(rows, row) :
             Append(rows, row)[i].key = Append(rows, row)[j].key => i = j
    BY <1>1, <1>2, <1>4, <2>1, <2>2
  <2>4. n + 1 \in Nat \ {0} /\ (n + 1) - 1 = n /\ n <= n + 1 /\ n <= n
    BY <1>2
  <2>5. Changes(n + 1, Append(rows, row))
    BY <1>2, <2>2
  <2>6. QED BY <1>2, <2>3, <2>4, <2>5, TableChanges
<1>6. ASSUME NEW i \in DOMAIN rows
      PROVE  /\ Without(i) \in Seq(Rows) /\ Len(Without(i)) = n - 1
             /\ i - 1 <= n - 1 /\ i - 1 <= n /\ n - 1 \in Nat /\ i \in Nat \ {0}
             /\ \A j \in 1..(i - 1) : j \in 1..(n - 1) /\ Without(i)[j] = rows[j]
             /\ \A j, l \in DOMAIN Without(i) : Without(i)[j].key = Without(i)[l].key => j = l
             /\ \A j \in DOMAIN Without(i) : Without(i)[j].key # rows[i].key
  <2>1. /\ Without(i) \in Seq(Rows) /\ Len(Without(i)) = n - 1
        /\ DOMAIN Without(i) = 1..(n - 1)
        /\ \A j \in 1..(n - 1) :
             /\ j < i => Without(i)[j] = rows[j]
             /\ j >= i => Without(i)[j] = rows[j + 1]
    BY <1>1, <1>2, TableWithout
  <2>2. i - 1 <= n - 1 /\ i - 1 <= n /\ n - 1 \in Nat /\ i \in Nat \ {0}
    BY <1>3
  <2>3. \A j \in 1..(i - 1) : j \in 1..(n - 1) /\ Without(i)[j] = rows[j]
    BY <1>3, <2>1
  <2>4. ASSUME NEW j \in 1..(n - 1)
        PROVE  \E p \in 1..n : /\ Without(i)[j] = rows[p] /\ p # i
                               /\ j < i => p = j
                               /\ j >= i => p = j + 1
    <3>1. CASE j < i
      BY <1>3, <2>1, <3>1
    <3>2. CASE j >= i
      <4>1. j + 1 \in 1..n /\ j + 1 # i
        BY <1>3, <3>2
      <4>2. QED BY <1>3, <2>1, <3>2, <4>1
    <3>3. QED BY <1>3, <3>1, <3>2
  <2>5. ASSUME NEW j \in 1..(n - 1), NEW l \in 1..(n - 1),
               Without(i)[j].key = Without(i)[l].key
        PROVE  j = l
    <3>1. PICK p \in 1..n : /\ Without(i)[j] = rows[p] /\ p # i
                            /\ j < i => p = j
                            /\ j >= i => p = j + 1
      BY <2>4
    <3>2. PICK q \in 1..n : /\ Without(i)[l] = rows[q] /\ q # i
                            /\ l < i => q = l
                            /\ l >= i => q = l + 1
      BY <2>4
    <3>3. p = q
      BY <1>1, <1>3, <2>5, <3>1, <3>2
    <3>4. QED BY <1>3, <3>1, <3>2, <3>3
  <2>6. \A j \in 1..(n - 1) : Without(i)[j].key # rows[i].key
    BY <1>1, <1>3, <2>4
  <2>7. QED BY <2>1, <2>2, <2>3, <2>5, <2>6
<1>7. ASSUME NEW i \in DOMAIN rows, DeleteRow(i)
      PROVE  MigratorInv'
  <2>1. Changes(i, Without(i))
    BY <1>7 DEF DeleteRow
  <2>2. QED BY <1>2, <1>6, <2>1, TableChanges
<1>8. ASSUME NEW i \in DOMAIN rows, ReplaceRow(i)
      PROVE  MigratorInv'
  <2>1. rows[i] \in Rows
    BY <1>1, <1>3
  <2>2. PICK row \in Rows : /\ row = [key |-> rows[i].key, write |-> changes + 1]
                            /\ row.key = rows[i].key
    <3> DEFINE r == [key |-> rows[i].key, write |-> changes + 1]
    <3>1. r \in Rows /\ r.key = rows[i].key
      BY <1>1, <2>1 DEF Rows
    <3>2. QED BY <3>1
  <2>3. Changes(i, Append(Without(i), row))
    BY <1>8, <2>2 DEF ReplaceRow
  <2>4. /\ Append(Without(i), row) \in Seq(Rows)
        /\ Len(Append(Without(i), row)) = (n - 1) + 1
        /\ \A j \in 1..(n - 1) : Append(Without(i), row)[j] = Without(i)[j]
        /\ \A j, l \in DOMAIN Append(Without(i), row) :
             Append(Without(i), row)[j].key = Append(Without(i), row)[l].key => j = l
    BY <1>4, <1>6, <2>2
  <2>5. (n - 1) + 1 = n
    BY <1>2
  <2>6. \A j \in 1..(i - 1) : Append(Without(i), row)[j] = rows[j]
    BY <1>6, <2>4
  <2>7. QED BY <1>2, <1>6, <2>3, <2>4, <2>5, <2>6, TableChanges
<1>9. ASSUME NEW i \in DOMAIN rows, UpdateRow(i)
      PROVE  MigratorInv'
  <2>1. rows[i] \in Rows
    BY <1>1, <1>3
  <2>2. PICK row \in Rows : /\ row = [rows[i] EXCEPT !.write = changes + 1]
                            /\ row.key = rows[i].key
    <3> DEFINE r == [rows[i] EXCEPT !.write = changes + 1]
    <3>1. r \in Rows /\ r.key = rows[i].key
      BY <1>1, <2>1 DEF Rows
    <3>2. QED BY <3>1
  <2>3. PICK table \in Seq(Rows) :
          /\ table = [rows EXCEPT ![i] = row]
          /\ DOMAIN table = 1..n /\ Len(table) = n /\ table[i] = row
          /\ \A j \in 1..n : j # i => table[j] = rows[j]
    <3> DEFINE t == [rows EXCEPT ![i] = row]
    <3>1. t \in Seq(Rows) /\ Len(t) = n /\ \A j \in 1..n : t[j] = IF j = i THEN row ELSE rows[j]
      BY <1>1, <1>2, <1>3, ExceptSeq
    <3>2. DOMAIN t = 1..n
      BY <1>3
    <3>3. QED BY <1>3, <3>1, <3>2
  <2>4. Changes(i, table)
    BY <1>9, <2>2, <2>3 DEF UpdateRow
  <2>5. \A j \in 1..n : table[j].key = rows[j].key
    BY <1>3, <2>2, <2>3
  <2>6. \A j, l \in DOMAIN table : table[j].key = table[l].key => j = l
    BY <1>1, <1>3, <2>3, <2>5
  <2>7. /\ i \in Nat \ {0} /\ i - 1 <= n
        /\ \A j \in 1..(i - 1) : j \in 1..n /\ j # i
    BY <1>3
  <2>8. \A j \in 1..(i - 1) : table[j] = rows[j]
    BY <2>3, <2>7
  <2>9. QED BY <1>2, <2>3, <2>4, <2>6, <2>7, <2>8, TableChanges
<1>10. QED BY <1>5, <1>7, <1>8, <1>9

LEMMA StartingScript == ASSUME MigratorInv, StartScript PROVE MigratorInv'
<1>1. /\ MigratorType /\ KeysDiffer /\ OffsetsInOrder /\ RowsReachedAreSent
      /\ script.pc = "off" /\ UNCHANGED <<rows, copy, changes, disturbed>>
      /\ torn' = (torn \/ (Verify /\ ~Contiguous))
  BY DEF MigratorInv, StartScript
<1>2. /\ Len(rows) \in Nat /\ done \in Nat /\ Cardinality(copy) \in Nat
      /\ DOMAIN rows = 1..Len(rows)
  BY <1>1, OffsetsAreNumbers, FS_CardinalityType DEF MigratorType
<1>3. PICK n \in Nat, c \in Nat, d0 \in Nat : n = Len(rows) /\ c = Cardinality(copy) /\ d0 = done
  BY <1>2
<1>4. PICK counted \in Nat :
        /\ counted = 0 \/ (Verify /\ counted = c)
        /\ done' = IF Verify THEN IF counted >= n THEN n ELSE IF counted > d0 THEN counted ELSE d0
                             ELSE d0
        /\ script' = [Off EXCEPT !.pc = "chunk", !.total = n, !.offset = done']
  <2>1. PICK k \in (IF Verify THEN {0, Cardinality(copy)} ELSE {0}) :
          /\ done' = (IF Verify THEN IF k >= Len(rows) THEN Len(rows) ELSE IF k > done THEN k ELSE done
                                ELSE done)
          /\ script' = [Off EXCEPT !.pc = "chunk", !.total = Len(rows), !.offset = done']
    BY Zenon DEF StartScript
  <2>2. k = 0 \/ (Verify /\ k = c)
    BY <1>3, <2>1
  <2>3. k \in Nat
    BY <2>2
  <2>4. QED BY <1>3, <2>1, <2>2, <2>3
<1>5. PICK d \in Nat : d = done'
  BY <1>3, <1>4
<1>6. /\ script' \in ScriptType /\ script'.pc = "chunk" /\ script'.batches = {}
      /\ script'.fetched = 0 /\ script'.offset = d
  <2> DEFINE r == [Off EXCEPT !.pc = "chunk", !.total = n, !.offset = d]
  <2>1. r \in ScriptType /\ r.pc = "chunk" /\ r.batches = {} /\ r.fetched = 0 /\ r.offset = d
    BY DEF Off, ScriptType
  <2>2. script' = r
    BY <1>4, <1>5
  <2>3. QED BY <2>1, <2>2
<1>7. Reached' = d
  BY <1>6 DEF Reached
<1>8. MigratorType'
  BY <1>1, <1>5, <1>6 DEF MigratorType
<1>9. KeysDiffer'
  BY <1>1, <1>6 DEF KeysDiffer
<1>10. ChunkInTable'
  BY <1>6 DEF ChunkInTable
<1>11. ASSUME ~disturbed', ~torn'
       PROVE  d <= n /\ \A i \in 1..n : i <= d => rows[i] \in copy
  <2>1. ~disturbed /\ ~torn /\ (Verify => Contiguous)
    BY <1>1, <1>11 DEF MigratorType
  <2>2. d0 <= n /\ \A i \in 1..n : i <= d0 => rows[i] \in copy
    BY <1>1, <1>2, <1>3, <2>1 DEF OffsetsInOrder, RowsReachedAreSent
  <2>3. CASE d = d0
    BY <2>2, <2>3
  <2>4. CASE Verify /\ counted = c /\ d = c
    <3>1. c <= n /\ copy = {rows[i] : i \in 1..c}
      BY <1>3, <2>1, <2>4 DEF Contiguous
    <3>2. QED BY <2>4, <3>1
  <2>5. CASE Verify /\ counted >= n
    <3>1. d = n
      BY <1>4, <1>5, <2>5
    <3>2. CASE counted = 0
      BY <2>5, <3>1, <3>2
    <3>3. CASE counted = c
      <4>1. c <= n
        BY <1>3, <2>1, <2>5 DEF Contiguous
      <4>2. c = n
        BY <2>5, <3>3, <4>1
      <4>3. QED BY <2>4, <2>5, <3>1, <3>3, <4>2
    <3>4. QED BY <1>4, <3>2, <3>3
  <2>6. CASE Verify /\ ~(counted >= n) /\ counted > d0
    <3>1. d = counted /\ counted # 0
      BY <1>4, <1>5, <2>6
    <3>2. QED BY <1>4, <2>4, <2>6, <3>1
  <2>7. CASE ~Verify \/ (~(counted >= n) /\ ~(counted > d0))
    BY <1>4, <1>5, <2>3, <2>7
  <2>8. QED BY <2>5, <2>6, <2>7
<1>12. OffsetsInOrder'
  BY <1>1, <1>3, <1>5, <1>6, <1>11 DEF OffsetsInOrder
<1>13. RowsReachedAreSent'
  BY <1>1, <1>2, <1>3, <1>5, <1>6, <1>7, <1>11 DEF RowsReachedAreSent, UnderWay
<1>14. QED BY <1>8, <1>9, <1>10, <1>12, <1>13 DEF MigratorInv

(* The script ends or dies: what it had fetched is read again from the saved
   offset. *)
LEMMA EndingScript == ASSUME MigratorInv, Abort \/ EndScript PROVE MigratorInv'
<1>1. /\ script' = Off
      /\ UNCHANGED <<rows, copy, done, changes, disturbed, torn>>
      /\ MigratorType /\ KeysDiffer /\ OffsetsInOrder /\ RowsReachedAreSent
  BY DEF Abort, EndScript, MigratorInv
<1>2. /\ script' \in ScriptType /\ script'.pc = "off" /\ script'.batches = {}
      /\ script'.fetched = 0
  BY <1>1 DEF Off, ScriptType
<1>3. Reached' = done
  BY <1>1, <1>2 DEF Reached
<1>4. MigratorType' /\ KeysDiffer' /\ ChunkInTable'
  BY <1>1, <1>2 DEF MigratorType, KeysDiffer, ChunkInTable
<1>5. OffsetsInOrder'
  BY <1>1, <1>2 DEF OffsetsInOrder
<1>6. RowsReachedAreSent'
  BY <1>1, <1>2, <1>3 DEF RowsReachedAreSent, UnderWay
<1>7. QED BY <1>4, <1>5, <1>6 DEF MigratorInv

(* A chunk is read: every one of its rows is in a batch. *)
LEMMA FetchingChunk == ASSUME MigratorInv, FetchChunk PROVE MigratorInv'
<1>1. /\ MigratorType /\ KeysDiffer /\ ChunkInTable /\ OffsetsInOrder /\ RowsReachedAreSent
      /\ script.pc = "chunk"
      /\ UNCHANGED <<rows, copy, done, changes, disturbed, torn>>
  BY DEF MigratorInv, FetchChunk
<1>2. PICK n \in Nat, o \in Nat : n = Len(rows) /\ o = script.offset
  BY <1>1, OffsetsAreNumbers
<1>3. /\ DOMAIN rows = 1..n /\ \A i \in 1..n : rows[i] \in Rows
      /\ Reached = o /\ done \in Nat /\ script.fetched = 0
  BY <1>1, <1>2, OffsetsAreNumbers DEF ChunkInTable
<1> DEFINE last == Lesser(script.offset + Chunk, Len(rows))
<1>4. last \in Nat /\ last <= n /\ (last <= o => n <= o)
  BY <1>2, MigratorAssumption DEF Lesser
<1>5. /\ last <= script.offset => script' = [script EXCEPT !.offset = @ + Chunk]
      /\ ~(last <= script.offset) =>
           script' = [script EXCEPT !.pc = "send", !.fetched = last - script.offset,
             !.batches = {{rows[i] : i \in {j \in (script.offset + 1)..last :
                             (j - script.offset - 1) \div BatchRows = (k - script.offset - 1) \div BatchRows}} :
                           k \in (script.offset + 1)..last}]
  BY Zenon DEF FetchChunk
<1> HIDE DEF last
<1>6. CASE last <= o
  <2>1. script' = [script EXCEPT !.offset = @ + Chunk]
    BY <1>2, <1>5, <1>6
  <2>2. PICK m \in Nat : m = o + Chunk /\ m > o /\ n <= o
    <3>1. o + Chunk \in Nat /\ o + Chunk > o
      BY MigratorAssumption
    <3>2. n <= o
      BY <1>4, <1>6
    <3>3. QED BY <3>1, <3>2
  <2>3. /\ script' \in ScriptType /\ script'.pc = "chunk" /\ script'.batches = script.batches
        /\ script'.fetched = 0 /\ script'.offset = m
    <3> DEFINE r == [script EXCEPT !.offset = m]
    <3>1. script \in ScriptType
      BY <1>1 DEF MigratorType
    <3>2. r \in ScriptType /\ r.pc = script.pc /\ r.batches = script.batches
          /\ r.fetched = script.fetched /\ r.offset = m
      BY <3>1 DEF ScriptType
    <3>3. script' = r
      BY <1>2, <2>1, <2>2
    <3>4. QED BY <1>1, <1>3, <3>2, <3>3
  <2>4. Reached' = m
    BY <2>3 DEF Reached
  <2>5. MigratorType' /\ KeysDiffer' /\ ChunkInTable'
    BY <1>1, <2>3 DEF MigratorType, KeysDiffer, ChunkInTable
  <2>6. OffsetsInOrder'
    BY <1>1, <1>2, <1>3, <2>2, <2>3 DEF OffsetsInOrder
  <2>7. ASSUME ~disturbed', ~torn', NEW i \in 1..n
        PROVE  rows[i] \in copy
    <3>1. i <= o
      BY <1>2, <2>2
    <3>2. QED BY <1>1, <1>2, <1>3, <2>7, <3>1 DEF RowsReachedAreSent
  <2>8. RowsReachedAreSent'
    BY <1>1, <1>2, <1>3, <2>3, <2>7 DEF RowsReachedAreSent, UnderWay
  <2>9. QED BY <2>5, <2>6, <2>8 DEF MigratorInv
<1>7. CASE ~(last <= o)
  <2> DEFINE fetched   == (script.offset + 1)..last
             number(i) == (i - script.offset - 1) \div BatchRows
             batch(k)  == {rows[i] : i \in {j \in fetched : number(j) = k}}
             all       == {batch(number(i)) : i \in fetched}
  <2>1. script' = [script EXCEPT !.pc = "send", !.fetched = last - script.offset, !.batches = all]
    BY Zenon, <1>2, <1>5, <1>7
  <2>2. /\ fetched \subseteq 1..n /\ last - o \in Nat /\ o + (last - o) = last
        /\ \A i \in 1..last : i \in fetched \/ i <= o
        /\ fetched \subseteq 1..last
    BY <1>2, <1>4, <1>7
  <2>3. IsFiniteSet(fetched)
    <3>1. script.offset + 1 \in Int /\ last \in Int
      BY <1>2, <1>4
    <3>2. QED BY <3>1, FS_Interval
  <2>4. PICK lot \in SUBSET SUBSET Rows :
          /\ lot = all
          /\ \A b \in lot : /\ IsFiniteSet(b) /\ \A r, s \in b : r.key = s.key => r = s
                            /\ b \subseteq {rows[i] : i \in 1..last}
          /\ \A i \in fetched : \E b \in lot : rows[i] \in b
    <3>1. ASSUME NEW k
          PROVE  /\ batch(k) \subseteq Rows /\ IsFiniteSet(batch(k))
                 /\ \A r, s \in batch(k) : r.key = s.key => r = s
                 /\ batch(k) \subseteq {rows[i] : i \in 1..last}
      <4>1. PICK js \in SUBSET fetched : js = {j \in fetched : number(j) = k}
        OBVIOUS
      <4>2. IsFiniteSet(js)
        BY <2>3, FS_Subset
      <4>3. IsFiniteSet({rows[i] : i \in js})
        <5> DEFINE row == [i \in js |-> rows[i]]
        <5>1. row \in Surjection(js, {rows[i] : i \in js})
          BY DEF Surjection
        <5>2. QED BY <4>2, <5>1, FS_Surjection
      <4>4. /\ \A r \in {rows[i] : i \in js} : \E i \in 1..n : i \in 1..last /\ r = rows[i]
        BY <2>2
      <4>5. batch(k) = {rows[i] : i \in js}
        BY <4>1
      <4>6. \A i, j \in 1..n : rows[i].key = rows[j].key => i = j
        BY <1>1, <1>3 DEF KeysDiffer
      <4>7. PICK b : b = {rows[i] : i \in js}
        OBVIOUS
      <4>8. b \subseteq Rows
        BY <1>3, <4>4, <4>7
      <4>9. \A r, s \in b : r.key = s.key => r = s
        BY <4>4, <4>6, <4>7
      <4>10. b \subseteq {rows[i] : i \in 1..last}
        BY <4>4, <4>7
      <4>11. QED BY Zenon, <4>3, <4>5, <4>7, <4>8, <4>9, <4>10
    <3>2. ASSUME NEW i \in fetched PROVE rows[i] \in batch(number(i))
      OBVIOUS
    <3>3. all \in SUBSET SUBSET Rows
      BY <3>1
    <3>4. \A b \in all : /\ IsFiniteSet(b) /\ \A r, s \in b : r.key = s.key => r = s
                         /\ b \subseteq {rows[i] : i \in 1..last}
      BY <3>1
    <3>5. \A i \in fetched : \E b \in all : rows[i] \in b
      BY <3>2
    <3> HIDE DEF all
    <3>6. QED BY <3>3, <3>4, <3>5
  <2>5. PICK size \in Nat : size = last - o
    BY <2>2
  <2>6. /\ script' \in ScriptType /\ script'.pc = "send" /\ script'.batches = lot
        /\ script'.fetched = size /\ script'.offset = o
    <3> HIDE DEF all
    <3> DEFINE r == [script EXCEPT !.pc = "send", !.fetched = size, !.batches = lot]
    <3>1. script \in ScriptType
      BY <1>1 DEF MigratorType
    <3>2. r \in ScriptType /\ r.pc = "send" /\ r.batches = lot
          /\ r.fetched = size /\ r.offset = script.offset
      BY <3>1 DEF ScriptType
    <3>3. script' = r
      BY <1>2, <2>1, <2>4, <2>5
    <3>4. QED BY <1>2, <3>2, <3>3
  <2>7. Reached' = last
    BY <2>2, <2>5, <2>6 DEF Reached
  <2> HIDE DEF all, batch, number
  <2>8. MigratorType'
    BY <1>1, <2>4, <2>6 DEF MigratorType
  <2>9. KeysDiffer'
    BY <1>1, <2>4, <2>6 DEF KeysDiffer
  <2>10. ChunkInTable'
    BY <1>1, <1>2, <1>4, <2>4, <2>6, <2>7 DEF ChunkInTable
  <2>11. OffsetsInOrder'
    BY <1>1, <1>2, <2>6 DEF OffsetsInOrder
  <2>12. RowsReachedAreSent'
    <3>1. ASSUME ~disturbed', ~torn', NEW i \in 1..n
          PROVE  /\ i <= done => rows[i] \in copy
                 /\ i <= o => rows[i] \in copy
                 /\ i <= last => rows[i] \in copy \/ \E b \in lot : rows[i] \in b
      <4>1. (i <= done => rows[i] \in copy) /\ (i <= o => rows[i] \in copy)
        BY <1>1, <1>2, <1>3, <3>1 DEF RowsReachedAreSent
      <4>2. i <= last => i \in 1..last
        BY <1>4
      <4>3. QED BY <2>2, <2>4, <4>1, <4>2
    <3>2. QED BY <1>1, <1>3, <2>6, <2>7, <3>1 DEF RowsReachedAreSent, UnderWay
  <2>13. QED BY <2>8, <2>9, <2>10, <2>11, <2>12 DEF MigratorInv
<1>8. QED BY <1>6, <1>7

(* A batch is put: of what it replaces in nedbd, the row in the table is new. *)
LEMMA SendingBatch == ASSUME MigratorInv, SendBatch PROVE MigratorInv'
<1>1. /\ MigratorType /\ KeysDiffer /\ ChunkInTable /\ OffsetsInOrder /\ RowsReachedAreSent
      /\ script.pc = "send"
      /\ UNCHANGED <<rows, done, changes, disturbed, torn>>
  BY DEF MigratorInv, SendBatch
<1>2. PICK b \in script.batches : /\ copy' = Stored(b)
                                  /\ script' = [script EXCEPT !.batches = @ \ {b}]
  BY DEF SendBatch
<1>3. /\ script \in ScriptType /\ script.batches \in SUBSET SUBSET Rows
      /\ copy \subseteq Rows /\ IsFiniteSet(copy) /\ IsFiniteSet(b)
  BY <1>1, OffsetsAreNumbers DEF MigratorType
<1>4. /\ script' \in ScriptType /\ script'.pc = "send" /\ script'.batches = script.batches \ {b}
      /\ script'.fetched = script.fetched /\ script'.offset = script.offset
  <2>1. PICK lot \in SUBSET SUBSET Rows : lot = script.batches \ {b}
    BY <1>3
  <2> DEFINE r == [script EXCEPT !.batches = lot]
  <2>2. r \in ScriptType /\ r.pc = script.pc /\ r.batches = lot
        /\ r.fetched = script.fetched /\ r.offset = script.offset
    BY <1>3, <2>1 DEF ScriptType
  <2>3. script' = r
    BY <1>2, <2>1
  <2>4. QED BY <1>1, <2>1, <2>2, <2>3
<1>5. Reached' = Reached
  BY <1>1, <1>4 DEF Reached
<1>6. PICK kept \in SUBSET copy :
        kept = {r \in copy : \A s \in b : s.key # r.key} /\ copy' = kept \cup b
  BY <1>2 DEF Stored
<1>7. MigratorType'
  <2>1. IsFiniteSet(kept \cup b)
    BY <1>3, <1>6, FS_Subset, FS_Union
  <2>2. kept \cup b \subseteq Rows
    BY <1>3, <1>6
  <2>3. QED BY <1>1, <1>4, <1>6, <2>1, <2>2 DEF MigratorType
<1>8. KeysDiffer'
  BY <1>1, <1>4, <1>6 DEF KeysDiffer
<1>9. ChunkInTable'
  BY <1>1, <1>4, <1>5 DEF ChunkInTable
<1>10. OffsetsInOrder'
  BY <1>1, <1>4 DEF OffsetsInOrder
<1>11. ASSUME ~disturbed, NEW i \in DOMAIN rows, rows[i] \in copy PROVE rows[i] \in copy'
  <2>1. CASE rows[i] \in kept
    BY <1>6, <2>1
  <2>2. CASE rows[i] \notin kept
    <3>1. PICK s \in b : s.key = rows[i].key
      BY <1>6, <1>11, <2>2
    <3>2. PICK j \in 1..Reached : s = rows[j]
      BY <1>1, <1>11 DEF ChunkInTable
    <3>3. j \in DOMAIN rows
      <4>1. Reached <= Len(rows) /\ Len(rows) \in Nat /\ Reached \in Nat /\ DOMAIN rows = 1..Len(rows)
        BY <1>1, <1>11, OffsetsAreNumbers DEF ChunkInTable
      <4>2. QED BY <4>1
    <3>4. s = rows[i]
      BY <1>1, <3>1, <3>2, <3>3 DEF KeysDiffer
    <3>5. QED BY <1>6, <3>4
  <2>3. QED BY <2>1, <2>2
<1>12. RowsReachedAreSent'
  <2>1. ASSUME ~disturbed', ~torn', NEW i \in DOMAIN rows
        PROVE  /\ i <= done => rows[i] \in copy'
               /\ i <= script.offset => rows[i] \in copy'
               /\ i <= Reached => rows[i] \in copy' \/ \E l \in script'.batches : rows[i] \in l
    <3>1. ~disturbed /\ ~torn
      BY <1>1, <2>1
    <3>2. /\ i <= done => rows[i] \in copy
          /\ i <= script.offset => rows[i] \in copy
          /\ i <= Reached => rows[i] \in copy \/ \E l \in script.batches : rows[i] \in l
      BY <1>1, <2>1, <3>1 DEF RowsReachedAreSent, UnderWay
    <3>3. QED BY <1>4, <1>6, <1>11, <2>1, <3>1, <3>2
  <2>2. QED BY <1>1, <1>4, <1>5, <2>1 DEF RowsReachedAreSent, UnderWay
<1>13. QED BY <1>7, <1>8, <1>9, <1>10, <1>12 DEF MigratorInv

(* The offset is saved once nothing is on its way. *)
LEMMA SavingState == ASSUME MigratorInv, SaveState PROVE MigratorInv'
<1>1. /\ MigratorType /\ KeysDiffer /\ ChunkInTable /\ OffsetsInOrder /\ RowsReachedAreSent
      /\ script.pc = "send" /\ script.batches = {}
      /\ UNCHANGED <<rows, copy, changes, disturbed, torn>>
  BY DEF MigratorInv, SaveState
<1>2. PICK m \in Nat : m = script.offset + script.fetched
  BY <1>1, OffsetsAreNumbers
<1>3. done' = m /\ script' = [script EXCEPT !.pc = "chunk", !.offset = m, !.fetched = 0]
  BY <1>2 DEF SaveState
<1>4. /\ script' \in ScriptType /\ script'.pc = "chunk" /\ script'.batches = {}
      /\ script'.fetched = 0 /\ script'.offset = m
  <2>1. script \in ScriptType
    BY <1>1 DEF MigratorType
  <2> DEFINE r == [script EXCEPT !.pc = "chunk", !.offset = m, !.fetched = 0]
  <2>2. r \in ScriptType /\ r.pc = "chunk" /\ r.batches = script.batches
        /\ r.fetched = 0 /\ r.offset = m
    BY <2>1 DEF ScriptType
  <2>3. QED BY <1>1, <1>3, <2>2
<1>5. Reached = m /\ Reached' = m
  BY <1>1, <1>2, <1>4 DEF Reached
<1>6. MigratorType' /\ KeysDiffer' /\ ChunkInTable'
  BY <1>1, <1>3, <1>4 DEF MigratorType, KeysDiffer, ChunkInTable
<1>7. OffsetsInOrder'
  BY <1>1, <1>3, <1>4, <1>5 DEF OffsetsInOrder, ChunkInTable
<1>8. RowsReachedAreSent'
  BY <1>1, <1>3, <1>4, <1>5 DEF RowsReachedAreSent, UnderWay
<1>9. QED BY <1>6, <1>7, <1>8 DEF MigratorInv

LEMMA MigratorStays == MigratorInv /\ [Next]_vars => MigratorInv'
<1> SUFFICES ASSUME MigratorInv, [Next]_vars PROVE MigratorInv'
  OBVIOUS
<1>1. CASE MigratorNext
  BY <1>1, ProgramSteps, StartingScript, EndingScript, FetchingChunk, SendingBatch, SavingState
     DEF MigratorNext, MigratorStep
<1>2. CASE UNCHANGED migration
  BY <1>2 DEF migration, MigratorInv, MigratorType, KeysDiffer, ChunkInTable, OffsetsInOrder,
              RowsReachedAreSent, UnderWay, Reached
<1>3. QED BY <1>1, <1>2 DEF Next, Mirroring, Backfilling, Migrating, vars

(* The rows of the table up to the saved offset are in nedbd as they are now,
   for every table, chunk and batch size, any number of changes above that
   offset, and any number of aborts and restarts. *)
THEOREM DoneIsCopied == Spec => []RowsDoneAreCopied
<1>1. MigratorInv => RowsDoneAreCopied
  <2>1. SUFFICES ASSUME MigratorInv, ~disturbed, ~torn, NEW i \in 1..Lesser(done, Len(rows))
                 PROVE  rows[i] \in copy
    BY DEF RowsDoneAreCopied
  <2>2. done \in Nat /\ Len(rows) \in Nat /\ DOMAIN rows = 1..Len(rows)
    BY <2>1, OffsetsAreNumbers DEF MigratorInv
  <2>3. i \in DOMAIN rows /\ i <= done
    BY <2>2 DEF Lesser
  <2>4. QED BY <2>1, <2>3 DEF MigratorInv, RowsReachedAreSent
<1>2. QED BY MigratorStarts, MigratorStays, <1>1, PTL DEF Spec

-----------------------------------------------------------------------------
(* The dual store *)

Entry == [value : Nat, life : Life]

Content == [kv : [Name -> Entry], zset : [Name -> SUBSET Member], set : [Name -> SUBSET Item]]

MirrorOps == {"none", "set", "delete", "expire", "zadd", "zrem", "sadd", "srem"}

MirrorTask ==
  [op : MirrorOps, name : Name, arg : Nat \cup Member \cup Item, life : Life,
   pc : {"waiting", "running", "queried", "ended"}, found : SUBSET (Member \cup Item),
   foundZ : SUBSET Member, entry : Entry, sole : BOOLEAN]

ArgumentFits(todo) ==
  /\ todo.op = "set" => todo.arg \in Nat
  /\ todo.op = "zadd" => todo.arg \in Member
  /\ todo.op \in {"sadd", "srem"} => todo.arg \in Item
  /\ todo.op = "none" => todo.pc = "ended"

DualType ==
  /\ sq \in Content /\ nd \in Content /\ tasks \in Seq(MirrorTask)
  /\ \A t \in DOMAIN tasks : ArgumentFits(tasks[t])
  /\ writes \in Nat /\ counting \in SUBSET Name /\ stray \in SUBSET Name

\* A value of SQLite's and one of nedbd's that will be read alike, until time
\* takes SQLite's first.
KvAgree(s, d) ==
  /\ d.life = "forever" => s.life = "forever" /\ s.value = d.value
  /\ d.life = "timed" => s.life # "none" /\ s.value = d.value

\* What nedbd will hold of a name once its one task is through.
NextKv(todo, n) ==
  LET seen == IF todo.pc = "queried" THEN todo.entry ELSE nd.kv[n]
  IN CASE todo.op = "set" -> [value |-> todo.arg, life |-> todo.life]
       [] todo.op = "delete" -> Absent
       [] todo.op = "expire" /\ Live(seen) -> [value |-> seen.value, life |-> "timed"]
       [] OTHER -> nd.kv[n]

NextZset(todo, n) ==
  CASE todo.op = "delete" -> {}
    [] todo.op = "zadd" -> nd.zset[n] \cup {todo.arg}
    [] todo.op = "zrem" -> nd.zset[n] \ LowRanked(nd.zset[n])
    [] OTHER -> nd.zset[n]

NextSet(todo, n) ==
  CASE todo.op = "delete" -> {}
    [] todo.op = "sadd" -> nd.set[n] \cup {todo.arg}
    [] todo.op = "srem" -> nd.set[n] \ {todo.arg}
    [] OTHER -> nd.set[n]

\* A task that was always alone is alone, and SQLite has no member of a name
\* whose delete is.
SoleIsAlone(n) ==
  \A t \in On(n) : tasks[t].sole =>
    /\ On(n) = {t}
    /\ tasks[t].op = "delete" => sq.zset[n] = {} /\ sq.set[n] = {}

\* What a query returned still stands.
QueryStands(todo, n) ==
  todo.pc = "queried" =>
    /\ todo.op \in Queries
    /\ todo.op = "zrem" => todo.found = LowRanked(nd.zset[n])
    /\ todo.op = "delete" => todo.foundZ = nd.zset[n] /\ todo.found = nd.set[n]
    /\ todo.op = "expire" /\ ~Live(todo.entry) => ~Live(nd.kv[n])

\* A name with no task is alike in both stores, one with a task will be; of the
\* value while it is counted up nothing is known.
Mirrored(n) ==
  /\ On(n) = {} =>
       /\ sq.zset[n] = nd.zset[n] /\ sq.set[n] = nd.set[n]
       /\ n \notin counting => KvAgree(sq.kv[n], nd.kv[n])
  /\ \A t \in On(n) :
       /\ On(n) = {t} /\ QueryStands(tasks[t], n)
       /\ sq.zset[n] = NextZset(tasks[t], n) /\ sq.set[n] = NextSet(tasks[t], n)
       /\ n \notin counting => KvAgree(sq.kv[n], NextKv(tasks[t], n))

NameInv(n) == SoleIsAlone(n) /\ (n \notin stray => Mirrored(n))

DualInv == DualType /\ \A n \in Name : NameInv(n)

\* Store r is store s but for what it holds of name n.
Puts(r, s, n, kv, zset, set) ==
  /\ r \in Content
  /\ \A o \in Name \ {n} : r.kv[o] = s.kv[o] /\ r.zset[o] = s.zset[o] /\ r.set[o] = s.set[o]
  /\ r.kv[n] = kv /\ r.zset[n] = zset /\ r.set[n] = set

Timed(e) == IF e.life = "none" THEN e ELSE [value |-> e.value, life |-> "timed"]

LEMMA PutKv ==
  ASSUME NEW s \in Content, NEW n \in Name, NEW e \in Entry
  PROVE  Puts([s EXCEPT !.kv[n] = e], s, n, e, s.zset[n], s.set[n])
<1>1. /\ s.kv \in [Name -> Entry] /\ s.zset \in [Name -> SUBSET Member]
      /\ s.set \in [Name -> SUBSET Item]
  BY DEF Content
<1>2. PICK kv \in [Name -> Entry] : kv = [s.kv EXCEPT ![n] = e]
  BY <1>1
<1>3. kv[n] = e /\ \A o \in Name \ {n} : kv[o] = s.kv[o]
  BY <1>1, <1>2
<1>4. PICK r : r = [s EXCEPT !.kv[n] = e] /\ r = [s EXCEPT !.kv = kv]
  BY <1>2
<1>5. r \in Content /\ r.kv = kv /\ r.zset = s.zset /\ r.set = s.set
  BY <1>4 DEF Content
<1>6. Puts(r, s, n, e, s.zset[n], s.set[n])
  BY <1>3, <1>5 DEF Puts
<1>7. QED BY Zenon, <1>4, <1>6

LEMMA PutZset ==
  ASSUME NEW s \in Content, NEW n \in Name, NEW z \in SUBSET Member
  PROVE  Puts([s EXCEPT !.zset[n] = z], s, n, s.kv[n], z, s.set[n])
<1>1. /\ s.kv \in [Name -> Entry] /\ s.zset \in [Name -> SUBSET Member]
      /\ s.set \in [Name -> SUBSET Item]
  BY DEF Content
<1>2. PICK zset \in [Name -> SUBSET Member] : zset = [s.zset EXCEPT ![n] = z]
  BY <1>1
<1>3. zset[n] = z /\ \A o \in Name \ {n} : zset[o] = s.zset[o]
  BY <1>1, <1>2
<1>4. PICK r : r = [s EXCEPT !.zset[n] = z] /\ r = [s EXCEPT !.zset = zset]
  BY <1>2
<1>5. r \in Content /\ r.kv = s.kv /\ r.zset = zset /\ r.set = s.set
  BY <1>4 DEF Content
<1>6. Puts(r, s, n, s.kv[n], z, s.set[n])
  BY <1>3, <1>5 DEF Puts
<1>7. QED BY Zenon, <1>4, <1>6

LEMMA PutSet ==
  ASSUME NEW s \in Content, NEW n \in Name, NEW z \in SUBSET Item
  PROVE  Puts([s EXCEPT !.set[n] = z], s, n, s.kv[n], s.zset[n], z)
<1>1. /\ s.kv \in [Name -> Entry] /\ s.zset \in [Name -> SUBSET Member]
      /\ s.set \in [Name -> SUBSET Item]
  BY DEF Content
<1>2. PICK set \in [Name -> SUBSET Item] : set = [s.set EXCEPT ![n] = z]
  BY <1>1
<1>3. set[n] = z /\ \A o \in Name \ {n} : set[o] = s.set[o]
  BY <1>1, <1>2
<1>4. PICK r : r = [s EXCEPT !.set[n] = z] /\ r = [s EXCEPT !.set = set]
  BY <1>2
<1>5. r \in Content /\ r.kv = s.kv /\ r.zset = s.zset /\ r.set = set
  BY <1>4 DEF Content
<1>6. Puts(r, s, n, s.kv[n], s.zset[n], z)
  BY <1>3, <1>5 DEF Puts
<1>7. QED BY Zenon, <1>4, <1>6

(* What the operations of both stores make of one name. *)
LEMMA Operations ==
  ASSUME NEW s \in Content, NEW n \in Name
  PROVE  /\ s.kv[n] \in Entry /\ s.zset[n] \in SUBSET Member /\ s.set[n] \in SUBSET Item
         /\ \A v \in Nat, life \in Life :
              Puts(Set(s, n, v, life), s, n, [value |-> v, life |-> life], s.zset[n], s.set[n])
         /\ Puts(Delete(s, n), s, n, Absent, {}, {})
         /\ \E e \in Entry : Puts(Incr(s, n), s, n, e, s.zset[n], s.set[n])
         /\ Puts(Expire(s, n), s, n, Timed(s.kv[n]), s.zset[n], s.set[n])
         /\ \A m \in Member : Puts(Zadd(s, n, m), s, n, s.kv[n], s.zset[n] \cup {m}, s.set[n])
         /\ Puts(ZremByRank(s, n), s, n, s.kv[n], s.zset[n] \ LowRanked(s.zset[n]), s.set[n])
         /\ \A i \in Item : Puts(Sadd(s, n, i), s, n, s.kv[n], s.zset[n], s.set[n] \cup {i})
         /\ \A i \in Item : Puts(Srem(s, n, i), s, n, s.kv[n], s.zset[n], s.set[n] \ {i})
<1>1. s.kv[n] \in Entry /\ s.zset[n] \in SUBSET Member /\ s.set[n] \in SUBSET Item
  BY DEF Content
<1>0. Puts(s, s, n, s.kv[n], s.zset[n], s.set[n])
  BY DEF Puts
<1>2. ASSUME NEW v \in Nat, NEW life \in Life
      PROVE  Puts(Set(s, n, v, life), s, n, [value |-> v, life |-> life], s.zset[n], s.set[n])
  <2>1. [value |-> v, life |-> life] \in Entry
    BY DEF Entry
  <2>2. QED BY <2>1, PutKv DEF Set
<1>3. Puts(Delete(s, n), s, n, Absent, {}, {})
  <2>1. Absent \in Entry
    BY DEF Absent, Entry, Life
  <2>2. PICK p : p = [s EXCEPT !.kv[n] = Absent]
    OBVIOUS
  <2>3. Puts(p, s, n, Absent, s.zset[n], s.set[n])
    BY Zenon, <2>1, <2>2, PutKv
  <2>4. PICK q : q = [p EXCEPT !.zset[n] = {}]
    OBVIOUS
  <2>5. PICK z \in SUBSET Member, y \in SUBSET Item : z = {} /\ y = {}
    OBVIOUS
  <2>6. p \in Content
    BY <2>3 DEF Puts
  <2>7. Puts(q, p, n, p.kv[n], z, p.set[n])
    BY Zenon, <2>4, <2>5, <2>6, PutZset
  <2>8. q \in Content
    BY <2>7 DEF Puts
  <2>9. PICK r : r = [q EXCEPT !.set[n] = {}]
    OBVIOUS
  <2>10. Puts(r, q, n, q.kv[n], q.zset[n], y)
    BY Zenon, <2>5, <2>8, <2>9, PutSet
  <2>11. r = Delete(s, n)
    BY Zenon, <2>2, <2>4, <2>9 DEF Delete
  <2>12. Puts(r, s, n, Absent, {}, {})
    BY <2>3, <2>5, <2>7, <2>10 DEF Puts
  <2>13. QED BY Zenon, <2>11, <2>12
<1>4. Puts(Expire(s, n), s, n, Timed(s.kv[n]), s.zset[n], s.set[n])
  <2>1. CASE s.kv[n].life = "none"
    <3>1. Expire(s, n) = s /\ Timed(s.kv[n]) = s.kv[n]
      BY <2>1 DEF Expire, Timed
    <3>2. QED BY Zenon, <1>0, <3>1
  <2>2. CASE s.kv[n].life # "none"
    <3>1. /\ [s.kv[n] EXCEPT !.life = "timed"] = [value |-> s.kv[n].value, life |-> "timed"]
          /\ [value |-> s.kv[n].value, life |-> "timed"] \in Entry
      BY <1>1 DEF Entry, Life
    <3>2. PICK e \in Entry : e = [s.kv[n] EXCEPT !.life = "timed"] /\ e = Timed(s.kv[n])
      BY <2>2, <3>1 DEF Timed
    <3>3. Expire(s, n) = [s EXCEPT !.kv[n] = e]
      BY <2>2, <3>2 DEF Expire
    <3>4. Puts(Expire(s, n), s, n, e, s.zset[n], s.set[n])
      BY Zenon, <3>3, PutKv
    <3>5. QED BY Zenon, <3>2, <3>4
  <2>3. QED BY <2>1, <2>2
<1>5. \E e \in Entry : Puts(Incr(s, n), s, n, e, s.zset[n], s.set[n])
  <2>1. CASE s.kv[n].life = "none"
    <3>1. Incr(s, n) = Set(s, n, 1, "forever")
      BY <2>1 DEF Incr, Live
    <3>2. 1 \in Nat /\ "forever" \in Life /\ [value |-> 1, life |-> "forever"] \in Entry
      BY DEF Life, Entry
    <3>3. Puts(Incr(s, n), s, n, [value |-> 1, life |-> "forever"], s.zset[n], s.set[n])
      BY Zenon, <1>2, <3>1, <3>2
    <3>4. QED BY Zenon, <3>2, <3>3
  <2>2. CASE s.kv[n].life # "none" /\ Live(s.kv[n])
    <3>1. PICK e \in Entry : e = [s.kv[n] EXCEPT !.value = @ + 1]
      <4> DEFINE f == [s.kv[n] EXCEPT !.value = @ + 1]
      <4>1. f \in Entry
        BY <1>1 DEF Entry
      <4>2. QED BY <4>1
    <3>2. Incr(s, n) = [s EXCEPT !.kv[n] = e]
      BY <2>2, <3>1 DEF Incr
    <3>3. QED BY Zenon, <3>2, PutKv
  <2>3. CASE s.kv[n].life # "none" /\ ~Live(s.kv[n])
    <3>1. Incr(s, n) = s
      BY <2>3 DEF Incr
    <3>2. QED BY Zenon, <1>0, <1>1, <3>1
  <2>4. QED BY <2>1, <2>2, <2>3
<1>6. ASSUME NEW m \in Member
      PROVE  Puts(Zadd(s, n, m), s, n, s.kv[n], s.zset[n] \cup {m}, s.set[n])
  <2>1. s.zset[n] \cup {m} \in SUBSET Member
    BY <1>1
  <2>2. QED BY Zenon, <2>1, PutZset DEF Zadd
<1>7. Puts(ZremByRank(s, n), s, n, s.kv[n], s.zset[n] \ LowRanked(s.zset[n]), s.set[n])
  <2>1. s.zset[n] \ LowRanked(s.zset[n]) \in SUBSET Member
    BY <1>1
  <2>2. QED BY Zenon, <2>1, PutZset DEF ZremByRank
<1>8. ASSUME NEW i \in Item
      PROVE  Puts(Sadd(s, n, i), s, n, s.kv[n], s.zset[n], s.set[n] \cup {i})
  <2>1. s.set[n] \cup {i} \in SUBSET Item
    BY <1>1
  <2>2. QED BY Zenon, <2>1, PutSet DEF Sadd
<1>9. ASSUME NEW i \in Item
      PROVE  Puts(Srem(s, n, i), s, n, s.kv[n], s.zset[n], s.set[n] \ {i})
  <2>1. s.set[n] \ {i} \in SUBSET Item
    BY <1>1
  <2>2. QED BY Zenon, <2>1, PutSet DEF Srem
<1>10. QED BY <1>1, <1>2, <1>3, <1>4, <1>5, <1>6, <1>7, <1>8, <1>9

LEMMA TasksKnown ==
  ASSUME tasks \in Seq(MirrorTask)
  PROVE  /\ Len(tasks) \in Nat /\ DOMAIN tasks = 1..Len(tasks)
         /\ \A t \in DOMAIN tasks : tasks[t] \in MirrorTask
         /\ \A n : On(n) \subseteq DOMAIN tasks
BY DEF On

(* A new task is the only one of its name, or none of that name is alone. *)
LEMMA Firing ==
  ASSUME tasks \in Seq(MirrorTask), \A t \in DOMAIN tasks : ArgumentFits(tasks[t]),
         NEW todo \in MirrorTask, todo.pc = "waiting", ArgumentFits(todo), Fire(todo)
  PROVE  /\ tasks' \in Seq(MirrorTask) /\ Len(tasks') = Len(tasks) + 1
         /\ \A t \in DOMAIN tasks' : ArgumentFits(tasks'[t])
         /\ \A o \in Name \ {todo.name} :
              On(o)' = On(o) /\ \A t \in On(o) : tasks'[t] = tasks[t]
         /\ \E new \in DOMAIN tasks' :
              /\ new \notin DOMAIN tasks
              /\ On(todo.name)' = On(todo.name) \cup {new}
              /\ On(todo.name) = {} => tasks'[new] = todo
              /\ On(todo.name) # {} => tasks'[new].sole = FALSE
              /\ \A t \in On(todo.name) : tasks'[t].sole = FALSE
         /\ {t \in DOMAIN tasks' : Running(t)'} = {t \in DOMAIN tasks : Running(t)}
<1> DEFINE n == todo.name
           old == [t \in DOMAIN tasks |->
                     IF t \in On(n) THEN [tasks[t] EXCEPT !.sole = FALSE] ELSE tasks[t]]
           mine == IF On(n) = {} THEN todo ELSE [todo EXCEPT !.sole = FALSE]
<1>1. PICK m \in Nat : m = Len(tasks) /\ DOMAIN tasks = 1..m
  BY TasksKnown
<1>2. ASSUME NEW k \in MirrorTask
      PROVE  /\ [k EXCEPT !.sole = FALSE] \in MirrorTask
             /\ [k EXCEPT !.sole = FALSE].sole = FALSE
             /\ [k EXCEPT !.sole = FALSE].name = k.name /\ [k EXCEPT !.sole = FALSE].pc = k.pc
             /\ [k EXCEPT !.sole = FALSE].op = k.op /\ [k EXCEPT !.sole = FALSE].arg = k.arg
  BY DEF MirrorTask
<1>3. ASSUME NEW t \in 1..m
      PROVE  /\ old[t] \in MirrorTask /\ old[t].name = tasks[t].name /\ old[t].pc = tasks[t].pc
             /\ old[t].op = tasks[t].op /\ old[t].arg = tasks[t].arg
             /\ t \in On(n) => old[t].sole = FALSE
             /\ t \notin On(n) => old[t] = tasks[t]
  <2>1. tasks[t] \in MirrorTask
    BY <1>1
  <2>2. old[t] = IF t \in On(n) THEN [tasks[t] EXCEPT !.sole = FALSE] ELSE tasks[t]
    BY <1>1
  <2> HIDE DEF old
  <2>3. CASE t \in On(n)
    <3>1. old[t] = [tasks[t] EXCEPT !.sole = FALSE]
      BY <2>2, <2>3
    <3>2. QED BY <1>2, <2>1, <2>3, <3>1
  <2>4. CASE t \notin On(n)
    <3>1. old[t] = tasks[t]
      BY <2>2, <2>4
    <3>2. QED BY <2>1, <2>4, <3>1
  <2>5. QED BY <2>3, <2>4
<1>4. /\ mine \in MirrorTask /\ mine.name = n /\ mine.pc = "waiting"
      /\ mine.op = todo.op /\ mine.arg = todo.arg
      /\ On(n) = {} => mine = todo
      /\ On(n) # {} => mine.sole = FALSE
  BY <1>2
<1>5. old \in Seq(MirrorTask) /\ Len(old) = m
  <2>1. old = [t \in 1..m |-> IF t \in On(n) THEN [tasks[t] EXCEPT !.sole = FALSE] ELSE tasks[t]]
    BY <1>1
  <2>2. \A t \in 1..m : old[t] \in MirrorTask
    BY <1>3
  <2>3. DOMAIN old = 1..m
    BY <2>1
  <2> HIDE DEF old
  <2>4. old = [t \in 1..m |-> old[t]]
    BY <2>1, <2>3
  <2>5. QED BY <2>2, <2>4
<1>6. tasks' = Append(old, mine)
  BY Zenon DEF Fire
<1> HIDE DEF old, mine
<1>7. /\ tasks' \in Seq(MirrorTask) /\ Len(tasks') = m + 1
      /\ \A t \in 1..m : tasks'[t] = old[t]
      /\ tasks'[m + 1] = mine
  BY <1>4, <1>5, <1>6, AppendProperties
<1>8. DOMAIN tasks' = 1..(m + 1)
  BY <1>1, <1>7
<1>9. \A t \in 1..(m + 1) : t \in 1..m \/ t = m + 1
  BY <1>1
<1>10. m + 1 \notin 1..m /\ m + 1 \in 1..(m + 1) /\ 1..m \subseteq 1..(m + 1)
  BY <1>1
<1>11. \A o : On(o)' = {t \in 1..(m + 1) : tasks'[t].name = o /\ tasks'[t].pc # "ended"}
  BY <1>8 DEF On, Ended
<1>12. \A o : On(o) = {t \in 1..m : tasks[t].name = o /\ tasks[t].pc # "ended"}
  BY <1>1 DEF On, Ended
<1>13. ASSUME NEW o \in Name \ {n}
       PROVE  On(o)' = On(o) /\ \A t \in On(o) : tasks'[t] = tasks[t]
  <2>1. ASSUME NEW t \in 1..m
        PROVE  (t \in On(o)' <=> t \in On(o)) /\ (t \in On(o) => tasks'[t] = tasks[t])
    <3>1. t \in 1..(m + 1) /\ tasks'[t] = old[t]
      BY <1>7, <1>10
    <3>2. tasks'[t].name = tasks[t].name /\ tasks'[t].pc = tasks[t].pc
      BY <1>3, <3>1
    <3>3. t \in On(o) => t \notin On(n)
      BY <1>12
    <3>4. QED BY <1>3, <1>11, <1>12, <3>1, <3>2, <3>3
  <2>2. m + 1 \notin On(o)'
    BY <1>4, <1>7, <1>11
  <2>3. On(o) \subseteq 1..m /\ On(o)' \subseteq 1..(m + 1)
    BY <1>11, <1>12
  <2>4. QED BY <1>9, <2>1, <2>2, <2>3
<1>14. On(n)' = On(n) \cup {m + 1}
  <2>1. ASSUME NEW t \in 1..m PROVE t \in On(n)' <=> t \in On(n)
    <3>1. t \in 1..(m + 1) /\ tasks'[t] = old[t]
      BY <1>7, <1>10
    <3>2. tasks'[t].name = tasks[t].name /\ tasks'[t].pc = tasks[t].pc
      BY <1>3, <3>1
    <3>3. QED BY <1>11, <1>12, <3>1, <3>2
  <2>2. m + 1 \in On(n)'
    BY <1>4, <1>7, <1>10, <1>11
  <2>3. On(n) \subseteq 1..m /\ On(n)' \subseteq 1..(m + 1)
    BY <1>11, <1>12
  <2>4. QED BY <1>9, <2>1, <2>2, <2>3
<1>15. \A t \in On(n) : tasks'[t].sole = FALSE
  BY <1>3, <1>7, <1>12
<1>16. \A t \in DOMAIN tasks' : ArgumentFits(tasks'[t])
  <2>1. ASSUME NEW t \in 1..m PROVE ArgumentFits(tasks'[t])
    BY <1>1, <1>3, <1>7 DEF ArgumentFits
  <2>2. ArgumentFits(tasks'[m + 1])
    BY <1>4, <1>7 DEF ArgumentFits
  <2>3. QED BY <1>8, <1>9, <2>1, <2>2
<1>17. {t \in DOMAIN tasks' : Running(t)'} = {t \in DOMAIN tasks : Running(t)}
  <2>1. ASSUME NEW t \in 1..m PROVE Running(t)' <=> Running(t)
    BY <1>3, <1>7 DEF Running
  <2>2. ~Running(m + 1)'
    BY <1>4, <1>7 DEF Running
  <2>3. QED BY <1>1, <1>8, <1>9, <1>10, <2>1, <2>2
<1>18. m + 1 \in DOMAIN tasks' /\ m + 1 \notin DOMAIN tasks
  BY <1>1, <1>8, <1>10
<1>19. QED BY <1>1, <1>4, <1>7, <1>13, <1>14, <1>15, <1>16, <1>17, <1>18

(* One task takes a step. *)
LEMMA TaskMoves ==
  ASSUME tasks \in Seq(MirrorTask), \A t \in DOMAIN tasks : ArgumentFits(tasks[t]),
         NEW t \in DOMAIN tasks, NEW todo \in MirrorTask, ArgumentFits(todo),
         todo.name = tasks[t].name, tasks' = [tasks EXCEPT ![t] = todo],
         tasks[t].pc # "ended"
  PROVE  /\ tasks' \in Seq(MirrorTask) /\ Len(tasks') = Len(tasks) /\ DOMAIN tasks' = DOMAIN tasks
         /\ \A k \in DOMAIN tasks' : ArgumentFits(tasks'[k])
         /\ tasks'[t] = todo /\ \A k \in DOMAIN tasks : k # t => tasks'[k] = tasks[k]
         /\ todo.name \in Name /\ t \in On(todo.name)
         /\ \A o \in Name \ {todo.name} :
              On(o)' = On(o) /\ \A k \in On(o) : tasks'[k] = tasks[k]
         /\ todo.pc # "ended" => On(todo.name)' = On(todo.name)
         /\ todo.pc = "ended" => On(todo.name)' = On(todo.name) \ {t}
<1>1. /\ tasks' \in Seq(MirrorTask) /\ Len(tasks') = Len(tasks) /\ DOMAIN tasks' = DOMAIN tasks
      /\ tasks'[t] = todo /\ \A k \in DOMAIN tasks : k # t => tasks'[k] = tasks[k]
  <2>1. DOMAIN tasks = 1..Len(tasks)
    BY TasksKnown
  <2>2. QED BY <2>1, ExceptSeq
<1>2. \A k \in DOMAIN tasks' : ArgumentFits(tasks'[k])
  BY <1>1
<1>3. todo.name \in Name
  BY DEF MirrorTask
<1>4. /\ \A o : On(o)' = {k \in DOMAIN tasks : tasks'[k].name = o /\ tasks'[k].pc # "ended"}
      /\ \A o : On(o) = {k \in DOMAIN tasks : tasks[k].name = o /\ tasks[k].pc # "ended"}
  BY <1>1 DEF On, Ended
<1>5. t \in On(todo.name)
  BY <1>4
<1>6. ASSUME NEW o \in Name \ {todo.name}
      PROVE  On(o)' = On(o) /\ \A k \in On(o) : tasks'[k] = tasks[k]
  BY <1>1, <1>4
<1>7. todo.pc # "ended" => On(todo.name)' = On(todo.name)
  BY <1>1, <1>4
<1>8. todo.pc = "ended" => On(todo.name)' = On(todo.name) \ {t}
  BY <1>1, <1>4
<1>9. QED BY <1>1, <1>2, <1>3, <1>5, <1>6, <1>7, <1>8

LEMMA DualStarts == Init => DualInv
<1> SUFFICES ASSUME Init PROVE DualInv
  OBVIOUS
<1>1. DualInit
  BY DEF Init
<1>2. Absent \in Entry
  BY DEF Absent, Entry, Life
<1>3. Empty \in Content
  BY <1>2 DEF Empty, Content
<1>4. tasks \in Seq(MirrorTask) /\ DOMAIN tasks = {}
  BY <1>1 DEF DualInit
<1>5. DualType
  BY <1>1, <1>3, <1>4 DEF DualInit, DualType
<1>6. ASSUME NEW n \in Name PROVE NameInv(n)
  <2>1. On(n) = {}
    BY <1>4 DEF On
  <2>2. sq = nd /\ sq.kv[n] = Absent
    BY <1>1 DEF DualInit, Empty
  <2>3. KvAgree(sq.kv[n], nd.kv[n])
    BY <2>2 DEF KvAgree, Absent
  <2>4. QED BY <2>1, <2>2, <2>3 DEF NameInv, SoleIsAlone, Mirrored
<1>7. QED BY <1>5, <1>6 DEF DualInv

(* A step that leaves a name alone. *)
LEMMA NameUntouched ==
  ASSUME NEW o \in Name, NameInv(o), On(o)' = On(o), \A t \in On(o) : tasks'[t] = tasks[t],
         sq'.kv[o] = sq.kv[o], sq'.zset[o] = sq.zset[o], sq'.set[o] = sq.set[o],
         nd'.kv[o] = nd.kv[o], nd'.zset[o] = nd.zset[o], nd'.set[o] = nd.set[o],
         o \in stray => o \in stray', o \in counting <=> o \in counting'
  PROVE  NameInv(o)'
<1>1. SoleIsAlone(o)'
  BY DEF NameInv, SoleIsAlone
<1>2. ASSUME NEW t \in On(o)
      PROVE  /\ NextKv(tasks[t], o)' = NextKv(tasks[t], o)
             /\ NextZset(tasks[t], o)' = NextZset(tasks[t], o)
             /\ NextSet(tasks[t], o)' = NextSet(tasks[t], o)
             /\ QueryStands(tasks[t], o)' <=> QueryStands(tasks[t], o)
  <2>1. tasks'[t] = tasks[t]
    OBVIOUS
  <2>2. NextKv(tasks[t], o)' = NextKv(tasks[t], o)
    BY <2>1, Zenon DEF NextKv
  <2>3. NextZset(tasks[t], o)' = NextZset(tasks[t], o)
    BY <2>1, Zenon DEF NextZset
  <2>4. NextSet(tasks[t], o)' = NextSet(tasks[t], o)
    BY <2>1, Zenon DEF NextSet
  <2>5. QueryStands(tasks[t], o)' <=> QueryStands(tasks[t], o)
    BY <2>1 DEF QueryStands
  <2>6. QED BY <2>2, <2>3, <2>4, <2>5
<1>3. KvAgree(sq.kv[o], nd.kv[o])' <=> KvAgree(sq.kv[o], nd.kv[o])
  BY DEF KvAgree
<1>4. ASSUME NEW t \in On(o)
      PROVE  KvAgree(sq.kv[o], NextKv(tasks[t], o))' <=> KvAgree(sq.kv[o], NextKv(tasks[t], o))
  BY <1>2 DEF KvAgree
<1>5. ASSUME o \notin stray' PROVE Mirrored(o)'
  <2>1. Mirrored(o)
    BY <1>5 DEF NameInv
  <2>2. On(o) = {} => /\ sq'.zset[o] = nd'.zset[o] /\ sq'.set[o] = nd'.set[o]
                      /\ o \notin counting' => KvAgree(sq.kv[o], nd.kv[o])'
    BY <1>3, <2>1 DEF Mirrored
  <2>3. ASSUME NEW t \in On(o)
        PROVE  /\ On(o)' = {t} /\ QueryStands(tasks[t], o)'
               /\ (sq.zset[o] = NextZset(tasks[t], o))' /\ (sq.set[o] = NextSet(tasks[t], o))'
               /\ o \notin counting' => KvAgree(sq.kv[o], NextKv(tasks[t], o))'
    BY <1>2, <1>4, <2>1 DEF Mirrored
  <2>4. QED BY <2>2, <2>3 DEF Mirrored
<1>6. QED BY <1>1, <1>5 DEF NameInv

(* A write, or a count that is read back, makes a task. *)
LEMMA FireStays ==
  ASSUME DualInv, NEW n \in Name, NEW todo \in MirrorTask, Fire(todo),
         todo.name = n, todo.pc = "waiting", ArgumentFits(todo),
         NEW kv, NEW zset, NEW set, Puts(sq', sq, n, kv, zset, set), nd' = nd,
         stray' \in SUBSET Name, counting' \in SUBSET Name, writes' \in Nat,
         \A o \in Name \ {n} : (o \in stray' <=> o \in stray) /\ (o \in counting' <=> o \in counting),
         n \in stray \/ On(n) # {} => n \in stray',
         todo.op = "delete" => zset = {} /\ set = {},
         /\ n \notin stray' /\ sq.zset[n] = nd.zset[n] /\ sq.set[n] = nd.set[n]
         /\ n \notin counting => KvAgree(sq.kv[n], nd.kv[n])
         => /\ zset = NextZset(todo, n) /\ set = NextSet(todo, n)
            /\ n \notin counting' => KvAgree(kv, NextKv(todo, n))
  PROVE  DualInv'
<1>1. /\ tasks' \in Seq(MirrorTask)
      /\ \A t \in DOMAIN tasks' : ArgumentFits(tasks'[t])
      /\ \A o \in Name \ {n} : On(o)' = On(o) /\ \A t \in On(o) : tasks'[t] = tasks[t]
      /\ \E new \in DOMAIN tasks' :
           /\ On(n)' = On(n) \cup {new}
           /\ On(n) = {} => tasks'[new] = todo
           /\ On(n) # {} => tasks'[new].sole = FALSE
           /\ \A t \in On(n) : tasks'[t].sole = FALSE
  BY Firing DEF DualInv, DualType
<1>2. PICK new \in DOMAIN tasks' :
        /\ On(n)' = On(n) \cup {new}
        /\ On(n) = {} => tasks'[new] = todo
        /\ On(n) # {} => tasks'[new].sole = FALSE
        /\ \A t \in On(n) : tasks'[t].sole = FALSE
  BY <1>1
<1>3. /\ sq' \in Content /\ sq'.kv[n] = kv /\ sq'.zset[n] = zset /\ sq'.set[n] = set
      /\ \A o \in Name \ {n} :
           sq'.kv[o] = sq.kv[o] /\ sq'.zset[o] = sq.zset[o] /\ sq'.set[o] = sq.set[o]
  BY DEF Puts
<1>4. DualType'
  BY <1>1, <1>3 DEF DualInv, DualType
<1>5. ASSUME NEW o \in Name \ {n} PROVE NameInv(o)'
  <2>1. NameInv(o)
    BY DEF DualInv
  <2>2. QED BY <1>1, <1>3, <1>5, <2>1, NameUntouched
<1>6. SoleIsAlone(n)'
  <2>1. CASE On(n) = {}
    BY <1>2, <1>3, <2>1 DEF SoleIsAlone
  <2>2. CASE On(n) # {}
    BY <1>2, <2>2 DEF SoleIsAlone
  <2>3. QED BY <2>1, <2>2
<1>7. ASSUME n \notin stray' PROVE Mirrored(n)'
  <2>1. On(n) = {} /\ On(n)' = {new} /\ tasks'[new] = todo
    BY <1>2, <1>7
  <2>2. Mirrored(n)
    BY <1>7 DEF DualInv, NameInv
  <2>3. /\ zset = NextZset(todo, n) /\ set = NextSet(todo, n)
        /\ n \notin counting' => KvAgree(kv, NextKv(todo, n))
    BY <1>7, <2>1, <2>2 DEF Mirrored
  <2>4. ~(tasks'[new].pc = "queried")
    BY <2>1
  <2>5. QueryStands(tasks[new], n)'
    BY <2>4 DEF QueryStands
  <2>6. /\ NextZset(tasks[new], n)' = NextZset(todo, n)
        /\ NextSet(tasks[new], n)' = NextSet(todo, n)
        /\ NextKv(tasks[new], n)' = NextKv(todo, n)
    BY <2>1, Zenon DEF NextZset, NextSet, NextKv
  <2>7. n \notin counting' => KvAgree(sq.kv[n], NextKv(tasks[new], n))'
    BY <1>3, <2>3, <2>6 DEF KvAgree
  <2>8. QED BY <1>3, <2>1, <2>3, <2>5, <2>6, <2>7 DEF Mirrored
<1>8. NameInv(n)'
  BY <1>6, <1>7 DEF NameInv
<1>9. QED BY <1>4, <1>5, <1>8 DEF DualInv

LEMMA NewTask ==
  ASSUME NEW op \in MirrorOps, NEW n \in Name, NEW arg \in Nat \cup Member \cup Item,
         NEW life \in Life
  PROVE  LET todo == Task(op, n, arg, life)
         IN  /\ todo \in MirrorTask /\ todo.op = op /\ todo.name = n /\ todo.arg = arg
             /\ todo.life = life /\ todo.pc = "waiting"
<1>1. Absent \in Entry
  BY DEF Absent, Entry, Life
<1>2. QED BY <1>1 DEF Task, MirrorTask

LEMMA Writing ==
  ASSUME DualInv, NEW n \in Name, NEW todo \in MirrorTask, NEW content, Write(content, todo),
         todo.name = n, todo.pc = "waiting", ArgumentFits(todo),
         NEW kv, NEW zset, NEW set, Puts(content, sq, n, kv, zset, set),
         todo.op = "delete" => zset = {} /\ set = {},
         /\ sq.zset[n] = nd.zset[n] /\ sq.set[n] = nd.set[n]
         /\ n \notin counting => KvAgree(sq.kv[n], nd.kv[n])
         => /\ zset = NextZset(todo, n) /\ set = NextSet(todo, n)
            /\ n \notin counting => KvAgree(kv, NextKv(todo, n))
  PROVE  DualInv'
<1>1. /\ writes' = writes + 1 /\ sq' = content /\ Fire(todo) /\ nd' = nd /\ counting' = counting
      /\ stray' = stray \cup Strays(n)
  BY DEF Write, WithinBound
<1>2. writes' \in Nat /\ counting' \in SUBSET Name
  BY <1>1 DEF DualInv, DualType
<1>3. stray' = IF On(n) = {} THEN stray ELSE stray \cup {n}
  BY <1>1 DEF Strays
<1>4. /\ stray' \in SUBSET Name /\ (n \in stray \/ On(n) # {} => n \in stray')
      /\ \A o \in Name \ {n} : (o \in stray' <=> o \in stray) /\ (o \in counting' <=> o \in counting)
  <2>1. stray \in SUBSET Name
    BY DEF DualInv, DualType
  <2>2. QED BY <1>1, <1>3, <2>1
<1>5. Puts(sq', sq, n, kv, zset, set)
  BY <1>1
<1>6. n \notin counting' <=> n \notin counting
  BY <1>1
<1>7. QED BY <1>1, <1>2, <1>4, <1>5, <1>6, FireStays

LEMMA Writes ==
  ASSUME DualInv, NEW n \in Name,
         \/ SetKey(n) \/ DeleteKey(n) \/ ExpireKey(n) \/ AddMember(n) \/ RemoveMember(n) \/ TrimZset(n)
  PROVE  DualInv'
<1>1. sq \in Content /\ nd \in Content
  BY DEF DualInv, DualType
<1>2. 0 \in Nat /\ "none" \in Life /\ "timed" \in Life /\ "forever" \in Life
  BY DEF Life
<1>3. /\ sq.kv[n] \in Entry /\ sq.zset[n] \in SUBSET Member /\ sq.set[n] \in SUBSET Item
      /\ nd.kv[n] \in Entry /\ nd.zset[n] \in SUBSET Member /\ nd.set[n] \in SUBSET Item
  BY <1>1, Operations
<1>4. CASE SetKey(n)
  <2>1. PICK v \in Value, life \in {"forever", "timed"} :
          Write(Set(sq, n, v, life), Task("set", n, v, life))
    BY <1>4 DEF SetKey
  <2>2. v \in Nat /\ life \in Life /\ "set" \in MirrorOps
    BY DualStoreAssumption DEF Life, MirrorOps
  <2>3. PICK todo \in MirrorTask :
          /\ todo = Task("set", n, v, life) /\ todo.op = "set" /\ todo.name = n
          /\ todo.arg = v /\ todo.life = life /\ todo.pc = "waiting"
    BY <2>2, NewTask
  <2>4. Puts(Set(sq, n, v, life), sq, n, [value |-> v, life |-> life], sq.zset[n], sq.set[n])
    BY <1>1, <2>2, Operations
  <2>5. /\ NextZset(todo, n) = nd.zset[n] /\ NextSet(todo, n) = nd.set[n]
        /\ NextKv(todo, n) = [value |-> v, life |-> life]
    BY <2>3 DEF NextZset, NextSet, NextKv
  <2>6. KvAgree([value |-> v, life |-> life], NextKv(todo, n))
    BY <2>5 DEF KvAgree
  <2>7. ArgumentFits(todo)
    BY <2>2, <2>3 DEF ArgumentFits
  <2>8. Write(Set(sq, n, v, life), todo)
    BY <2>1, <2>3
  <2>9. QED BY <2>3, <2>4, <2>5, <2>6, <2>7, <2>8, Writing
<1>5. CASE DeleteKey(n)
  <2>1. "delete" \in MirrorOps
    BY DEF MirrorOps
  <2>2. PICK todo \in MirrorTask :
          /\ todo = Task("delete", n, 0, "none") /\ todo.op = "delete" /\ todo.name = n
          /\ todo.pc = "waiting"
    BY <1>2, <2>1, NewTask
  <2>3. Puts(Delete(sq, n), sq, n, Absent, {}, {})
    BY <1>1, Operations
  <2>4. NextZset(todo, n) = {} /\ NextSet(todo, n) = {} /\ NextKv(todo, n) = Absent
    BY <2>2 DEF NextZset, NextSet, NextKv
  <2>5. KvAgree(Absent, NextKv(todo, n))
    BY <2>4 DEF KvAgree, Absent
  <2>6. ArgumentFits(todo)
    BY <2>2 DEF ArgumentFits
  <2>7. Write(Delete(sq, n), todo)
    BY <1>5, <2>2 DEF DeleteKey
  <2>8. QED BY <2>2, <2>3, <2>4, <2>5, <2>6, <2>7, Writing
<1>6. CASE ExpireKey(n)
  <2>1. "expire" \in MirrorOps
    BY DEF MirrorOps
  <2>2. PICK todo \in MirrorTask :
          /\ todo = Task("expire", n, 0, "timed") /\ todo.op = "expire" /\ todo.name = n
          /\ todo.pc = "waiting"
    BY <1>2, <2>1, NewTask
  <2>3. Puts(Expire(sq, n), sq, n, Timed(sq.kv[n]), sq.zset[n], sq.set[n])
    BY <1>1, Operations
  <2>4. NextZset(todo, n) = nd.zset[n] /\ NextSet(todo, n) = nd.set[n]
    BY <2>2 DEF NextZset, NextSet
  <2>5. ASSUME KvAgree(sq.kv[n], nd.kv[n])
        PROVE  KvAgree(Timed(sq.kv[n]), NextKv(todo, n))
    <3>1. CASE Live(nd.kv[n])
      <4>1. NextKv(todo, n) = [value |-> nd.kv[n].value, life |-> "timed"]
        BY <2>2, <3>1 DEF NextKv
      <4>2. sq.kv[n].life # "none" /\ sq.kv[n].value = nd.kv[n].value
        BY <2>5, <3>1 DEF KvAgree, Live
      <4>3. Timed(sq.kv[n]) = [value |-> sq.kv[n].value, life |-> "timed"]
        BY <4>2 DEF Timed
      <4>4. QED BY <4>1, <4>2, <4>3 DEF KvAgree
    <3>2. CASE ~Live(nd.kv[n])
      <4>1. NextKv(todo, n) = nd.kv[n]
        BY <2>2, <3>2 DEF NextKv
      <4>2. QED BY <3>2, <4>1 DEF KvAgree, Live
    <3>3. QED BY <3>1, <3>2
  <2>6. ArgumentFits(todo)
    BY <2>2 DEF ArgumentFits
  <2>7. Write(Expire(sq, n), todo)
    BY <1>6, <2>2 DEF ExpireKey
  <2>8. QED BY <2>2, <2>3, <2>4, <2>5, <2>6, <2>7, Writing
<1>7. ASSUME NEW m \in Member, Write(Zadd(sq, n, m), Task("zadd", n, m, "none"))
      PROVE  DualInv'
  <2>1. "zadd" \in MirrorOps /\ m \in Nat \cup Member \cup Item
    BY DEF MirrorOps
  <2>2. PICK todo \in MirrorTask :
          /\ todo = Task("zadd", n, m, "none") /\ todo.op = "zadd" /\ todo.name = n
          /\ todo.arg = m /\ todo.pc = "waiting"
    BY <1>2, <2>1, NewTask
  <2>3. Puts(Zadd(sq, n, m), sq, n, sq.kv[n], sq.zset[n] \cup {m}, sq.set[n])
    BY <1>1, Operations
  <2>4. /\ NextZset(todo, n) = nd.zset[n] \cup {m} /\ NextSet(todo, n) = nd.set[n]
        /\ NextKv(todo, n) = nd.kv[n]
    BY <2>2 DEF NextZset, NextSet, NextKv
  <2>5. ArgumentFits(todo)
    BY <2>2 DEF ArgumentFits
  <2>6. Write(Zadd(sq, n, m), todo)
    BY <1>7, <2>2
  <2>7. QED BY <2>2, <2>3, <2>4, <2>5, <2>6, Writing
<1>8. ASSUME NEW i \in Item, Write(Sadd(sq, n, i), Task("sadd", n, i, "none"))
      PROVE  DualInv'
  <2>1. "sadd" \in MirrorOps /\ i \in Nat \cup Member \cup Item
    BY DEF MirrorOps
  <2>2. PICK todo \in MirrorTask :
          /\ todo = Task("sadd", n, i, "none") /\ todo.op = "sadd" /\ todo.name = n
          /\ todo.arg = i /\ todo.pc = "waiting"
    BY <1>2, <2>1, NewTask
  <2>3. Puts(Sadd(sq, n, i), sq, n, sq.kv[n], sq.zset[n], sq.set[n] \cup {i})
    BY <1>1, Operations
  <2>4. /\ NextZset(todo, n) = nd.zset[n] /\ NextSet(todo, n) = nd.set[n] \cup {i}
        /\ NextKv(todo, n) = nd.kv[n]
    BY <2>2 DEF NextZset, NextSet, NextKv
  <2>5. ArgumentFits(todo)
    BY <2>2 DEF ArgumentFits
  <2>6. Write(Sadd(sq, n, i), todo)
    BY <1>8, <2>2
  <2>7. QED BY <2>2, <2>3, <2>4, <2>5, <2>6, Writing
<1>9. ASSUME NEW i \in Item, Write(Srem(sq, n, i), Task("srem", n, i, "none"))
      PROVE  DualInv'
  <2>1. "srem" \in MirrorOps /\ i \in Nat \cup Member \cup Item
    BY DEF MirrorOps
  <2>2. PICK todo \in MirrorTask :
          /\ todo = Task("srem", n, i, "none") /\ todo.op = "srem" /\ todo.name = n
          /\ todo.arg = i /\ todo.pc = "waiting"
    BY <1>2, <2>1, NewTask
  <2>3. Puts(Srem(sq, n, i), sq, n, sq.kv[n], sq.zset[n], sq.set[n] \ {i})
    BY <1>1, Operations
  <2>4. /\ NextZset(todo, n) = nd.zset[n] /\ NextSet(todo, n) = nd.set[n] \ {i}
        /\ NextKv(todo, n) = nd.kv[n]
    BY <2>2 DEF NextZset, NextSet, NextKv
  <2>5. ArgumentFits(todo)
    BY <2>2 DEF ArgumentFits
  <2>6. Write(Srem(sq, n, i), todo)
    BY <1>9, <2>2
  <2>7. QED BY <2>2, <2>3, <2>4, <2>5, <2>6, Writing
<1>10. CASE TrimZset(n)
  <2>1. "zrem" \in MirrorOps
    BY DEF MirrorOps
  <2>2. PICK todo \in MirrorTask :
          /\ todo = Task("zrem", n, 0, "none") /\ todo.op = "zrem" /\ todo.name = n
          /\ todo.pc = "waiting"
    BY <1>2, <2>1, NewTask
  <2>3. Puts(ZremByRank(sq, n), sq, n, sq.kv[n], sq.zset[n] \ LowRanked(sq.zset[n]), sq.set[n])
    BY <1>1, Operations
  <2>4. /\ NextZset(todo, n) = nd.zset[n] \ LowRanked(nd.zset[n]) /\ NextSet(todo, n) = nd.set[n]
        /\ NextKv(todo, n) = nd.kv[n]
    BY <2>2 DEF NextZset, NextSet, NextKv
  <2>5. ArgumentFits(todo)
    BY <2>2 DEF ArgumentFits
  <2>6. Write(ZremByRank(sq, n), todo)
    BY <1>10, <2>2 DEF TrimZset
  <2>7. QED BY <2>2, <2>3, <2>4, <2>5, <2>6, Writing
<1>11. QED BY <1>4, <1>5, <1>6, <1>7, <1>8, <1>9, <1>10 DEF AddMember, RemoveMember

(* Counting up; a count read back that had no expiry is alike once mirrored. *)
LEMMA Counting ==
  ASSUME DualInv, NEW n \in Name, RaiseCount(n) \/ ReadCount(n)
  PROVE  DualInv'
<1>1. /\ sq \in Content /\ nd \in Content /\ tasks \in Seq(MirrorTask)
      /\ stray \in SUBSET Name /\ counting \in SUBSET Name /\ writes \in Nat
      /\ sq.kv[n] \in Entry
  BY Operations DEF DualInv, DualType
<1>2. CASE RaiseCount(n)
  <2>1. /\ writes' = writes + 1 /\ sq' = Incr(sq, n) /\ counting' = counting \cup {n}
        /\ nd' = nd /\ tasks' = tasks /\ stray' = stray
    BY <1>2 DEF RaiseCount, WithinBound
  <2>2. PICK e \in Entry : Puts(sq', sq, n, e, sq.zset[n], sq.set[n])
    BY <1>1, <2>1, Operations
  <2>3. /\ sq' \in Content /\ sq'.zset[n] = sq.zset[n] /\ sq'.set[n] = sq.set[n]
        /\ \A o \in Name \ {n} :
             sq'.kv[o] = sq.kv[o] /\ sq'.zset[o] = sq.zset[o] /\ sq'.set[o] = sq.set[o]
    BY <2>2 DEF Puts
  <2>4. DualType'
    BY <1>1, <2>1, <2>3 DEF DualInv, DualType
  <2>5. \A o : On(o)' = On(o)
    BY <2>1 DEF On, Ended
  <2>6. ASSUME NEW o \in Name \ {n} PROVE NameInv(o)'
    BY <2>1, <2>3, <2>5, <2>6, NameUntouched DEF DualInv
  <2>7. SoleIsAlone(n)'
    BY <2>1, <2>3, <2>5 DEF DualInv, NameInv, SoleIsAlone
  <2>8. ASSUME n \notin stray' PROVE Mirrored(n)'
    <3>1. Mirrored(n)
      BY <2>1, <2>8 DEF DualInv, NameInv
    <3>2. ASSUME NEW t \in On(n)
          PROVE  /\ NextZset(tasks[t], n)' = NextZset(tasks[t], n)
                 /\ NextSet(tasks[t], n)' = NextSet(tasks[t], n)
                 /\ QueryStands(tasks[t], n)' <=> QueryStands(tasks[t], n)
      BY <2>1, Zenon DEF NextZset, NextSet, QueryStands
    <3>3. QED BY <2>1, <2>3, <2>5, <3>1, <3>2 DEF Mirrored
  <2>9. NameInv(n)'
    BY <2>7, <2>8 DEF NameInv
  <2>10. QED BY <2>4, <2>6, <2>9 DEF DualInv
<1>3. CASE ReadCount(n)
  <2>1. PICK v \in Nat : /\ v = Counted(sq, n)
                         /\ sq.kv[n].life = "forever" => v = sq.kv[n].value
    BY <1>1 DEF Counted, Live, Entry
  <2>2. "set" \in MirrorOps /\ "forever" \in Life
    BY DEF Life, MirrorOps
  <2>3. PICK todo \in MirrorTask :
          /\ todo = Task("set", n, v, "forever") /\ todo.op = "set" /\ todo.name = n
          /\ todo.arg = v /\ todo.life = "forever" /\ todo.pc = "waiting"
    BY <2>2, NewTask
  <2>4. /\ Fire(todo) /\ counting' = counting \ {n} /\ sq' = sq /\ nd' = nd /\ writes' = writes
        /\ stray' = (stray \cup Strays(n)) \cup (IF sq.kv[n].life = "forever" THEN {} ELSE {n})
    BY <1>3, <2>1, <2>3 DEF ReadCount
  <2>5. /\ stray' \in SUBSET Name /\ (n \in stray \/ On(n) # {} => n \in stray')
        /\ n \notin stray' => sq.kv[n].life = "forever"
        /\ \A o \in Name \ {n} : (o \in stray' <=> o \in stray) /\ (o \in counting' <=> o \in counting)
    BY <1>1, <2>4 DEF Strays
  <2>6. Puts(sq', sq, n, sq.kv[n], sq.zset[n], sq.set[n])
    BY <1>1, <2>4 DEF Puts
  <2>7. /\ NextZset(todo, n) = nd.zset[n] /\ NextSet(todo, n) = nd.set[n]
        /\ NextKv(todo, n) = [value |-> v, life |-> "forever"]
    BY <2>3 DEF NextZset, NextSet, NextKv
  <2>8. n \notin stray' => KvAgree(sq.kv[n], NextKv(todo, n))
    BY <2>1, <2>5, <2>7 DEF KvAgree
  <2>9. ArgumentFits(todo)
    BY <2>3 DEF ArgumentFits
  <2>10. counting' \in SUBSET Name /\ writes' \in Nat
    BY <1>1, <2>4
  <2>11. QED BY <2>3, <2>4, <2>5, <2>6, <2>7, <2>8, <2>9, <2>10, FireStays
<1>4. QED BY <1>2, <1>3

(* The time of a row is over in one of the stores: a timed value of SQLite's   *)
(* agrees with no lasting one of nedbd's, and an expired one of nedbd's with   *)
(* any.                                                                        *)
LEMMA Expiring ==
  ASSUME DualInv, NEW n \in Name, TimePasses(n)
  PROVE  DualInv'
<1>1. /\ sq \in Content /\ nd \in Content /\ sq.kv[n] \in Entry /\ nd.kv[n] \in Entry
  BY Operations DEF DualInv, DualType
<1>2. /\ tasks' = tasks /\ writes' = writes /\ counting' = counting /\ stray' = stray
      /\ \A o : On(o)' = On(o)
  BY DEF TimePasses, On, Ended
<1>3. NameInv(n)
  BY DEF DualInv
<1>4. CASE sq.kv[n].life = "timed" /\ sq' = [sq EXCEPT !.kv[n].life = "over"] /\ nd' = nd
  <2>1. PICK e \in Entry : /\ e = [sq.kv[n] EXCEPT !.life = "over"]
                           /\ e.life = "over" /\ e.value = sq.kv[n].value
    <3> DEFINE f == [sq.kv[n] EXCEPT !.life = "over"]
    <3>1. f \in Entry /\ f.life = "over" /\ f.value = sq.kv[n].value
      BY <1>1 DEF Entry, Life
    <3>2. QED BY <3>1
  <2>2. sq' = [sq EXCEPT !.kv[n] = e]
    BY <1>4, <2>1
  <2>3. Puts(sq', sq, n, e, sq.zset[n], sq.set[n])
    BY Zenon, <1>1, <2>2, PutKv
  <2>4. /\ sq' \in Content /\ sq'.kv[n] = e /\ sq'.zset[n] = sq.zset[n] /\ sq'.set[n] = sq.set[n]
        /\ \A o \in Name \ {n} :
             sq'.kv[o] = sq.kv[o] /\ sq'.zset[o] = sq.zset[o] /\ sq'.set[o] = sq.set[o]
    BY <2>3 DEF Puts
  <2>5. DualType'
    BY <1>2, <1>4, <2>4 DEF DualInv, DualType
  <2>6. ASSUME NEW o \in Name \ {n} PROVE NameInv(o)'
    BY <1>2, <1>4, <2>4, <2>6, NameUntouched DEF DualInv
  <2>7. SoleIsAlone(n)'
    BY <1>2, <1>3, <2>4 DEF NameInv, SoleIsAlone
  <2>8. ASSUME NEW d, KvAgree(sq.kv[n], d) PROVE KvAgree(e, d)
    BY <1>4, <2>1, <2>8 DEF KvAgree
  <2>9. ASSUME n \notin stray' PROVE Mirrored(n)'
    <3>1. Mirrored(n)
      BY <1>2, <1>3, <2>9 DEF NameInv
    <3>2. ASSUME NEW t \in On(n)
          PROVE  /\ NextZset(tasks[t], n)' = NextZset(tasks[t], n)
                 /\ NextSet(tasks[t], n)' = NextSet(tasks[t], n)
                 /\ NextKv(tasks[t], n)' = NextKv(tasks[t], n)
                 /\ QueryStands(tasks[t], n)' <=> QueryStands(tasks[t], n)
      BY <1>2, <1>4, Zenon DEF NextZset, NextSet, NextKv, QueryStands
    <3>3. On(n)' = {} => /\ sq'.zset[n] = nd'.zset[n] /\ sq'.set[n] = nd'.set[n]
                         /\ n \notin counting' => KvAgree(sq'.kv[n], nd'.kv[n])
      BY <1>2, <1>4, <2>4, <2>8, <3>1 DEF Mirrored
    <3>4. ASSUME NEW t \in On(n)'
          PROVE  /\ On(n)' = {t} /\ QueryStands(tasks[t], n)'
                 /\ sq'.zset[n] = NextZset(tasks[t], n)' /\ sq'.set[n] = NextSet(tasks[t], n)'
                 /\ n \notin counting' => KvAgree(sq'.kv[n], NextKv(tasks[t], n)')
      <4>1. t \in On(n)
        BY <1>2
      <4>2. /\ On(n) = {t} /\ QueryStands(tasks[t], n)
            /\ sq.zset[n] = NextZset(tasks[t], n) /\ sq.set[n] = NextSet(tasks[t], n)
            /\ n \notin counting => KvAgree(sq.kv[n], NextKv(tasks[t], n))
        BY <3>1, <4>1 DEF Mirrored
      <4>3. n \notin counting => KvAgree(e, NextKv(tasks[t], n))
        BY <2>8, <4>2
      <4>4. QED BY <1>2, <2>4, <3>2, <4>1, <4>2, <4>3
    <3>5. QED BY <3>3, <3>4 DEF Mirrored
  <2>10. QED BY <2>5, <2>6, <2>7, <2>9 DEF DualInv, NameInv
<1>5. CASE nd.kv[n].life = "timed" /\ nd' = [nd EXCEPT !.kv[n].life = "over"] /\ sq' = sq
  <2>1. PICK e \in Entry : /\ e = [nd.kv[n] EXCEPT !.life = "over"] /\ e.life = "over"
    <3> DEFINE f == [nd.kv[n] EXCEPT !.life = "over"]
    <3>1. f \in Entry /\ f.life = "over"
      BY <1>1 DEF Entry, Life
    <3>2. QED BY <3>1
  <2>2. nd' = [nd EXCEPT !.kv[n] = e]
    BY <1>5, <2>1
  <2>3. Puts(nd', nd, n, e, nd.zset[n], nd.set[n])
    BY Zenon, <1>1, <2>2, PutKv
  <2>4. /\ nd' \in Content /\ nd'.kv[n] = e /\ nd'.zset[n] = nd.zset[n] /\ nd'.set[n] = nd.set[n]
        /\ \A o \in Name \ {n} :
             nd'.kv[o] = nd.kv[o] /\ nd'.zset[o] = nd.zset[o] /\ nd'.set[o] = nd.set[o]
    BY <2>3 DEF Puts
  <2>5. DualType'
    BY <1>2, <1>5, <2>4 DEF DualInv, DualType
  <2>6. ASSUME NEW o \in Name \ {n} PROVE NameInv(o)'
    BY <1>2, <1>5, <2>4, <2>6, NameUntouched DEF DualInv
  <2>7. SoleIsAlone(n)'
    BY <1>2, <1>3, <1>5 DEF NameInv, SoleIsAlone
  <2>8. ASSUME NEW s PROVE KvAgree(s, e)
    BY <2>1 DEF KvAgree
  <2>9. ASSUME n \notin stray' PROVE Mirrored(n)'
    <3>1. Mirrored(n)
      BY <1>2, <1>3, <2>9 DEF NameInv
    <3>2. ASSUME NEW t \in On(n)
          PROVE  /\ NextZset(tasks[t], n)' = NextZset(tasks[t], n)
                 /\ NextSet(tasks[t], n)' = NextSet(tasks[t], n)
      BY <1>2, <2>4, Zenon DEF NextZset, NextSet
    <3>3. ASSUME NEW t \in On(n)
          PROVE  NextKv(tasks[t], n)' = NextKv(tasks[t], n) \/ NextKv(tasks[t], n)' = e
      <4>1. PICK todo : todo = tasks[t] /\ todo = tasks'[t]
        BY <1>2
      <4>2. ~Live(e)
        BY <2>1 DEF Live
      <4>3. CASE todo.op = "set"
        BY <4>1, <4>3 DEF NextKv
      <4>4. CASE todo.op = "delete"
        BY <4>1, <4>4 DEF NextKv
      <4>5. CASE todo.op = "expire" /\ todo.pc = "queried" /\ Live(todo.entry)
        BY <4>1, <4>5 DEF NextKv
      <4>6. CASE todo.op = "expire" /\ todo.pc = "queried" /\ ~Live(todo.entry)
        BY <2>4, <4>1, <4>6 DEF NextKv
      <4>7. CASE todo.op = "expire" /\ todo.pc # "queried"
        BY <2>4, <4>1, <4>2, <4>7 DEF NextKv
      <4>8. CASE todo.op \notin {"set", "delete", "expire"}
        BY <2>4, <4>1, <4>8 DEF NextKv
      <4>9. QED BY <4>3, <4>4, <4>5, <4>6, <4>7, <4>8
    <3>4. ASSUME NEW t \in On(n), QueryStands(tasks[t], n) PROVE QueryStands(tasks[t], n)'
      <4>1. ~Live(nd'.kv[n])
        BY <2>1, <2>4 DEF Live
      <4>2. QED BY <1>2, <2>4, <3>4, <4>1 DEF QueryStands
    <3>5. On(n)' = {} => /\ sq'.zset[n] = nd'.zset[n] /\ sq'.set[n] = nd'.set[n]
                         /\ n \notin counting' => KvAgree(sq'.kv[n], nd'.kv[n])
      BY <1>2, <1>5, <2>4, <2>8, <3>1 DEF Mirrored
    <3>6. ASSUME NEW t \in On(n)'
          PROVE  /\ On(n)' = {t} /\ QueryStands(tasks[t], n)'
                 /\ sq'.zset[n] = NextZset(tasks[t], n)' /\ sq'.set[n] = NextSet(tasks[t], n)'
                 /\ n \notin counting' => KvAgree(sq'.kv[n], NextKv(tasks[t], n)')
      <4>1. t \in On(n)
        BY <1>2
      <4>2. /\ On(n) = {t} /\ QueryStands(tasks[t], n)
            /\ sq.zset[n] = NextZset(tasks[t], n) /\ sq.set[n] = NextSet(tasks[t], n)
            /\ n \notin counting => KvAgree(sq.kv[n], NextKv(tasks[t], n))
        BY <3>1, <4>1 DEF Mirrored
      <4>3. KvAgree(sq.kv[n], e)
        BY <2>8
      <4>4. n \notin counting' => KvAgree(sq'.kv[n], NextKv(tasks[t], n)')
        BY <1>2, <1>5, <3>3, <4>1, <4>2, <4>3
      <4>5. QED BY <1>2, <1>5, <3>2, <3>4, <4>1, <4>2, <4>4
    <3>7. QED BY <3>5, <3>6 DEF Mirrored
  <2>10. QED BY <2>5, <2>6, <2>7, <2>9 DEF DualInv, NameInv
<1>6. QED BY <1>4, <1>5 DEF TimePasses

(* What a task makes of nedbd: of its own name only, and what was foretold if  *)
(* what its query returned still stands.                                       *)
LEMMA Applying ==
  ASSUME DualInv, NEW t \in DOMAIN tasks, NEW n \in Name, n = tasks[t].name, Ready(t)
  PROVE  \E kv, zset, set :
           /\ Puts(Applied(tasks[t]), nd, n, kv, zset, set)
           /\ tasks[t].op = "delete" =>
                /\ kv = Absent
                /\ zset = nd.zset[n] \ tasks[t].foundZ /\ set = nd.set[n] \ tasks[t].found
           /\ QueryStands(tasks[t], n) =>
                /\ kv = NextKv(tasks[t], n)
                /\ zset = NextZset(tasks[t], n) /\ set = NextSet(tasks[t], n)
<1>1. PICK todo \in MirrorTask : todo = tasks[t] /\ ArgumentFits(todo) /\ todo.name = n
  BY TasksKnown DEF DualInv, DualType
<1>2. /\ todo.pc \in {"running", "queried"} /\ (todo.op \in Queries => todo.pc = "queried")
      /\ todo.life \in Life /\ todo.op \in MirrorOps /\ todo.op # "none" /\ todo.entry \in Entry
  BY <1>1 DEF Ready, ArgumentFits, MirrorTask
<1>3. nd \in Content
  BY DEF DualInv, DualType
<1>4. nd.kv[n] \in Entry /\ nd.zset[n] \in SUBSET Member /\ nd.set[n] \in SUBSET Item
  BY <1>3, Operations
<1> DEFINE Goal(kv, zset, set) ==
      /\ Puts(Applied(todo), nd, n, kv, zset, set)
      /\ todo.op = "delete" =>
           /\ kv = Absent
           /\ zset = nd.zset[n] \ todo.foundZ /\ set = nd.set[n] \ todo.found
      /\ QueryStands(todo, n) =>
           /\ kv = NextKv(todo, n) /\ zset = NextZset(todo, n) /\ set = NextSet(todo, n)
<1>5. SUFFICES \E kv, zset, set : Goal(kv, zset, set)
  BY <1>1
<1>6. CASE todo.op = "set"
  <2>1. Applied(todo) = Set(nd, n, todo.arg, todo.life)
    BY <1>1, <1>6 DEF Applied, NdSet
  <2>2. todo.arg \in Nat
    BY <1>1, <1>6 DEF ArgumentFits
  <2>3. PICK e : e = [value |-> todo.arg, life |-> todo.life]
    OBVIOUS
  <2>4. Puts(Applied(todo), nd, n, e, nd.zset[n], nd.set[n])
    BY Zenon, <1>2, <1>3, <2>1, <2>2, <2>3, Operations
  <2>5. NextKv(todo, n) = e /\ NextZset(todo, n) = nd.zset[n] /\ NextSet(todo, n) = nd.set[n]
    BY <1>6, <2>3 DEF NextKv, NextZset, NextSet
  <2>6. Goal(e, nd.zset[n], nd.set[n])
    BY <1>6, <2>4, <2>5
  <2>7. QED BY <2>6
<1>7. CASE todo.op = "delete"
  <2>1. Applied(todo) = NdDelete(n, todo.foundZ, todo.found)
    BY <1>1, <1>7 DEF Applied
  <2>2. PICK z \in SUBSET Member, y \in SUBSET Item :
          z = nd.zset[n] \ todo.foundZ /\ y = nd.set[n] \ todo.found
    BY <1>4
  <2>3. Absent \in Entry
    BY DEF Absent, Entry, Life
  <2>4. PICK p : p = [nd EXCEPT !.kv[n] = Absent]
    OBVIOUS
  <2>5. Puts(p, nd, n, Absent, nd.zset[n], nd.set[n])
    BY Zenon, <1>3, <2>3, <2>4, PutKv
  <2>6. p \in Content /\ p.zset[n] = nd.zset[n] /\ p.set[n] = nd.set[n]
    BY <2>5 DEF Puts
  <2>7. PICK q : q = [p EXCEPT !.zset[n] = z]
    OBVIOUS
  <2>8. Puts(q, p, n, p.kv[n], z, p.set[n])
    BY Zenon, <2>6, <2>7, PutZset
  <2>9. q \in Content /\ q.set[n] = nd.set[n]
    BY <2>6, <2>8 DEF Puts
  <2>10. PICK r : r = [q EXCEPT !.set[n] = y]
    OBVIOUS
  <2>11. Puts(r, q, n, q.kv[n], q.zset[n], y)
    BY Zenon, <2>9, <2>10, PutSet
  <2>12. Applied(todo) = r
    <3>1. NdDelete(n, todo.foundZ, todo.found)
            = [nd EXCEPT !.kv[n] = Absent, !.zset[n] = z, !.set[n] = y]
      BY <2>2 DEF NdDelete
    <3>2. QED BY Zenon, <2>1, <2>4, <2>7, <2>10, <3>1
  <2>13. Puts(r, nd, n, Absent, z, y)
    BY <2>5, <2>8, <2>11 DEF Puts
  <2>14. NextKv(todo, n) = Absent /\ NextZset(todo, n) = {} /\ NextSet(todo, n) = {}
    BY <1>7 DEF NextKv, NextZset, NextSet
  <2>15. QueryStands(todo, n) => z = {} /\ y = {}
    BY <1>2, <1>7, <2>2 DEF QueryStands, Queries
  <2>16. Goal(Absent, z, y)
    BY <2>2, <2>12, <2>13, <2>14, <2>15
  <2>17. QED BY <2>16
<1>8. CASE todo.op = "expire"
  <2>1. Applied(todo) = NdExpire(n, todo.entry) /\ todo.pc = "queried"
    BY <1>1, <1>2, <1>8 DEF Applied, Queries
  <2>2. NextZset(todo, n) = nd.zset[n] /\ NextSet(todo, n) = nd.set[n]
    BY <1>8 DEF NextZset, NextSet
  <2>3. CASE Live(todo.entry)
    <3>1. Applied(todo) = Set(nd, n, todo.entry.value, "timed")
      BY <2>1, <2>3 DEF NdExpire
    <3>2. todo.entry.value \in Nat /\ "timed" \in Life
      BY <1>2 DEF Entry, Life
    <3>3. PICK e : e = [value |-> todo.entry.value, life |-> "timed"]
      OBVIOUS
    <3>4. Puts(Applied(todo), nd, n, e, nd.zset[n], nd.set[n])
      BY Zenon, <1>3, <3>1, <3>2, <3>3, Operations
    <3>5. NextKv(todo, n) = e
      BY <1>8, <2>1, <2>3, <3>3 DEF NextKv
    <3>6. Goal(e, nd.zset[n], nd.set[n])
      BY <1>8, <2>2, <3>4, <3>5
    <3>7. QED BY <3>6
  <2>4. CASE ~Live(todo.entry)
    <3>1. Applied(todo) = nd
      BY <2>1, <2>4 DEF NdExpire
    <3>2. Puts(nd, nd, n, nd.kv[n], nd.zset[n], nd.set[n])
      BY <1>3 DEF Puts
    <3>3. NextKv(todo, n) = nd.kv[n]
      BY <1>8, <2>1, <2>4 DEF NextKv
    <3>4. Goal(nd.kv[n], nd.zset[n], nd.set[n])
      BY <1>8, <2>2, <3>1, <3>2, <3>3
    <3>5. QED BY <3>4
  <2>5. QED BY <2>3, <2>4
<1>9. CASE todo.op = "zadd"
  <2>1. Applied(todo) = Zadd(nd, n, todo.arg) /\ todo.arg \in Member
    BY <1>1, <1>9 DEF Applied, NdZadd, ArgumentFits
  <2>2. PICK z : z = nd.zset[n] \cup {todo.arg}
    OBVIOUS
  <2>3. Puts(Applied(todo), nd, n, nd.kv[n], z, nd.set[n])
    BY Zenon, <1>3, <2>1, <2>2, Operations
  <2>4. NextKv(todo, n) = nd.kv[n] /\ NextZset(todo, n) = z /\ NextSet(todo, n) = nd.set[n]
    BY <1>9, <2>2 DEF NextKv, NextZset, NextSet
  <2>5. Goal(nd.kv[n], z, nd.set[n])
    BY <1>9, <2>3, <2>4
  <2>6. QED BY <2>5
<1>10. CASE todo.op = "zrem"
  <2>1. Applied(todo) = [nd EXCEPT !.zset[n] = @ \ todo.found]
    BY <1>1, <1>10 DEF Applied, NdZrem
  <2>2. PICK z \in SUBSET Member : z = nd.zset[n] \ todo.found
    BY <1>4
  <2>3. Applied(todo) = [nd EXCEPT !.zset[n] = z]
    BY <2>1, <2>2
  <2>4. Puts(Applied(todo), nd, n, nd.kv[n], z, nd.set[n])
    <3>1. z \in SUBSET Member
      BY <2>2
    <3>2. Puts([nd EXCEPT !.zset[n] = z], nd, n, nd.kv[n], z, nd.set[n])
      BY Zenon, <1>3, <3>1, PutZset
    <3>3. QED BY Zenon, <2>3, <3>2
  <2>5. NextKv(todo, n) = nd.kv[n] /\ NextSet(todo, n) = nd.set[n]
    BY <1>10 DEF NextKv, NextSet
  <2>6. QueryStands(todo, n) => z = NextZset(todo, n)
    BY <1>2, <1>10, <2>2 DEF QueryStands, NextZset, Queries
  <2>7. Goal(nd.kv[n], z, nd.set[n])
    BY <1>10, <2>4, <2>5, <2>6
  <2>8. QED BY <2>7
<1>11. CASE todo.op = "sadd"
  <2>1. Applied(todo) = Sadd(nd, n, todo.arg) /\ todo.arg \in Item
    BY <1>1, <1>11 DEF Applied, NdSadd, ArgumentFits
  <2>2. PICK y : y = nd.set[n] \cup {todo.arg}
    OBVIOUS
  <2>3. Puts(Applied(todo), nd, n, nd.kv[n], nd.zset[n], y)
    BY Zenon, <1>3, <2>1, <2>2, Operations
  <2>4. NextKv(todo, n) = nd.kv[n] /\ NextZset(todo, n) = nd.zset[n] /\ NextSet(todo, n) = y
    BY <1>11, <2>2 DEF NextKv, NextZset, NextSet
  <2>5. Goal(nd.kv[n], nd.zset[n], y)
    BY <1>11, <2>3, <2>4
  <2>6. QED BY <2>5
<1>12. CASE todo.op = "srem"
  <2>1. Applied(todo) = Srem(nd, n, todo.arg) /\ todo.arg \in Item
    BY <1>1, <1>12 DEF Applied, NdSrem, ArgumentFits
  <2>2. PICK y : y = nd.set[n] \ {todo.arg}
    OBVIOUS
  <2>3. Puts(Applied(todo), nd, n, nd.kv[n], nd.zset[n], y)
    BY Zenon, <1>3, <2>1, <2>2, Operations
  <2>4. NextKv(todo, n) = nd.kv[n] /\ NextZset(todo, n) = nd.zset[n] /\ NextSet(todo, n) = y
    BY <1>12, <2>2 DEF NextKv, NextZset, NextSet
  <2>5. Goal(nd.kv[n], nd.zset[n], y)
    BY <1>12, <2>3, <2>4
  <2>6. QED BY <2>5
<1>13. QED BY <1>2, <1>6, <1>7, <1>8, <1>9, <1>10, <1>11, <1>12 DEF MirrorOps

(* A step of one task keeps the invariant when it does for the task's name. *)
LEMMA OneTaskMoves ==
  ASSUME DualInv, NEW t \in DOMAIN tasks, NEW n \in Name, n = tasks[t].name,
         NEW mine \in MirrorTask, ArgumentFits(mine), mine.name = n,
         tasks' = [tasks EXCEPT ![t] = mine], tasks[t].pc # "ended",
         mine.pc # "ended" => mine.op = tasks[t].op /\ mine.sole = tasks[t].sole,
         NEW kv, NEW zset, NEW set, Puts(nd', nd, n, kv, zset, set), sq' = sq,
         counting' = counting, writes' = writes, stray' \in SUBSET Name,
         \A o \in Name \ {n} : o \in stray' <=> o \in stray,
         n \notin stray' => Mirrored(n)'
  PROVE  DualInv'
<1>1. /\ tasks \in Seq(MirrorTask) /\ \A k \in DOMAIN tasks : ArgumentFits(tasks[k])
      /\ counting \in SUBSET Name /\ writes \in Nat /\ sq \in Content
  BY DEF DualInv, DualType
<1>2. /\ tasks' \in Seq(MirrorTask) /\ DOMAIN tasks' = DOMAIN tasks
      /\ \A k \in DOMAIN tasks' : ArgumentFits(tasks'[k])
      /\ tasks'[t] = mine /\ \A k \in DOMAIN tasks : k # t => tasks'[k] = tasks[k]
      /\ t \in On(n)
      /\ \A o \in Name \ {n} : On(o)' = On(o) /\ \A k \in On(o) : tasks'[k] = tasks[k]
      /\ mine.pc # "ended" => On(n)' = On(n)
      /\ mine.pc = "ended" => On(n)' = On(n) \ {t}
  BY <1>1, TaskMoves
<1>3. /\ nd' \in Content
      /\ \A o \in Name \ {n} :
           nd'.kv[o] = nd.kv[o] /\ nd'.zset[o] = nd.zset[o] /\ nd'.set[o] = nd.set[o]
  BY DEF Puts
<1>4. DualType'
  BY <1>1, <1>2, <1>3 DEF DualType
<1>5. ASSUME NEW o \in Name \ {n} PROVE NameInv(o)'
  <2>1. NameInv(o)
    BY DEF DualInv
  <2>2. QED BY <1>2, <1>3, <2>1, NameUntouched
<1>6. SoleIsAlone(n)'
  <2>1. SoleIsAlone(n) /\ On(n) \subseteq DOMAIN tasks
    BY <1>1, TasksKnown DEF DualInv, NameInv
  <2>2. CASE mine.pc = "ended"
    BY <1>2, <2>1, <2>2 DEF SoleIsAlone
  <2>3. CASE mine.pc # "ended"
    BY <1>2, <2>1, <2>3 DEF SoleIsAlone
  <2>4. QED BY <2>2, <2>3
<1>7. QED BY <1>4, <1>5, <1>6 DEF DualInv, NameInv

LEMMA Asking ==
  ASSUME DualInv, NEW t \in DOMAIN tasks, Start(t) \/ Query(t) \/ Sweep(t)
  PROVE  DualInv'
<1>1. /\ tasks \in Seq(MirrorTask) /\ tasks[t] \in MirrorTask /\ ArgumentFits(tasks[t])
      /\ nd \in Content /\ stray \in SUBSET Name
  BY TasksKnown DEF DualInv, DualType
<1>2. PICK n \in Name : n = tasks[t].name
  BY <1>1 DEF MirrorTask
<1>3. nd.kv[n] \in Entry /\ nd.zset[n] \in SUBSET Member /\ nd.set[n] \in SUBSET Item
  BY <1>1, Operations
<1>4. /\ sq' = sq /\ nd' = nd /\ writes' = writes /\ counting' = counting
      /\ tasks[t].pc \in {"waiting", "running"}
  BY DEF Start, Query, Sweep
<1>5. NameInv(n) /\ t \in On(n)
  BY <1>1, <1>2, <1>4 DEF DualInv, On, Ended
<1>6. Puts(nd', nd, n, nd.kv[n], nd.zset[n], nd.set[n])
  BY <1>1, <1>4 DEF Puts
<1>7. ASSUME NEW mine \in MirrorTask, tasks' = [tasks EXCEPT ![t] = mine],
             mine.pc # "ended", mine.op = tasks[t].op, mine.name = n, mine.arg = tasks[t].arg,
             mine.life = tasks[t].life, mine.sole = tasks[t].sole,
             mine.pc = "queried" /\ mine.op = "expire" => mine.entry = nd.kv[n],
             n \notin stray' => QueryStands(mine, n),
             stray' \in SUBSET Name, stray \subseteq stray',
             \A o \in Name \ {n} : o \in stray' <=> o \in stray
      PROVE  DualInv'
  <2>1. ArgumentFits(mine)
    BY <1>1, <1>4, <1>7 DEF ArgumentFits
  <2>2. /\ tasks'[t] = mine /\ On(n)' = On(n)
    BY <1>1, <1>2, <1>4, <1>7, <2>1, TaskMoves DEF DualInv, DualType
  <2>3. /\ NextZset(mine, n) = NextZset(tasks[t], n) /\ NextSet(mine, n) = NextSet(tasks[t], n)
    BY <1>7, Zenon DEF NextZset, NextSet
  <2>4. NextKv(mine, n) = NextKv(tasks[t], n)
    <3>1. PICK old : old = tasks[t] /\ old.pc # "queried" /\ old.op = mine.op
                     /\ old.arg = mine.arg /\ old.life = mine.life
      BY <1>4, <1>7
    <3>2. CASE mine.op = "expire"
      BY <1>7, <3>1, <3>2 DEF NextKv
    <3>3. CASE mine.op = "set"
      BY <3>1, <3>3 DEF NextKv
    <3>4. CASE mine.op = "delete"
      BY <3>1, <3>4 DEF NextKv
    <3>5. CASE mine.op \notin {"expire", "set", "delete"}
      BY <3>1, <3>5 DEF NextKv
    <3>6. QED BY <3>2, <3>3, <3>4, <3>5
  <2>5. ASSUME n \notin stray' PROVE Mirrored(n)'
    <3>1. Mirrored(n)
      BY <1>5, <1>7, <2>5 DEF NameInv
    <3>2. /\ On(n) = {t} /\ sq.zset[n] = NextZset(mine, n) /\ sq.set[n] = NextSet(mine, n)
          /\ n \notin counting => KvAgree(sq.kv[n], NextKv(mine, n))
      BY <1>5, <2>3, <2>4, <3>1 DEF Mirrored
    <3>3. QueryStands(mine, n)
      BY <1>7, <2>5
    <3>4. /\ NextZset(tasks[t], n)' = NextZset(mine, n) /\ NextSet(tasks[t], n)' = NextSet(mine, n)
          /\ NextKv(tasks[t], n)' = NextKv(mine, n)
          /\ QueryStands(tasks[t], n)' <=> QueryStands(mine, n)
      BY <1>4, <2>2, Zenon DEF NextZset, NextSet, NextKv, QueryStands
    <3>5. KvAgree(sq.kv[n], NextKv(tasks[t], n))' <=> KvAgree(sq.kv[n], NextKv(mine, n))
      BY <1>4, <3>4 DEF KvAgree
    <3>6. QED BY <1>4, <2>2, <3>2, <3>3, <3>4, <3>5 DEF Mirrored
  <2>6. QED BY <1>2, <1>4, <1>6, <1>7, <2>1, <2>5, OneTaskMoves
<1>8. CASE Start(t)
  <2>1. PICK mine \in MirrorTask :
          /\ mine = [tasks[t] EXCEPT !.pc = "running"] /\ mine.pc = "running"
          /\ mine.op = tasks[t].op /\ mine.name = n /\ mine.arg = tasks[t].arg
          /\ mine.life = tasks[t].life /\ mine.sole = tasks[t].sole
    <3> DEFINE f == [tasks[t] EXCEPT !.pc = "running"]
    <3>1. /\ f \in MirrorTask /\ f.pc = "running" /\ f.op = tasks[t].op /\ f.name = n
          /\ f.arg = tasks[t].arg /\ f.life = tasks[t].life /\ f.sole = tasks[t].sole
      BY <1>1, <1>2 DEF MirrorTask
    <3>2. QED BY <3>1
  <2>2. tasks' = [tasks EXCEPT ![t] = mine] /\ stray' = stray
    BY <1>8, <2>1 DEF Start
  <2>3. QueryStands(mine, n)
    BY <2>1 DEF QueryStands
  <2>4. QED BY <1>1, <1>7, <2>1, <2>2, <2>3
<1>9. CASE Query(t)
  <2>1. PICK low : low = IF tasks[t].op = "zrem" THEN LowRanked(nd.zset[n]) ELSE {}
    OBVIOUS
  <2>2. LowRanked(nd.zset[n]) \subseteq nd.zset[n]
    BY DEF LowRanked
  <2>3. low \in SUBSET (Member \cup Item) /\ (tasks[t].op = "zrem" => low = LowRanked(nd.zset[n]))
    BY <1>3, <2>1, <2>2
  <2>4. PICK e \in Entry : e = nd.kv[n]
    BY <1>3
  <2>5. PICK mine \in MirrorTask :
          /\ mine = [tasks[t] EXCEPT !.pc = "queried", !.entry = e, !.found = low]
          /\ mine.pc = "queried" /\ mine.entry = e /\ mine.found = low
          /\ mine.op = tasks[t].op /\ mine.name = n /\ mine.arg = tasks[t].arg
          /\ mine.life = tasks[t].life /\ mine.sole = tasks[t].sole
    <3> DEFINE f == [tasks[t] EXCEPT !.pc = "queried", !.entry = e, !.found = low]
    <3>1. /\ f \in MirrorTask /\ f.pc = "queried" /\ f.entry = e /\ f.found = low
          /\ f.op = tasks[t].op /\ f.name = n
          /\ f.arg = tasks[t].arg /\ f.life = tasks[t].life /\ f.sole = tasks[t].sole
      BY <1>1, <1>2, <2>3 DEF MirrorTask
    <3>2. QED BY <3>1
  <2>6. tasks' = [tasks EXCEPT ![t] = mine] /\ stray' = stray
    <3>1. /\ tasks' = [tasks EXCEPT ![t].pc = "queried", ![t].entry = e, ![t].found = low]
          /\ stray' = stray
      BY <1>2, <1>9, <2>1, <2>4 DEF Query
    <3>2. [tasks EXCEPT ![t].pc = "queried", ![t].entry = e, ![t].found = low]
            = [tasks EXCEPT ![t] = mine]
      BY <1>1, <2>5, TasksKnown
    <3>3. QED BY <3>1, <3>2
  <2>7. mine.op \in {"expire", "zrem"}
    BY <1>9, <2>5 DEF Query
  <2>8. QueryStands(mine, n)
    BY <2>3, <2>4, <2>5, <2>7 DEF QueryStands, Queries
  <2>9. QED BY <1>1, <1>7, <2>4, <2>5, <2>6, <2>8
<1>10. CASE Sweep(t)
  <2>1. PICK zs \in SUBSET Member, st \in SUBSET Item :
          /\ tasks' = [tasks EXCEPT ![t].pc = "queried", ![t].foundZ = zs, ![t].found = st]
          /\ stray' = IF zs = nd.zset[n] /\ st = nd.set[n] THEN stray ELSE stray \cup {n}
    <3>1. PICK zs \in {{}, nd.zset[n]}, st \in {{}, nd.set[n]} :
            /\ tasks' = [tasks EXCEPT ![t].pc = "queried", ![t].foundZ = zs, ![t].found = st]
            /\ stray' = IF zs = nd.zset[n] /\ st = nd.set[n] THEN stray ELSE stray \cup {n}
      BY Zenon, <1>2, <1>10 DEF Sweep
    <3>2. zs \in SUBSET Member /\ st \in SUBSET Item
      BY <1>3, <3>1
    <3>3. QED BY Zenon, <3>1, <3>2
  <2>2. /\ stray' \in SUBSET Name /\ stray \subseteq stray'
        /\ \A o \in Name \ {n} : o \in stray' <=> o \in stray
        /\ n \notin stray' => zs = nd.zset[n] /\ st = nd.set[n]
    BY <1>1, <2>1
  <2>3. PICK mine \in MirrorTask :
          /\ mine = [tasks[t] EXCEPT !.pc = "queried", !.foundZ = zs, !.found = st]
          /\ mine.pc = "queried" /\ mine.foundZ = zs /\ mine.found = st
          /\ mine.op = tasks[t].op /\ mine.name = n /\ mine.arg = tasks[t].arg
          /\ mine.life = tasks[t].life /\ mine.sole = tasks[t].sole
    <3> DEFINE f == [tasks[t] EXCEPT !.pc = "queried", !.foundZ = zs, !.found = st]
    <3>1. /\ f \in MirrorTask /\ f.pc = "queried" /\ f.foundZ = zs /\ f.found = st
          /\ f.op = tasks[t].op /\ f.name = n
          /\ f.arg = tasks[t].arg /\ f.life = tasks[t].life /\ f.sole = tasks[t].sole
      BY <1>1, <1>2 DEF MirrorTask
    <3>2. QED BY <3>1
  <2>4. tasks' = [tasks EXCEPT ![t] = mine]
    <3>1. [tasks EXCEPT ![t].pc = "queried", ![t].foundZ = zs, ![t].found = st]
            = [tasks EXCEPT ![t] = mine]
      BY <1>1, <2>3, TasksKnown
    <3>2. QED BY <2>1, <3>1
  <2>5. mine.op = "delete"
    BY <1>10, <2>3 DEF Sweep
  <2>6. n \notin stray' => QueryStands(mine, n)
    BY <2>2, <2>3, <2>5 DEF QueryStands, Queries
  <2>7. QED BY <1>7, <2>2, <2>3, <2>4, <2>5, <2>6
<1>11. QED BY <1>8, <1>9, <1>10

(* The task is done, or fails: done, it leaves what was foretold; a delete that *)
(* was alone and found everything leaves nothing of its name in either store;   *)
(* after a failure the name is known to have gone astray.                       *)
LEMMA Finishing ==
  ASSUME DualInv, NEW t \in DOMAIN tasks, Apply(t) \/ Fail(t)
  PROVE  DualInv'
<1>1. /\ tasks \in Seq(MirrorTask) /\ tasks[t] \in MirrorTask /\ ArgumentFits(tasks[t])
      /\ nd \in Content /\ stray \in SUBSET Name
  BY TasksKnown DEF DualInv, DualType
<1>2. PICK n \in Name : n = tasks[t].name
  BY <1>1 DEF MirrorTask
<1>3. /\ sq' = sq /\ writes' = writes /\ counting' = counting
      /\ tasks' = [tasks EXCEPT ![t] = Closed(t)] /\ tasks[t].pc \in {"running", "queried"}
  BY DEF Apply, Fail, Ready, Running
<1>4. PICK mine \in MirrorTask :
        /\ mine = Closed(t) /\ mine.pc = "ended" /\ mine.op = "none" /\ mine.name = n
  <2>1. 0 \in Nat \cup Member \cup Item /\ "none" \in MirrorOps /\ "none" \in Life
    BY DEF MirrorOps, Life
  <2>2. PICK p \in MirrorTask : p = Task("none", n, 0, "none") /\ p.op = "none" /\ p.name = n
    BY <2>1, NewTask
  <2> DEFINE f == [p EXCEPT !.pc = "ended"]
  <2>3. f \in MirrorTask /\ f.pc = "ended" /\ f.op = "none" /\ f.name = n
    BY <2>2 DEF MirrorTask
  <2>4. f = Closed(t)
    BY <1>2, <2>2 DEF Closed
  <2>5. QED BY <2>3, <2>4
<1>5. ArgumentFits(mine)
  BY <1>4 DEF ArgumentFits
<1>6. t \in On(n) /\ On(n)' = On(n) \ {t}
  BY <1>1, <1>2, <1>3, <1>4, <1>5, TaskMoves DEF DualInv, DualType
<1>7. ASSUME Fail(t) PROVE DualInv'
  <2>1. stray' = stray \cup {n} /\ (nd' = nd \/ (Ready(t) /\ nd' = Applied(tasks[t])))
    <3>1. stray' = stray \cup {tasks[t].name}
      BY <1>7 DEF Fail
    <3>2. nd' = nd \/ (Ready(t) /\ nd' = Applied(tasks[t]))
      BY <1>7, Zenon DEF Fail
    <3>3. QED BY <1>2, <3>1, <3>2
  <2>2. \E kv, zset, set : Puts(nd', nd, n, kv, zset, set)
    <3>1. CASE nd' = nd
      <4>1. Puts(nd', nd, n, nd.kv[n], nd.zset[n], nd.set[n])
        BY <1>1, <3>1 DEF Puts
      <4>2. QED BY Zenon, <4>1
    <3>2. CASE Ready(t) /\ nd' = Applied(tasks[t])
      <4>1. PICK kv, zset, set : Puts(Applied(tasks[t]), nd, n, kv, zset, set)
        BY Zenon, <1>2, <3>2, Applying
      <4>2. Puts(nd', nd, n, kv, zset, set)
        BY Zenon, <3>2, <4>1
      <4>3. QED BY Zenon, <4>2
    <3>3. QED BY <2>1, <3>1, <3>2
  <2>3. PICK kv, zset, set : Puts(nd', nd, n, kv, zset, set)
    BY <2>2
  <2>4. /\ stray' \in SUBSET Name /\ n \in stray'
        /\ \A o \in Name \ {n} : o \in stray' <=> o \in stray
    BY <1>1, <2>1
  <2>5. tasks' = [tasks EXCEPT ![t] = mine] /\ tasks[t].pc # "ended"
    BY <1>3, <1>4
  <2>6. QED BY <1>2, <1>3, <1>4, <1>5, <2>3, <2>4, <2>5, OneTaskMoves
<1>8. ASSUME Apply(t) PROVE DualInv'
  <2>1. /\ Ready(t) /\ nd' = Applied(tasks[t])
        /\ stray' = IF /\ tasks[t].op = "delete" /\ tasks[t].sole /\ n \notin counting
                       /\ nd.zset[n] \subseteq tasks[t].foundZ /\ nd.set[n] \subseteq tasks[t].found
                    THEN stray \ {n} ELSE stray
    BY <1>2, <1>8 DEF Apply
  <2>2. PICK kv, zset, set :
          /\ Puts(Applied(tasks[t]), nd, n, kv, zset, set)
          /\ tasks[t].op = "delete" =>
               /\ kv = Absent
               /\ zset = nd.zset[n] \ tasks[t].foundZ /\ set = nd.set[n] \ tasks[t].found
          /\ QueryStands(tasks[t], n) =>
               /\ kv = NextKv(tasks[t], n)
               /\ zset = NextZset(tasks[t], n) /\ set = NextSet(tasks[t], n)
    BY Zenon, <1>2, <2>1, Applying
  <2>3. Puts(nd', nd, n, kv, zset, set)
    BY Zenon, <2>1, <2>2
  <2>4. nd'.kv[n] = kv /\ nd'.zset[n] = zset /\ nd'.set[n] = set
    BY <2>3 DEF Puts
  <2>5. /\ stray' \in SUBSET Name
        /\ \A o \in Name \ {n} : o \in stray' <=> o \in stray
    BY <1>1, <2>1
  <2>6. NameInv(n)
    BY DEF DualInv
  <2>7. ASSUME n \notin stray' PROVE Mirrored(n)'
    <3>1. CASE n \notin stray
      <4>1. Mirrored(n)
        BY <2>6, <3>1 DEF NameInv
      <4>2. /\ On(n) = {t} /\ QueryStands(tasks[t], n)
            /\ sq.zset[n] = NextZset(tasks[t], n) /\ sq.set[n] = NextSet(tasks[t], n)
            /\ n \notin counting => KvAgree(sq.kv[n], NextKv(tasks[t], n))
        BY <1>6, <4>1 DEF Mirrored
      <4>3. /\ On(n)' = {} /\ sq'.zset[n] = nd'.zset[n] /\ sq'.set[n] = nd'.set[n]
            /\ n \notin counting' => KvAgree(sq'.kv[n], nd'.kv[n])
        BY <1>3, <1>6, <2>2, <2>4, <4>2
      <4>4. QED BY <4>3 DEF Mirrored
    <3>2. CASE n \in stray
      <4>1. /\ tasks[t].op = "delete" /\ tasks[t].sole
            /\ nd.zset[n] \subseteq tasks[t].foundZ /\ nd.set[n] \subseteq tasks[t].found
        BY <2>1, <2>7, <3>2
      <4>2. On(n) = {t} /\ sq.zset[n] = {} /\ sq.set[n] = {}
        BY <1>6, <2>6, <4>1 DEF NameInv, SoleIsAlone
      <4>3. nd'.zset[n] = {} /\ nd'.set[n] = {} /\ nd'.kv[n] = Absent
        BY <2>2, <2>4, <4>1
      <4>4. KvAgree(sq'.kv[n], nd'.kv[n])
        BY <4>3 DEF KvAgree, Absent
      <4>5. On(n)' = {} /\ sq'.zset[n] = nd'.zset[n] /\ sq'.set[n] = nd'.set[n]
        BY <1>3, <1>6, <4>2, <4>3
      <4>6. QED BY <4>4, <4>5 DEF Mirrored
    <3>3. QED BY <3>1, <3>2
  <2>8. tasks' = [tasks EXCEPT ![t] = mine] /\ tasks[t].pc # "ended"
    BY <1>3, <1>4
  <2>9. QED BY <1>2, <1>3, <1>4, <1>5, <2>3, <2>5, <2>7, <2>8, OneTaskMoves
<1>9. QED BY <1>7, <1>8

(* The process dies: no name has a task any more, and those that had one are   *)
(* known to have gone astray.                                                  *)
LEMMA Losing ==
  ASSUME DualInv, LoseTasks
  PROVE  DualInv'
<1>1. /\ tasks \in Seq(MirrorTask) /\ DOMAIN tasks = 1..Len(tasks) /\ Len(tasks) \in Nat
      /\ \A t \in DOMAIN tasks : ArgumentFits(tasks[t]) /\ tasks[t] \in MirrorTask
      /\ counting \in SUBSET Name /\ stray \in SUBSET Name
  BY TasksKnown DEF DualInv, DualType
<1>2. PICK lost \in SUBSET DOMAIN tasks :
        /\ lost = {t \in DOMAIN tasks : ~Ended(t)}
        /\ tasks' = [t \in DOMAIN tasks |-> IF t \in lost THEN Closed(t) ELSE tasks[t]]
        /\ counting' = {} /\ sq' = sq /\ nd' = nd /\ writes' = writes
        /\ stray' = stray \cup {tasks[t].name : t \in lost} \cup counting
  BY Zenon DEF LoseTasks
<1>3. ASSUME NEW t \in DOMAIN tasks
      PROVE  Closed(t) \in MirrorTask /\ Closed(t).pc = "ended" /\ Closed(t).op = "none"
  <2>1. PICK n \in Name : n = tasks[t].name
    BY <1>1, <1>3 DEF MirrorTask
  <2>2. 0 \in Nat \cup Member \cup Item /\ "none" \in MirrorOps /\ "none" \in Life
    BY DEF MirrorOps, Life
  <2>3. PICK p \in MirrorTask : p = Task("none", n, 0, "none") /\ p.op = "none"
    BY <2>2, NewTask
  <2>4. [p EXCEPT !.pc = "ended"] \in MirrorTask /\ [p EXCEPT !.pc = "ended"].pc = "ended"
        /\ [p EXCEPT !.pc = "ended"].op = "none"
    BY <2>3 DEF MirrorTask
  <2>5. QED BY <2>1, <2>3, <2>4 DEF Closed
<1>4. /\ DOMAIN tasks' = DOMAIN tasks
      /\ \A t \in DOMAIN tasks : /\ tasks'[t] \in MirrorTask /\ tasks'[t].pc = "ended"
                                 /\ ArgumentFits(tasks'[t])
  <2>1. DOMAIN tasks' = DOMAIN tasks
    BY <1>2
  <2>2. ASSUME NEW t \in DOMAIN tasks
        PROVE  tasks'[t] \in MirrorTask /\ tasks'[t].pc = "ended" /\ ArgumentFits(tasks'[t])
    <3>1. CASE t \in lost
      BY <1>2, <1>3, <3>1 DEF ArgumentFits
    <3>2. CASE t \notin lost
      BY <1>1, <1>2, <3>2 DEF Ended
    <3>3. QED BY <3>1, <3>2
  <2>3. QED BY <2>1, <2>2
<1>5. tasks' \in Seq(MirrorTask)
  <2>1. tasks' \in [1..Len(tasks) -> MirrorTask]
    BY <1>1, <1>2, <1>4
  <2>2. QED BY <1>1, <2>1
<1>6. \A n : On(n)' = {}
  BY <1>4 DEF On, Ended
<1>7. /\ stray' \in SUBSET Name /\ stray \subseteq stray' /\ counting \subseteq stray'
      /\ \A n : n \notin stray' => On(n) = {}
  <2>1. {tasks[t].name : t \in lost} \subseteq Name
    BY <1>1, <1>2 DEF MirrorTask
  <2>2. ASSUME NEW n, n \notin stray' PROVE On(n) = {}
    BY <1>2, <2>2 DEF On
  <2>3. QED BY <1>1, <1>2, <2>1, <2>2
<1>8. DualType'
  <2>1. counting' \in SUBSET Name
    BY <1>2
  <2>2. QED BY <1>2, <1>4, <1>5, <1>7, <2>1 DEF DualInv, DualType
<1>9. ASSUME NEW n \in Name PROVE NameInv(n)'
  <2>1. SoleIsAlone(n)'
    BY <1>6 DEF SoleIsAlone
  <2>2. ASSUME n \notin stray' PROVE Mirrored(n)'
    <3>1. n \notin stray /\ n \notin counting /\ On(n) = {}
      BY <1>7, <2>2
    <3>2. /\ sq.zset[n] = nd.zset[n] /\ sq.set[n] = nd.set[n] /\ KvAgree(sq.kv[n], nd.kv[n])
      BY <3>1 DEF DualInv, NameInv, Mirrored
    <3>3. KvAgree(sq'.kv[n], nd'.kv[n])
      BY <1>2, <3>2
    <3>4. QED BY <1>2, <1>6, <3>2, <3>3 DEF Mirrored
  <2>3. QED BY <2>1, <2>2 DEF NameInv
<1>10. QED BY <1>8, <1>9 DEF DualInv

LEMMA DualStays == DualInv /\ [Next]_vars => DualInv'
<1> SUFFICES ASSUME DualInv, [Next]_vars PROVE DualInv'
  OBVIOUS
<1>1. ASSUME UNCHANGED dual PROVE DualInv'
  <2>1. /\ sq' = sq /\ nd' = nd /\ tasks' = tasks /\ writes' = writes /\ counting' = counting
        /\ stray' = stray /\ \A n : On(n)' = On(n)
    BY <1>1 DEF dual, On, Ended
  <2>2. DualType'
    BY <2>1 DEF DualInv, DualType
  <2>3. ASSUME NEW n \in Name PROVE NameInv(n)'
    BY <2>1, NameUntouched DEF DualInv
  <2>4. QED BY <2>2, <2>3 DEF DualInv
<1>2. ASSUME DualNext PROVE DualInv'
  <2>1. ASSUME NEW n \in Name,
               SetKey(n) \/ DeleteKey(n) \/ ExpireKey(n) \/ AddMember(n) \/ RemoveMember(n)
                 \/ TrimZset(n)
        PROVE  DualInv'
    BY <2>1, Writes
  <2>2. ASSUME NEW n \in Name, RaiseCount(n) \/ ReadCount(n) PROVE DualInv'
    BY <2>2, Counting
  <2>3. ASSUME NEW n \in Name, TimePasses(n) PROVE DualInv'
    BY <2>3, Expiring
  <2>4. ASSUME LoseTasks PROVE DualInv'
    BY <2>4, Losing
  <2>5. ASSUME NEW t \in DOMAIN tasks, Start(t) \/ Query(t) \/ Sweep(t) PROVE DualInv'
    BY <2>5, Asking
  <2>6. ASSUME NEW t \in DOMAIN tasks, Apply(t) \/ Fail(t) PROVE DualInv'
    BY <2>6, Finishing
  <2>7. QED BY Zenon, <1>2, <2>1, <2>2, <2>3, <2>4, <2>5, <2>6 DEF DualNext, TaskStep
<1>3. QED BY Zenon, <1>1, <1>2 DEF Next, Mirroring, Backfilling, Migrating, vars

(* A read of a name that no task is working on and that nothing is known to     *)
(* have gone wrong with returns from the dual store what SQLite holds, for any  *)
(* number of names, values, slots and writes, whatever order the tasks reach    *)
(* nedbd in and whenever the process dies (dual_store.py, get, smembers,        *)
(* zrevrange and _fire).                                                        *)
THEOREM CopiesAgree == Spec => []ReadsAgree
<1>1. Init => DualInv
  BY DualStarts
<1>2. DualInv /\ [Next]_vars => DualInv'
  BY DualStays
<1>3. DualInv => ReadsAgree
  <2> SUFFICES ASSUME DualInv, NEW n \in Name \ (stray \cup counting), On(n) = {}
               PROVE  /\ \/ DualGet(n) = Get(sq, n)
                         \/ sq.kv[n].life = "over" /\ nd.kv[n].life = "timed"
                      /\ DualMembers(n) = sq.set[n] /\ DualRanked(n) = sq.zset[n]
    BY DEF ReadsAgree
  <2>1. /\ sq.zset[n] = nd.zset[n] /\ sq.set[n] = nd.set[n] /\ KvAgree(sq.kv[n], nd.kv[n])
    BY DEF DualInv, NameInv, Mirrored
  <2>2. sq.kv[n].life \in Life /\ nd.kv[n].life \in Life
    BY DEF DualInv, DualType, Content, Entry
  <2>3. ASSUME nd.kv[n].life \in {"none", "over"} PROVE DualGet(n) = Get(sq, n)
    <3>1. NdGet(n) = 0
      BY <2>3 DEF NdGet, Get, Live
    <3>2. QED BY <3>1 DEF DualGet
  <2>4. ASSUME nd.kv[n].life = "forever" \/ (nd.kv[n].life = "timed" /\ sq.kv[n].life # "over")
        PROVE  DualGet(n) = Get(sq, n)
    <3>1. Live(sq.kv[n]) /\ Live(nd.kv[n]) /\ sq.kv[n].value = nd.kv[n].value
      BY <2>1, <2>2, <2>4 DEF KvAgree, Live, Life
    <3>2. NdGet(n) = nd.kv[n].value /\ Get(sq, n) = sq.kv[n].value
      BY <3>1 DEF NdGet, Get
    <3>3. QED BY <3>1, <3>2 DEF DualGet
  <2>5. nd.kv[n].life \in {"none", "over", "forever", "timed"}
    BY <2>2 DEF Life
  <2>6. \/ DualGet(n) = Get(sq, n)
        \/ sq.kv[n].life = "over" /\ nd.kv[n].life = "timed"
    BY <2>3, <2>4, <2>5
  <2>7. QED BY <2>1, <2>6 DEF DualMembers, DualRanked, NdMembers, NdRanked
<1>4. QED BY <1>1, <1>2, <1>3, PTL DEF Spec

-----------------------------------------------------------------------------
(* The type invariant of the composition *)

\* No height outside the chain is reached, and a range has two ends in it.
InChain ==
  /\ tip \in Heights /\ blocks \subseteq Heights
  /\ missed \subseteq Heights /\ tips \subseteq Heights
  /\ cursor # NoCursor => cursor.lowest \in Heights /\ cursor.highest \in Heights
  /\ IF task.pc = "stopped" THEN task.lowest = -1
     ELSE task.lowest \in Heights /\ task.highest \in Heights
  /\ task.pc = "down" => task.bottom >= -1
  /\ task.pc = "up" => task.newTip <= MaxTip

LEMMA HeightsStayInChain == IInv /\ InChain /\ BackfillNext => InChain'
<1> SUFFICES ASSUME IInv, InChain, BackfillNext PROVE InChain'
  OBVIOUS
<1>1. /\ task \in TaskType /\ MaxTip \in Nat /\ BlocksPerBatch \in Nat
      /\ cursor \in [lowest : Int, highest : Int]
      /\ \A h : h \in Heights <=> h \in Int /\ 0 <= h /\ h <= MaxTip
  BY BackfillAssumption DEF IInv, BackfillType, Heights
<1>2. /\ task.lowest \in Int /\ task.highest \in Int /\ task.current \in Int
      /\ task.next \in Int /\ task.bottom \in Int /\ task.newTip \in Int
  BY <1>1 DEF TaskType
<1>3. CASE TipRises
  <2>1. tip' \in Heights
    BY <1>1, <1>3 DEF TipRises, InChain
  <2>2. QED BY <1>3, <2>1 DEF TipRises, InChain
<1>4. CASE StartRun
  <2>1. PICK saved \in {cursor, NoCursor} : Resume(saved) /\ UNCHANGED <<tip, blocks, cursor, missed>>
    BY <1>4 DEF StartRun
  <2>2. CASE saved.highest < 0
    <3>1. /\ task' = [Stopped EXCEPT !.pc = "batch", !.lowest = tip, !.highest = tip,
                                     !.current = tip - 1]
          /\ tips' = tips \cup {tip}
      BY <2>1, <2>2 DEF Resume
    <3>2. tip \in Int
      BY <1>1 DEF InChain
    <3>3. task'.pc = "batch" /\ task'.lowest = tip /\ task'.highest = tip
      BY <3>1, <3>2, ResumedTask
    <3>4. QED BY <2>1, <3>1, <3>3 DEF InChain
  <2>3. CASE ~(saved.highest < 0)
    <3>1. saved = cursor /\ cursor # NoCursor
      BY <2>1, <2>3 DEF NoCursor
    <3>2. /\ task' = [Stopped EXCEPT !.pc = "batch", !.lowest = cursor.lowest,
                                     !.highest = cursor.highest,
                                     !.current = cursor.lowest - 1]
          /\ tips' = tips
      BY <2>1, <2>3, <3>1 DEF Resume
    <3>3. /\ task'.pc = "batch" /\ task'.lowest = cursor.lowest
          /\ task'.highest = cursor.highest
      BY <1>1, <3>2, ResumedTask
    <3>4. QED BY <2>1, <3>1, <3>2, <3>3 DEF InChain
  <2>4. QED BY <2>2, <2>3
<1>5. CASE StopTask
  BY <1>5 DEF StopTask, InChain
<1>6. CASE KillTask
  <2>1. task'.pc = "stopped" /\ task'.lowest = -1
    BY <1>6 DEF KillTask, Stopped
  <2>2. QED BY <1>6, <2>1 DEF KillTask, InChain
<1>7. CASE BeginBatch
  <2> DEFINE bottom == IF task.current - BlocksPerBatch > -1
                       THEN task.current - BlocksPerBatch ELSE -1
  <2>1. bottom \in Int /\ bottom >= -1
    BY <1>1, <1>2
  <2>2. /\ task.pc = "batch"
        /\ task' = [task EXCEPT !.pc = "down", !.next = task.current, !.wrote = FALSE,
                                !.bottom = bottom]
        /\ UNCHANGED <<tip, blocks, cursor, missed, tips>>
    BY <1>7 DEF BeginBatch
  <2> HIDE DEF bottom
  <2>3. /\ task'.pc = "down" /\ task'.bottom = bottom
        /\ task'.lowest = task.lowest /\ task'.highest = task.highest
    BY <1>1, <2>2 DEF TaskType
  <2>4. QED BY <2>1, <2>2, <2>3 DEF InChain
<1>8. CASE Backward
  <2>1. /\ task.pc = "down" /\ task.next > task.bottom /\ task.next = task.lowest - 1
        /\ UNCHANGED <<tip, cursor, tips>>
        /\ blocks' \subseteq blocks \cup {task.next} /\ missed' \subseteq missed \cup {task.next}
    BY <1>8 DEF Backward, IInv, NextAdjoinsRange
  <2>2. task.next \in Heights
    BY <1>1, <1>2, <2>1 DEF InChain
  <2>3. /\ task'.pc = "down" /\ task'.bottom = task.bottom
        /\ task'.lowest = task.next /\ task'.highest = task.highest
    <3>1. \/ task' = [task EXCEPT !.lowest = task.next, !.next = task.next - 1,
                                  !.wrote = TRUE]
          \/ task' = [task EXCEPT !.lowest = task.next, !.next = task.next - 1]
      BY <1>8 DEF Backward
    <3>2. QED BY <1>1, <2>1, <3>1 DEF TaskType
  <2>4. QED BY <2>1, <2>2, <2>3 DEF InChain
<1>9. CASE EndBatch
  <2>1. /\ task.pc = "down" /\ UNCHANGED <<tip, blocks, missed, tips>>
        /\ cursor' \in {cursor, [lowest |-> task.lowest, highest |-> task.highest]}
    BY <1>9 DEF EndBatch, Saved
  <2>2. /\ task'.pc = "up" /\ task'.newTip = tip
        /\ task'.lowest = task.lowest /\ task'.highest = task.highest
    <3>1. task' = [task EXCEPT !.pc = "up", !.current = task.lowest - 1,
                               !.next = task.highest + 1, !.newTip = tip]
      BY <1>9 DEF EndBatch
    <3>2. QED BY <1>1, <3>1 DEF TaskType
  <2>3. tip <= MaxTip
    BY <1>1 DEF InChain
  <2>4. QED BY <2>1, <2>2, <2>3 DEF InChain
<1>10. CASE Forward
  <2>1. /\ task.pc = "up" /\ task.next <= task.newTip /\ task.next > task.highest
        /\ UNCHANGED <<tip, cursor, tips>>
        /\ blocks' \subseteq blocks \cup {task.next} /\ missed' \subseteq missed \cup {task.next}
    BY <1>10 DEF Forward, IInv, NextAdjoinsRange
  <2>2. task.next \in Heights
    BY <1>1, <1>2, <2>1 DEF InChain
  <2>3. /\ task'.pc = "up" /\ task'.newTip = task.newTip
        /\ task'.lowest = task.lowest /\ task'.highest \in {task.next, task.highest}
    <3>1. \/ task' = [task EXCEPT !.highest = task.next, !.next = task.next + 1]
          \/ task' = [task EXCEPT !.next = task.next + 1]
      BY <1>10 DEF Forward
    <3>2. QED BY <1>1, <2>1, <3>1 DEF TaskType
  <2>4. QED BY <2>1, <2>2, <2>3 DEF InChain
<1>11. CASE EndForward
  <2>1. task.pc = "up" /\ task' = [task EXCEPT !.pc = "batch"]
    BY <1>11 DEF EndForward
  <2>2. task'.pc = "batch" /\ task'.lowest = task.lowest /\ task'.highest = task.highest
    BY <1>1, <2>1 DEF TaskType
  <2>3. QED BY <1>11, <2>1, <2>2 DEF EndForward, InChain
<1>12. CASE Finish
  <2>1. /\ task.pc = "batch" /\ UNCHANGED <<tip, blocks, missed, tips>>
        /\ cursor' \in {cursor, [lowest |-> task.lowest, highest |-> task.highest]}
    BY <1>12 DEF Finish, Saved
  <2>2. task'.pc = "stopped" /\ task'.lowest = -1
    BY <1>12 DEF Finish, Stopped
  <2>3. QED BY <2>1, <2>2 DEF InChain
<1>13. QED
  BY <1>3, <1>4, <1>5, <1>6, <1>7, <1>8, <1>9, <1>10, <1>11, <1>12
     DEF BackfillNext, BackfillStep

(* A write of the program, begun within the bound, makes one task. *)
LEMMA WriteFires ==
  ASSUME NEW n \in Name,
         \/ SetKey(n) \/ DeleteKey(n) \/ ExpireKey(n) \/ AddMember(n) \/ RemoveMember(n) \/ TrimZset(n)
  PROVE  /\ writes < MaxWrites /\ writes' = writes + 1 /\ counting' = counting
         /\ \E new \in MirrorTask : new.pc = "waiting" /\ ArgumentFits(new) /\ Fire(new)
<1> DEFINE Goal ==
      /\ writes < MaxWrites /\ writes' = writes + 1 /\ counting' = counting
      /\ \E new \in MirrorTask : new.pc = "waiting" /\ ArgumentFits(new) /\ Fire(new)
<1>1. ASSUME NEW op \in MirrorOps, NEW arg \in Nat \cup Member \cup Item, NEW life \in Life,
             NEW content, Write(content, Task(op, n, arg, life)),
             op # "none", op = "set" => arg \in Nat, op = "zadd" => arg \in Member,
             op \in {"sadd", "srem"} => arg \in Item
      PROVE  Goal
  <2>1. PICK new \in MirrorTask :
          /\ new = Task(op, n, arg, life) /\ new.op = op /\ new.arg = arg /\ new.pc = "waiting"
    BY NewTask
  <2>2. ArgumentFits(new)
    BY <1>1, <2>1 DEF ArgumentFits
  <2>3. Fire(new) /\ writes < MaxWrites /\ writes' = writes + 1 /\ counting' = counting
    BY <1>1, <2>1 DEF Write, WithinBound
  <2>4. QED BY <2>1, <2>2, <2>3
<1> HIDE DEF Goal
<1>2. /\ 0 \in Nat \cup Member \cup Item /\ "none" \in Life /\ "timed" \in Life
      /\ "forever" \in Life /\ {"set", "delete", "expire", "zadd", "zrem", "sadd", "srem"} \subseteq MirrorOps
  BY DEF Life, MirrorOps
<1>3. ASSUME SetKey(n) PROVE Goal
  <2>1. PICK v \in Value, life \in {"forever", "timed"} :
          Write(Set(sq, n, v, life), Task("set", n, v, life))
    BY <1>3 DEF SetKey
  <2>2. v \in Nat /\ v \in Nat \cup Member \cup Item /\ life \in Life
    BY <1>2, DualStoreAssumption
  <2>3. QED BY <1>1, <1>2, <2>1, <2>2
<1>4. ASSUME DeleteKey(n) PROVE Goal
  <2>1. Write(Delete(sq, n), Task("delete", n, 0, "none"))
    BY <1>4 DEF DeleteKey
  <2>2. QED BY <1>1, <1>2, <2>1
<1>5. ASSUME ExpireKey(n) PROVE Goal
  <2>1. Write(Expire(sq, n), Task("expire", n, 0, "timed"))
    BY <1>5 DEF ExpireKey
  <2>2. QED BY <1>1, <1>2, <2>1
<1>6. ASSUME AddMember(n) PROVE Goal
  <2>1. ASSUME NEW m \in Member, Write(Zadd(sq, n, m), Task("zadd", n, m, "none")) PROVE Goal
    <3>1. m \in Nat \cup Member \cup Item
      OBVIOUS
    <3>2. QED BY <1>1, <1>2, <2>1, <3>1
  <2>2. ASSUME NEW i \in Item, Write(Sadd(sq, n, i), Task("sadd", n, i, "none")) PROVE Goal
    <3>1. i \in Nat \cup Member \cup Item
      OBVIOUS
    <3>2. QED BY <1>1, <1>2, <2>2, <3>1
  <2>3. QED BY <1>6, <2>1, <2>2 DEF AddMember
<1>7. ASSUME RemoveMember(n) PROVE Goal
  <2>1. PICK i \in Item : Write(Srem(sq, n, i), Task("srem", n, i, "none"))
    BY <1>7 DEF RemoveMember
  <2>2. i \in Nat \cup Member \cup Item
    OBVIOUS
  <2>3. QED BY <1>1, <1>2, <2>1, <2>2
<1>8. ASSUME TrimZset(n) PROVE Goal
  <2>1. Write(ZremByRank(sq, n), Task("zrem", n, 0, "none"))
    BY <1>8 DEF TrimZset
  <2>2. QED BY <1>1, <1>2, <2>1
<1>9. Goal
  BY <1>3, <1>4, <1>5, <1>6, <1>7, <1>8
<1>10. QED BY <1>9 DEF Goal

Busy == {t \in DOMAIN tasks : Running(t)}

\* Every task, and every count still to be read back, is of a write within the
\* bound, and no more tasks are in flight than there are slots.
WithinSlots ==
  /\ writes <= MaxWrites /\ IsFiniteSet(counting)
  /\ Len(tasks) + Cardinality(counting) <= writes
  /\ Cardinality(Busy) <= Slots

LEMMA SlotsStay == DualInv /\ WithinSlots /\ DualNext => WithinSlots'
<1> SUFFICES ASSUME DualInv, WithinSlots, DualNext PROVE WithinSlots'
  OBVIOUS
<1>1. /\ tasks \in Seq(MirrorTask) /\ DOMAIN tasks = 1..Len(tasks) /\ Len(tasks) \in Nat
      /\ \A t \in DOMAIN tasks : ArgumentFits(tasks[t]) /\ tasks[t] \in MirrorTask
      /\ writes \in Nat /\ MaxWrites \in Nat /\ Slots \in Nat \ {0} /\ counting \in SUBSET Name
  BY TasksKnown, DualStoreAssumption DEF DualInv, DualType
<1>2. IsFiniteSet(counting) /\ Cardinality(counting) \in Nat
  BY FS_CardinalityType DEF WithinSlots
<1>3. IsFiniteSet(Busy) /\ Cardinality(Busy) \in Nat
  <2>1. IsFiniteSet(1..Len(tasks))
    BY <1>1, FS_Interval
  <2>2. Busy \subseteq 1..Len(tasks)
    BY <1>1 DEF Busy
  <2>3. QED BY <2>1, <2>2, FS_Subset, FS_CardinalityType
<1>4. /\ writes <= MaxWrites /\ Len(tasks) + Cardinality(counting) <= writes
      /\ Cardinality(Busy) <= Slots
  BY DEF WithinSlots
<1>5. ASSUME NEW new \in MirrorTask, new.pc = "waiting", ArgumentFits(new), Fire(new)
      PROVE  Len(tasks') = Len(tasks) + 1 /\ Busy' = Busy
  <2>1. /\ Len(tasks') = Len(tasks) + 1
        /\ {t \in DOMAIN tasks' : Running(t)'} = {t \in DOMAIN tasks : Running(t)}
    BY <1>1, <1>5, Firing
  <2>2. QED BY <2>1 DEF Busy
<1>6. ASSUME Len(tasks') = Len(tasks), Busy' \subseteq Busy, writes' = writes,
             counting' \subseteq counting
      PROVE  WithinSlots'
  <2>1. Cardinality(Busy') <= Cardinality(Busy) /\ Cardinality(Busy') \in Nat
    BY <1>3, <1>6, FS_Subset, FS_CardinalityType
  <2>2. /\ IsFiniteSet(counting') /\ Cardinality(counting') <= Cardinality(counting)
        /\ Cardinality(counting') \in Nat
    BY <1>2, <1>6, FS_Subset, FS_CardinalityType
  <2>3. Cardinality(Busy)' <= Slots
    BY <1>1, <1>3, <1>4, <2>1
  <2>4. (Len(tasks) + Cardinality(counting))' <= writes
    BY <1>1, <1>2, <1>4, <1>6, <2>2
  <2>5. QED BY <1>4, <1>6, <2>2, <2>3, <2>4 DEF WithinSlots
<1>7. ASSUME NEW n \in Name,
             SetKey(n) \/ DeleteKey(n) \/ ExpireKey(n) \/ AddMember(n) \/ RemoveMember(n)
               \/ TrimZset(n)
      PROVE  WithinSlots'
  <2>1. /\ writes < MaxWrites /\ writes' = writes + 1 /\ counting' = counting
        /\ \E new \in MirrorTask : new.pc = "waiting" /\ ArgumentFits(new) /\ Fire(new)
    BY <1>7, WriteFires
  <2>2. Len(tasks') = Len(tasks) + 1 /\ Busy' = Busy
    BY <1>5, <2>1
  <2>3. writes' <= MaxWrites
    BY <1>1, <2>1
  <2>4. (Len(tasks) + Cardinality(counting))' <= writes'
    BY <1>1, <1>2, <1>4, <2>1, <2>2
  <2>5. QED BY <1>2, <1>4, <2>1, <2>2, <2>3, <2>4 DEF WithinSlots
<1>8. ASSUME NEW n \in Name, RaiseCount(n) PROVE WithinSlots'
  <2>1. /\ writes < MaxWrites /\ writes' = writes + 1 /\ n \notin counting
        /\ counting' = counting \cup {n} /\ tasks' = tasks
    BY <1>8 DEF RaiseCount, WithinBound
  <2>2. IsFiniteSet(counting') /\ Cardinality(counting') = Cardinality(counting) + 1
    BY <1>2, <2>1, FS_AddElement
  <2>3. Busy' = Busy
    BY <2>1 DEF Busy, Running
  <2>4. writes' <= MaxWrites
    BY <1>1, <2>1
  <2>5. (Len(tasks) + Cardinality(counting))' <= writes'
    BY <1>1, <1>2, <1>4, <2>1, <2>2
  <2>6. QED BY <1>4, <2>2, <2>3, <2>4, <2>5 DEF WithinSlots
<1>9. ASSUME NEW n \in Name, ReadCount(n) PROVE WithinSlots'
  <2>1. /\ n \in counting /\ counting' = counting \ {n} /\ writes' = writes
        /\ Fire(Task("set", n, Counted(sq, n), "forever"))
    BY <1>9 DEF ReadCount
  <2>2. PICK v \in Nat : v = Counted(sq, n)
    BY Operations DEF DualInv, DualType, Counted, Entry
  <2>3. "set" \in MirrorOps /\ "forever" \in Life
    BY DEF MirrorOps, Life
  <2>4. PICK new \in MirrorTask :
          new = Task("set", n, v, "forever") /\ new.op = "set" /\ new.arg = v /\ new.pc = "waiting"
    BY <2>3, NewTask
  <2>5. ArgumentFits(new) /\ Fire(new)
    BY <2>1, <2>2, <2>4 DEF ArgumentFits
  <2>6. Len(tasks') = Len(tasks) + 1 /\ Busy' = Busy
    BY <1>5, <2>4, <2>5
  <2>7. IsFiniteSet(counting') /\ Cardinality(counting') = Cardinality(counting) - 1
    BY <1>2, <2>1, FS_RemoveElement
  <2>8. (Len(tasks) + Cardinality(counting))' <= writes
    BY <1>1, <1>2, <1>4, <2>6, <2>7
  <2>9. QED BY <1>4, <2>1, <2>6, <2>7, <2>8 DEF WithinSlots
<1>10. ASSUME NEW n \in Name, TimePasses(n) PROVE WithinSlots'
  <2>1. tasks' = tasks /\ writes' = writes /\ counting' = counting
    BY <1>10 DEF TimePasses
  <2>2. Busy' = Busy
    BY <2>1 DEF Busy, Running
  <2>3. QED BY <1>6, <2>1, <2>2
<1>11. ASSUME LoseTasks PROVE WithinSlots'
  <2>1. PICK lost :
          /\ lost = {t \in DOMAIN tasks : ~Ended(t)}
          /\ tasks' = [t \in DOMAIN tasks |-> IF t \in lost THEN Closed(t) ELSE tasks[t]]
          /\ counting' = {} /\ writes' = writes
    BY <1>11, Zenon DEF LoseTasks
  <2>2. DOMAIN tasks' = 1..Len(tasks)
    BY <1>1, <2>1
  <2>3. tasks' \in Seq(MirrorTask)
    BY <1>11, Losing DEF DualInv, DualType
  <2>4. Len(tasks') = Len(tasks)
    BY <1>1, <2>2, <2>3
  <2>5. ASSUME NEW t \in DOMAIN tasks PROVE ~Running(t)'
    <3>1. CASE t \in lost
      <4>1. tasks'[t] = Closed(t)
        BY <2>1, <3>1
      <4>2. Closed(t).pc = "ended"
        BY DEF Closed, Task
      <4>3. QED BY <4>1, <4>2 DEF Running
    <3>2. CASE t \notin lost
      BY <2>1, <3>2 DEF Running, Ended
    <3>3. QED BY <3>1, <3>2
  <2>6. Busy' \subseteq Busy
    BY <1>1, <2>2, <2>5 DEF Busy
  <2>7. QED BY <1>6, <2>1, <2>4, <2>6
<1>12. ASSUME NEW t \in DOMAIN tasks, Start(t) \/ Query(t) \/ Sweep(t) \/ Apply(t) \/ Fail(t)
       PROVE  WithinSlots'
  <2>1. writes' = writes /\ counting' = counting
    BY <1>12 DEF Start, Query, Sweep, Apply, Fail
  <2>2. /\ DOMAIN tasks' = DOMAIN tasks /\ Len(tasks') = Len(tasks)
        /\ \A k \in DOMAIN tasks : k # t => tasks'[k] = tasks[k]
    BY <1>1, <1>12 DEF Start, Query, Sweep, Apply, Fail
  <2>3. CASE Start(t)
    <3>1. Cardinality(Busy) < Slots /\ tasks[t].pc = "waiting"
      BY <2>3 DEF Start, Busy
    <3>2. tasks'[t].pc = "running"
      BY <1>1, <2>3 DEF Start, MirrorTask
    <3>3. t \notin Busy /\ Busy' = Busy \cup {t}
      BY <2>2, <3>1, <3>2 DEF Busy, Running
    <3>4. Cardinality(Busy)' = Cardinality(Busy) + 1
      BY <1>3, <3>3, FS_AddElement
    <3>5. Cardinality(Busy)' <= Slots
      BY <1>1, <1>3, <3>1, <3>4
    <3>6. QED BY <1>2, <1>4, <2>1, <2>2, <3>5 DEF WithinSlots
  <2>4. CASE ~Start(t)
    <3>1. Running(t)
      BY <1>12, <2>4 DEF Query, Sweep, Apply, Fail, Ready, Running
    <3>2. Busy' \subseteq Busy
      BY <2>2, <3>1 DEF Busy, Running
    <3>3. QED BY <1>6, <2>1, <2>2, <3>2
  <2>5. QED BY <2>3, <2>4
<1>13. QED BY Zenon, <1>7, <1>8, <1>9, <1>10, <1>11, <1>12 DEF DualNext, TaskStep

(* The stores keep their shape, the tasks their slots and the bound of the      *)
(* writes, the backfill stays on the chain, and nedbd has one row of a key.     *)
THEOREM MirrorTyped == Spec => []TypeOK
<1> DEFINE Typed == DualInv /\ WithinSlots /\ IInv /\ InChain /\ MigratorInv
<1>1. Init => Typed
  <2> SUFFICES ASSUME Init PROVE Typed
    OBVIOUS
  <2>1. DualInv /\ IInv /\ MigratorInv
    BY DualStarts, InitiallyCovered, MigratorStarts
  <2>2. WithinSlots
    <3>1. tasks = <<>> /\ writes = 0 /\ counting = {} /\ Len(tasks) = 0 /\ DOMAIN tasks = {}
      BY DEF Init, DualInit
    <3>2. Busy = {}
      BY <3>1 DEF Busy
    <3>3. IsFiniteSet({}) /\ Cardinality({}) = 0
      BY FS_EmptySet
    <3>4. 0 <= MaxWrites /\ 0 <= Slots
      BY DualStoreAssumption
    <3>5. QED BY <3>1, <3>2, <3>3, <3>4 DEF WithinSlots
  <2>3. InChain
    BY BackfillAssumption DEF Init, BackfillInit, InChain, Heights, Stopped, NoCursor
  <2>4. QED BY <2>1, <2>2, <2>3
<1>2. Typed /\ [Next]_vars => Typed'
  <2> SUFFICES ASSUME Typed, [Next]_vars PROVE Typed'
    OBVIOUS
  <2>1. DualInv' /\ IInv' /\ MigratorInv'
    BY DualStays, Step, MigratorStays
  <2>2. WithinSlots'
    <3>1. CASE UNCHANGED dual
      BY <3>1 DEF dual, WithinSlots, Busy, Running
    <3>2. CASE DualNext
      BY <3>2, SlotsStay
    <3>3. QED BY Zenon, <3>1, <3>2 DEF Next, Mirroring, Backfilling, Migrating, vars
  <2>3. InChain'
    <3>1. CASE UNCHANGED backfill
      BY <3>1 DEF backfill, InChain
    <3>2. CASE BackfillNext
      BY <3>2, HeightsStayInChain
    <3>3. QED BY Zenon, <3>1, <3>2 DEF Next, Mirroring, Backfilling, Migrating, vars
  <2>4. QED BY <2>1, <2>2, <2>3
<1>3. Typed => TypeOK
  <2> SUFFICES ASSUME Typed PROVE TypeOK
    OBVIOUS
  <2>1. \A store \in {sq, nd} :
          /\ store.kv \in [Name -> [value : Nat, life : Life]]
          /\ store.zset \in [Name -> SUBSET Member] /\ store.set \in [Name -> SUBSET Item]
    BY DEF DualInv, DualType, Content, Entry
  <2>2. Len(tasks) <= MaxWrites /\ stray \cup counting \subseteq Name
    <3>1. /\ tasks \in Seq(MirrorTask) /\ Len(tasks) \in Nat /\ writes \in Nat /\ MaxWrites \in Nat
          /\ stray \in SUBSET Name /\ counting \in SUBSET Name
      BY DualStoreAssumption DEF DualInv, DualType
    <3>2. Cardinality(counting) \in Nat
      BY FS_CardinalityType DEF WithinSlots
    <3>3. QED BY <3>1, <3>2 DEF WithinSlots
  <2>3. Cardinality({t \in DOMAIN tasks : Running(t)}) <= Slots
    BY DEF WithinSlots, Busy
  <2>4. /\ tip \in Heights /\ blocks \subseteq Heights
        /\ missed \subseteq Heights /\ tips \subseteq Heights
    BY DEF InChain
  <2>5. cursor.lowest \in -1..MaxTip /\ cursor.highest \in -1..MaxTip
    BY BackfillAssumption DEF InChain, NoCursor, Heights
  <2>6. task.pc \in {"stopped", "batch", "down", "up"} /\ task.lowest \in -1..MaxTip
    BY BackfillAssumption DEF InChain, Heights, IInv, BackfillType, TaskType
  <2>7. /\ script.pc \in {"off", "chunk", "send"} /\ done \in Nat
        /\ \A r, s \in copy : r.key = s.key => r = s
    BY DEF MigratorInv, MigratorType, ScriptType, KeysDiffer
  <2>8. QED BY <2>1, <2>2, <2>3, <2>4, <2>5, <2>6, <2>7 DEF TypeOK
<1>4. QED BY <1>1, <1>2, <1>3, PTL DEF Spec
=============================================================================
