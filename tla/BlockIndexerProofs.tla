------------------------- MODULE BlockIndexerProofs -------------------------
(***************************************************************************)
(* Proofs about BlockIndexer, for every chain, window, batch size and      *)
(* bound on failures.                                                      *)
(***************************************************************************)
EXTENDS BlockIndexer, ChainProofs, FiniteSetTheorems, SequenceTheorems, TLAPS

Storing == {"storeHeight", "storeBody", "storeRecent"}

(* A height's key holds a hash of that height, so an orphaned body that is
   deleted is listed nowhere else. *)
ListedAtItsHeight ==
  \A h \in 0..MaxChain : byHeight[h] # Absent => Len(byHeight[h]) = h

(* From the poll to the move of the pointer, the tick works from just above
   the pointer. *)
StartsAbovePointer ==
  pc \in Storing \cup {"check", "fetch", "trim", "advance"} =>
    start = pointer + 1

(* While a range is stored, the heights counted by stored are complete, the
   queue continues right above them, and its head is as far as pc says. *)
RangeIsContiguous ==
  /\ pc \in Storing \cup {"trim", "advance"} =>
       /\ stored >= pointer
       /\ \A h \in start..stored : byHeight[h] # Absent /\ byHeight[h] \in bodies
  /\ pc \in Storing => \A i \in 1..Len(queue) : Len(queue[i]) = stored + i
  /\ pc \in {"storeBody", "storeRecent"} =>
       queue # <<>> /\ byHeight[stored + 1] = queue[1]
  /\ pc = "storeRecent" => queue[1] \in bodies

(* A rollback works on one height at or below the pointer, which has lost its
   hash once the first of the three writes is done. *)
RollbackInProgress ==
  /\ pc \in {"dropHeight", "dropBody", "rewind"} => Len(doomed) \in 1..pointer
  /\ pc \in {"dropBody", "rewind"} => byHeight[Len(doomed)] = Absent

(* Without crashes and failed writes the only hole is the one a rollback has
   just made. *)
OnlyHoleIsDoomed ==
  badWrites = 0 /\ crashes = 0 =>
    \A h \in 0..pointer :
      byHeight[h] = Absent => pc \in {"dropBody", "rewind"} /\ h = Len(doomed)

Counts == {faults, badWrites, crashes} \subseteq Nat

IInv == /\ TypeOK /\ chain \in BlockHash /\ Counts
        /\ ListedAtItsHeight /\ StartsAbovePointer /\ RangeIsContiguous
        /\ RollbackInProgress /\ OnlyHoleIsDoomed /\ BodyBehindHash

-----------------------------------------------------------------------------
(* FetchRange queues the hashes of consecutive heights from start on. *)
LEMMA FetchedIsContiguous ==
  ASSUME IInv, FetchRange
  PROVE  /\ queue' \in Seq(BlockHash)
         /\ \A i \in 1..Len(queue') : Len(queue'[i]) = start - 1 + i
<1> DEFINE found == {h \in start..LastToFetch : h <= TipHeight}
           top == IF LastToFetch <= TipHeight THEN LastToFetch ELSE TipHeight
           n == Cardinality(found)
<1>1. PICK k \in 0..n : queue' = [i \in 1..k |-> HashAt(start + i - 1)]
  BY DEF FetchRange
<1>2. TipHeight \in Nat /\ start \in Nat /\ LastToFetch \in Int /\ top \in Int
  BY HashHeight, BlockIndexerAssumption DEF IInv, TypeOK, TipHeight, LastToFetch
<1>3. found = start..top
  BY <1>2
<1>4. n = IF start > top THEN 0 ELSE top - start + 1
  <2> HIDE DEF top
  <2>1. Cardinality(start..top) = IF start > top THEN 0 ELSE top - start + 1
    BY <1>2, FS_Interval
  <2>2. QED BY <1>3, <2>1
<1>5. \A i \in 1..k : start + i - 1 \in 0..TipHeight
  BY <1>2, <1>4
<1>6. \A i \in 1..k : HashAt(start + i - 1) \in BlockHash
                        /\ Len(HashAt(start + i - 1)) = start - 1 + i
  <2>1. TAKE i \in 1..k
  <2>2. HashAt(start + i - 1) \in BlockHash
        /\ Len(HashAt(start + i - 1)) = start + i - 1
    BY <1>5, HashAtHeight DEF IInv
  <2>3. QED BY <1>2, <2>2
<1>7. k \in Nat
  <2>1. n \in Nat
    BY <1>2, <1>4
  <2>2. QED BY <2>1
<1>8. QED
  <2>1. Len(queue') = k /\ \A i \in 1..k : queue'[i] = HashAt(start + i - 1)
    BY <1>1, <1>7
  <2>2. queue' \in Seq(BlockHash)
    <3>1. queue' \in [1..k -> BlockHash]
      BY <1>1, <1>6
    <3>2. QED BY <1>7, <3>1
  <2>3. QED BY <1>6, <2>1, <2>2

(* The two facts above in the form the steps use. *)
LEMMA HashesHaveHeight ==
  /\ \A b \in BlockHash : Len(b) \in 0..MaxChain
  /\ <<>> \in BlockHash /\ Len(<<>>) = 0
BY HashHeight, HashIsPath, ChainAssumption

(* An empty database satisfies the invariant. *)
LEMMA InitEstablishes == Init => IInv
BY ChainAssumption, BlockIndexerAssumption, HashesHaveHeight
DEF Init, ChainInit, IInv, TypeOK, Counts, Storing, ListedAtItsHeight,
    StartsAbovePointer, RangeIsContiguous, RollbackInProgress,
    OnlyHoleIsDoomed, BodyBehindHash, Writing, Calling

-----------------------------------------------------------------------------
(* Every step of the loop, of the node and of a failure keeps the invariant.
   Only the writes of a range and of a rollback touch what it relates. *)
LEMMA StepPreserves ==
  ASSUME IInv, [Next]_vars
  PROVE  IInv'
<1>1. CASE Boot
  BY <1>1, HashesHaveHeight, ChainAssumption, BlockIndexerAssumption
  DEF IInv, TypeOK, Counts, Storing, ListedAtItsHeight, StartsAbovePointer,
        RangeIsContiguous, RollbackInProgress, OnlyHoleIsDoomed, BodyBehindHash,
        Writing, Calling, node, keys, local, count, At, Idle,
        Boot
<1>2. CASE PollTip
  BY <1>2, HashesHaveHeight, ChainAssumption, BlockIndexerAssumption
  DEF IInv, TypeOK, Counts, Storing, ListedAtItsHeight, StartsAbovePointer,
        RangeIsContiguous, RollbackInProgress, OnlyHoleIsDoomed, BodyBehindHash,
        Writing, Calling, node, keys, local, count, At, Idle,
        PollTip, TipHeight
<1>3. CASE ReorgFound
  BY <1>3, HashesHaveHeight, ChainAssumption, BlockIndexerAssumption
  DEF IInv, TypeOK, Counts, Storing, ListedAtItsHeight, StartsAbovePointer,
        RangeIsContiguous, RollbackInProgress, OnlyHoleIsDoomed, BodyBehindHash,
        Writing, Calling, node, keys, local, count, At, Idle,
        ReorgFound, Mismatched, Window
<1>4. CASE NoReorg
  BY <1>4, HashesHaveHeight, ChainAssumption, BlockIndexerAssumption
  DEF IInv, TypeOK, Counts, Storing, ListedAtItsHeight, StartsAbovePointer,
        RangeIsContiguous, RollbackInProgress, OnlyHoleIsDoomed, BodyBehindHash,
        Writing, Calling, node, keys, local, count, At, Idle,
        NoReorg
<1>5. CASE DropHeight
  BY <1>5, HashesHaveHeight, ChainAssumption, BlockIndexerAssumption
  DEF IInv, TypeOK, Counts, Storing, ListedAtItsHeight, StartsAbovePointer,
        RangeIsContiguous, RollbackInProgress, OnlyHoleIsDoomed, BodyBehindHash,
        Writing, Calling, node, keys, local, count, At, Idle,
        DropHeight
<1>6. CASE DropBody
  BY <1>6, HashesHaveHeight, ChainAssumption, BlockIndexerAssumption
  DEF IInv, TypeOK, Counts, Storing, ListedAtItsHeight, StartsAbovePointer,
        RangeIsContiguous, RollbackInProgress, OnlyHoleIsDoomed, BodyBehindHash,
        Writing, Calling, node, keys, local, count, At, Idle,
        DropBody
<1>7. CASE RewindPointer
  <2>1. /\ pc = "rewind" /\ pc' = "fetch"
        /\ pointer' = Len(doomed) - 1 /\ start' = Len(doomed)
        /\ UNCHANGED <<node, count, byHeight, bodies, recent, tipHeight, tipHash, phase,
                       tip, queue, stored, doomed, bestHash>>
    BY <1>7 DEF RewindPointer, At
  <2>2. Len(doomed) \in 1..pointer /\ pointer \in -1..MaxChain /\ MaxChain \in Nat
    BY <2>1, ChainAssumption DEF IInv, TypeOK, RollbackInProgress
  <2>3. /\ pointer' \in 0..pointer /\ pointer' \in -1..MaxChain
        /\ start' \in 0..(MaxChain + 1) /\ start' = pointer' + 1
    BY <2>1, <2>2
  <2>4. TypeOK' /\ (chain \in BlockHash)' /\ Counts' /\ ListedAtItsHeight'
    BY <2>1, <2>3 DEF IInv, TypeOK, Counts, ListedAtItsHeight, Writing, Calling, node, count
  <2>5. StartsAbovePointer' /\ RangeIsContiguous' /\ RollbackInProgress'
    BY <2>1, <2>3 DEF StartsAbovePointer, RangeIsContiguous, RollbackInProgress, Storing
  <2>6. BodyBehindHash'
    BY <2>1, <2>2, <2>3 DEF IInv, BodyBehindHash
  <2>7. OnlyHoleIsDoomed'
    <3>1. ASSUME badWrites = 0, crashes = 0, NEW h \in 0..pointer', byHeight[h] = Absent
          PROVE  FALSE
      <4>1. h \in 0..pointer /\ h # Len(doomed)
        BY <2>1, <2>2, <2>3
      <4>2. h = Len(doomed)
        BY <3>1, <4>1 DEF IInv, OnlyHoleIsDoomed
      <4>3. QED BY <4>1, <4>2
    <3>2. QED BY <2>1, <3>1 DEF OnlyHoleIsDoomed, count
  <2>8. QED BY <2>4, <2>5, <2>6, <2>7 DEF IInv
<1>8. CASE CaughtUp
  BY <1>8, HashesHaveHeight, ChainAssumption, BlockIndexerAssumption
  DEF IInv, TypeOK, Counts, Storing, ListedAtItsHeight, StartsAbovePointer,
        RangeIsContiguous, RollbackInProgress, OnlyHoleIsDoomed, BodyBehindHash,
        Writing, Calling, node, keys, local, count, At, Idle,
        CaughtUp
<1>9. CASE ReportCaughtUp
  BY <1>9, HashesHaveHeight, ChainAssumption, BlockIndexerAssumption
  DEF IInv, TypeOK, Counts, Storing, ListedAtItsHeight, StartsAbovePointer,
        RangeIsContiguous, RollbackInProgress, OnlyHoleIsDoomed, BodyBehindHash,
        Writing, Calling, node, keys, local, count, At, Idle,
        ReportCaughtUp
<1>10. CASE FetchRange
  <2>1. /\ queue' \in Seq(BlockHash)
        /\ \A i \in 1..Len(queue') : Len(queue'[i]) = start - 1 + i
    BY <1>10, FetchedIsContiguous
  <2>2. /\ pc = "fetch" /\ pc' = "storeHeight" /\ stored' = start - 1
        /\ UNCHANGED <<node, keys, badWrites, crashes, tip, start, doomed, bestHash>>
        /\ faults' \in {faults, faults + 1}
    BY <1>10 DEF FetchRange
  <2>3. start = pointer + 1
    BY <2>2 DEF IInv, StartsAbovePointer
  <2>4. QED
    BY <2>1, <2>2, <2>3, HashesHaveHeight, ChainAssumption, BlockIndexerAssumption
    DEF IInv, TypeOK, Counts, Storing, ListedAtItsHeight, StartsAbovePointer,
          RangeIsContiguous, RollbackInProgress, OnlyHoleIsDoomed, BodyBehindHash,
          Writing, Calling, node, keys, local, count, At, Idle
<1>11. CASE StoreHeight
  <2>1. queue # <<>> /\ Len(queue) >= 1 /\ Head(queue) = queue[1]
        /\ queue[1] \in BlockHash /\ Len(queue[1]) = stored + 1
    BY <1>11 DEF StoreHeight, At, IInv, TypeOK, RangeIsContiguous, Storing
  <2>2. /\ stored >= pointer /\ start = pointer + 1 /\ stored + 1 \in 0..MaxChain
    BY <1>11, <2>1, HashesHaveHeight
    DEF StoreHeight, At, IInv, TypeOK, RangeIsContiguous, StartsAbovePointer, Storing
  <2>3. byHeight' = [byHeight EXCEPT ![stored + 1] = queue[1]]
    BY <1>11, <2>1 DEF StoreHeight
  <2>4. /\ byHeight' \in [0..MaxChain -> BlockHash \cup {Absent}]
        /\ byHeight'[stored + 1] = queue[1]
        /\ \A h \in 0..MaxChain : h # stored + 1 => byHeight'[h] = byHeight[h]
    BY <2>1, <2>2, <2>3 DEF IInv, TypeOK
  <2>5. /\ pc = "storeHeight" /\ pc' = "storeBody"
        /\ UNCHANGED <<node, count, bodies, recent, pointer, tipHeight, tipHash,
                       phase, local>>
    BY <1>11 DEF StoreHeight, At
  <2>6. TypeOK' /\ (chain \in BlockHash)' /\ Counts'
    BY <2>1, <2>2, <2>4, <2>5, HashesHaveHeight, ChainAssumption, BlockIndexerAssumption
    DEF IInv, TypeOK, Counts, Writing, Calling, node, keys, local, count
  <2>7. ListedAtItsHeight'
    BY <2>1, <2>2, <2>4, <2>5, HashesHaveHeight, ChainAssumption, BlockIndexerAssumption
    DEF IInv, TypeOK, ListedAtItsHeight, keys
  <2>8. StartsAbovePointer'
    BY <2>1, <2>2, <2>4, <2>5
    DEF IInv, StartsAbovePointer, Storing, keys, local
  <2>9. RangeIsContiguous'
    BY <2>1, <2>2, <2>4, <2>5, HashesHaveHeight, ChainAssumption, BlockIndexerAssumption
    DEF IInv, TypeOK, RangeIsContiguous, StartsAbovePointer, Storing, keys, local
  <2>10. RollbackInProgress'
    BY <2>1, <2>2, <2>4, <2>5
    DEF IInv, RollbackInProgress, keys, local
  <2>11. OnlyHoleIsDoomed'
    BY <2>1, <2>2, <2>4, <2>5, HashesHaveHeight, ChainAssumption, BlockIndexerAssumption
    DEF IInv, TypeOK, OnlyHoleIsDoomed, Counts, keys, local, count
  <2>12. BodyBehindHash'
    <3>1. \A h \in 0..pointer : h \in 0..MaxChain /\ h # stored + 1
      BY <2>2, ChainAssumption DEF IInv, TypeOK
    <3>2. \A h \in 0..pointer : byHeight'[h] = byHeight[h]
      BY <2>4, <3>1
    <3>3. QED BY <2>5, <3>2 DEF IInv, BodyBehindHash
  <2>13. QED BY <2>6, <2>7, <2>8, <2>9, <2>10, <2>11, <2>12 DEF IInv
<1>12. CASE StoreBody
  BY <1>12, HashesHaveHeight, ChainAssumption, BlockIndexerAssumption
  DEF IInv, TypeOK, Counts, Storing, ListedAtItsHeight, StartsAbovePointer,
        RangeIsContiguous, RollbackInProgress, OnlyHoleIsDoomed, BodyBehindHash,
        Writing, Calling, node, keys, local, count, At, Idle,
        StoreBody
<1>13. CASE StoreRecent
  <2>1. queue # <<>> /\ Len(queue) \in Nat /\ Len(queue) >= 1
        /\ Head(queue) = queue[1]
        /\ queue[1] \in BlockHash /\ Len(queue[1]) = stored + 1
        /\ byHeight[stored + 1] = queue[1] /\ queue[1] \in bodies
    BY <1>13 DEF StoreRecent, At, IInv, TypeOK, RangeIsContiguous, Storing
  <2>2. Tail(queue) \in Seq(BlockHash) /\ Len(Tail(queue)) = Len(queue) - 1
        /\ \A i \in 1..Len(Tail(queue)) : Tail(queue)[i] = queue[i + 1]
    BY <2>1 DEF IInv, TypeOK
  <2>3. \A i \in 1..Len(queue) : Len(queue[i]) = stored + i
    BY <1>13 DEF StoreRecent, At, IInv, RangeIsContiguous, Storing
  <2>4. \A i \in 1..Len(Tail(queue)) : Len(Tail(queue)[i]) = stored + 1 + i
    <3>1. TAKE i \in 1..Len(Tail(queue))
    <3>2. i + 1 \in 1..Len(queue)
      BY <2>1, <2>2
    <3>3. Len(queue[i + 1]) = stored + (i + 1)
      BY <2>3, <3>2
    <3>4. QED BY <2>2, <3>3 DEF IInv, TypeOK
  <2>5. /\ pc = "storeRecent" /\ pc' = "storeHeight"
        /\ recent' = recent \cup {queue[1]}
        /\ stored' = stored + 1 /\ queue' = Tail(queue)
        /\ UNCHANGED <<node, count, byHeight, bodies, pointer, tipHeight, tipHash,
                       phase, tip, start, doomed, bestHash>>
    BY <1>13, <2>1 DEF StoreRecent, At
  <2>6. queue' \in Seq(BlockHash)
        /\ \A i \in 1..Len(queue') : Len(queue'[i]) = stored' + i
    BY <2>2, <2>4, <2>5
  <2>7. TypeOK' /\ (chain \in BlockHash)' /\ Counts'
    <3>1. stored' \in 0..MaxChain /\ recent' \subseteq BlockHash
      BY <2>1, <2>5, HashesHaveHeight DEF IInv, TypeOK
    <3>2. pc' \in Writing
      BY <2>5 DEF Writing
    <3>3. QED
      BY <2>5, <2>6, <3>1, <3>2, ChainAssumption
      DEF IInv, TypeOK, Counts, node, count
  <2>8. ListedAtItsHeight'
    BY <2>1, <2>5, <2>6, HashesHaveHeight, ChainAssumption, BlockIndexerAssumption
    DEF IInv, TypeOK, ListedAtItsHeight, keys
  <2>9. StartsAbovePointer'
    BY <2>1, <2>5, <2>6
    DEF IInv, StartsAbovePointer, Storing, keys, local
  <2>10. RangeIsContiguous'
    BY <2>1, <2>5, <2>6, HashesHaveHeight, ChainAssumption, BlockIndexerAssumption
    DEF IInv, TypeOK, RangeIsContiguous, StartsAbovePointer, Storing, keys, local
  <2>11. RollbackInProgress'
    BY <2>1, <2>5, <2>6
    DEF IInv, RollbackInProgress, keys, local
  <2>12. OnlyHoleIsDoomed'
    BY <2>1, <2>5, <2>6, HashesHaveHeight, ChainAssumption, BlockIndexerAssumption
    DEF IInv, TypeOK, OnlyHoleIsDoomed, Counts, keys, local, count
  <2>13. BodyBehindHash'
    BY <2>1, <2>5, <2>6, HashesHaveHeight, ChainAssumption, BlockIndexerAssumption
    DEF IInv, TypeOK, BodyBehindHash, keys
  <2>14. QED BY <2>7, <2>8, <2>9, <2>10, <2>11, <2>12, <2>13 DEF IInv
<1>14. CASE EndOfRange
  BY <1>14, HashesHaveHeight, ChainAssumption, BlockIndexerAssumption
  DEF IInv, TypeOK, Counts, Storing, ListedAtItsHeight, StartsAbovePointer,
        RangeIsContiguous, RollbackInProgress, OnlyHoleIsDoomed, BodyBehindHash,
        Writing, Calling, node, keys, local, count, At, Idle,
        EndOfRange
<1>15. CASE TrimRecent
  BY <1>15, HashesHaveHeight, ChainAssumption, BlockIndexerAssumption
  DEF IInv, TypeOK, Counts, Storing, ListedAtItsHeight, StartsAbovePointer,
        RangeIsContiguous, RollbackInProgress, OnlyHoleIsDoomed, BodyBehindHash,
        Writing, Calling, node, keys, local, count, At, Idle,
        TrimRecent
<1>16. CASE Advance
  BY <1>16, HashesHaveHeight, ChainAssumption, BlockIndexerAssumption
  DEF IInv, TypeOK, Counts, Storing, ListedAtItsHeight, StartsAbovePointer,
        RangeIsContiguous, RollbackInProgress, OnlyHoleIsDoomed, BodyBehindHash,
        Writing, Calling, node, keys, local, count, At, Idle,
        Advance
<1>17. CASE ReportProgress
  BY <1>17, HashesHaveHeight, ChainAssumption, BlockIndexerAssumption
  DEF IInv, TypeOK, Counts, Storing, ListedAtItsHeight, StartsAbovePointer,
        RangeIsContiguous, RollbackInProgress, OnlyHoleIsDoomed, BodyBehindHash,
        Writing, Calling, node, keys, local, count, At, Idle,
        ReportProgress
<1>18. CASE ReadBestHash
  BY <1>18, HashesHaveHeight, ChainAssumption, BlockIndexerAssumption
  DEF IInv, TypeOK, Counts, Storing, ListedAtItsHeight, StartsAbovePointer,
        RangeIsContiguous, RollbackInProgress, OnlyHoleIsDoomed, BodyBehindHash,
        Writing, Calling, node, keys, local, count, At, Idle,
        ReadBestHash, TipHash
<1>19. CASE SetTipHeight
  BY <1>19, HashesHaveHeight, ChainAssumption, BlockIndexerAssumption
  DEF IInv, TypeOK, Counts, Storing, ListedAtItsHeight, StartsAbovePointer,
        RangeIsContiguous, RollbackInProgress, OnlyHoleIsDoomed, BodyBehindHash,
        Writing, Calling, node, keys, local, count, At, Idle,
        SetTipHeight
<1>20. CASE SetTipHash
  BY <1>20, HashesHaveHeight, ChainAssumption, BlockIndexerAssumption
  DEF IInv, TypeOK, Counts, Storing, ListedAtItsHeight, StartsAbovePointer,
        RangeIsContiguous, RollbackInProgress, OnlyHoleIsDoomed, BodyBehindHash,
        Writing, Calling, node, keys, local, count, At, Idle,
        SetTipHash
<1>21. CASE ReportOffline
  BY <1>21, HashesHaveHeight, ChainAssumption, BlockIndexerAssumption
  DEF IInv, TypeOK, Counts, Storing, ListedAtItsHeight, StartsAbovePointer,
        RangeIsContiguous, RollbackInProgress, OnlyHoleIsDoomed, BodyBehindHash,
        Writing, Calling, node, keys, local, count, At, Idle,
        ReportOffline
<1>22. CASE CallFails
  <2>1. /\ faults' = faults + 1 /\ UNCHANGED <<node, keys, badWrites, crashes>>
        /\ \/ pc = "check" /\ pc' = "fetch" /\ UNCHANGED local
           \/ pc' \in {"offline", "poll"} /\ Idle
    BY <1>22 DEF CallFails
  <2>2. CASE pc = "check" /\ pc' = "fetch" /\ UNCHANGED local
    BY <2>1, <2>2, HashesHaveHeight, ChainAssumption, BlockIndexerAssumption
    DEF IInv, TypeOK, Counts, ListedAtItsHeight, StartsAbovePointer,
          RangeIsContiguous, RollbackInProgress, OnlyHoleIsDoomed, BodyBehindHash,
          Storing, Writing, Calling, node, keys, local, count, Idle
  <2>3. CASE pc' \in {"offline", "poll"} /\ Idle
    <3>1. TypeOK' /\ (chain \in BlockHash)' /\ Counts'
      BY <2>1, <2>3, HashesHaveHeight, ChainAssumption
      DEF IInv, TypeOK, Counts, Writing, Calling, node, keys, Idle
    <3>2. ListedAtItsHeight' /\ BodyBehindHash'
      BY <2>1 DEF IInv, ListedAtItsHeight, BodyBehindHash, keys
    <3>3. StartsAbovePointer' /\ RangeIsContiguous' /\ RollbackInProgress'
      BY <2>3 DEF StartsAbovePointer, RangeIsContiguous, RollbackInProgress, Storing
    <3>4. OnlyHoleIsDoomed'
      <4>1. pc \notin {"dropBody", "rewind"}
        BY <1>22 DEF CallFails, Calling
      <4>2. QED BY <2>1, <4>1 DEF IInv, OnlyHoleIsDoomed, keys
    <3>5. QED BY <3>1, <3>2, <3>3, <3>4 DEF IInv
  <2>4. QED BY <2>1, <2>2, <2>3
<1>23. CASE WriteFails
  <2>1. badWrites' = badWrites + 1 /\ UNCHANGED <<node, keys, faults, crashes>>
    BY <1>23 DEF WriteFails
  <2>2. CASE /\ pc \in {"storeHeight", "storeBody", "storeRecent"}
             /\ pc' = "storeHeight" /\ queue' = <<>>
             /\ UNCHANGED <<tip, start, stored, doomed, bestHash>>
    <3>1. TypeOK' /\ (chain \in BlockHash)' /\ Counts'
      BY <2>1, <2>2, HashesHaveHeight, ChainAssumption, BlockIndexerAssumption
      DEF IInv, TypeOK, Counts, Writing, Calling, node, keys, local, count
    <3>2. ListedAtItsHeight'
      BY <2>1, <2>2, HashesHaveHeight, ChainAssumption, BlockIndexerAssumption
      DEF IInv, TypeOK, ListedAtItsHeight, keys
    <3>3. StartsAbovePointer'
      BY <2>1, <2>2
      DEF IInv, StartsAbovePointer, Storing, keys, local
    <3>4. RangeIsContiguous'
      BY <2>1, <2>2, HashesHaveHeight, ChainAssumption, BlockIndexerAssumption
      DEF IInv, TypeOK, RangeIsContiguous, StartsAbovePointer, Storing, keys, local
    <3>5. RollbackInProgress'
      BY <2>1, <2>2
      DEF IInv, RollbackInProgress, keys, local
    <3>6. OnlyHoleIsDoomed'
      BY <2>1, <2>2, HashesHaveHeight, ChainAssumption, BlockIndexerAssumption
      DEF IInv, TypeOK, OnlyHoleIsDoomed, Counts, keys, local, count
    <3>7. BodyBehindHash'
      BY <2>1, <2>2, HashesHaveHeight, ChainAssumption, BlockIndexerAssumption
      DEF IInv, TypeOK, BodyBehindHash, keys
    <3>8. QED BY <3>1, <3>2, <3>3, <3>4, <3>5, <3>6, <3>7 DEF IInv
  <2>3. CASE pc = "offline" /\ pc' = "dead" /\ UNCHANGED local
    BY <2>1, <2>3, HashesHaveHeight, ChainAssumption, BlockIndexerAssumption
    DEF IInv, TypeOK, Counts, ListedAtItsHeight, StartsAbovePointer,
          RangeIsContiguous, RollbackInProgress, OnlyHoleIsDoomed, BodyBehindHash,
          Storing, Writing, Calling, node, keys, local, count, Idle
  <2>4. CASE pc' = "poll" /\ Idle
    BY <2>1, <2>4, HashesHaveHeight, ChainAssumption, BlockIndexerAssumption
    DEF IInv, TypeOK, Counts, ListedAtItsHeight, StartsAbovePointer,
          RangeIsContiguous, RollbackInProgress, OnlyHoleIsDoomed, BodyBehindHash,
          Storing, Writing, Calling, node, keys, local, count, Idle
  <2>5. QED BY <1>23, <2>2, <2>3, <2>4 DEF WriteFails
<1>24. CASE Crash
  BY <1>24, HashesHaveHeight, ChainAssumption, BlockIndexerAssumption
  DEF IInv, TypeOK, Counts, Storing, ListedAtItsHeight, StartsAbovePointer,
        RangeIsContiguous, RollbackInProgress, OnlyHoleIsDoomed, BodyBehindHash,
        Writing, Calling, node, keys, local, count, At, Idle,
        Crash
<1>25. CASE NodeStep
  <2>1. chain' \in BlockHash /\ UNCHANGED <<keys, pc, local, count>>
    BY <1>25, NodeKeepsChain DEF NodeStep, IInv
  <2>2. QED
    BY <2>1
    DEF IInv, TypeOK, Counts, Storing, ListedAtItsHeight, StartsAbovePointer,
          RangeIsContiguous, RollbackInProgress, OnlyHoleIsDoomed, BodyBehindHash,
          Writing, Calling, node, keys, local, count, At, Idle
<1>26. CASE UNCHANGED vars
  BY <1>26
  DEF IInv, TypeOK, Counts, Storing, ListedAtItsHeight, StartsAbovePointer,
        RangeIsContiguous, RollbackInProgress, OnlyHoleIsDoomed, BodyBehindHash,
        Writing, Calling, node, keys, local, count, At, Idle, vars
<1>27. QED
  BY <1>1, <1>2, <1>3, <1>4, <1>5, <1>6, <1>7, <1>8, <1>9, <1>10, <1>11, <1>12, <1>13, <1>14, <1>15, <1>16, <1>17, <1>18, <1>19, <1>20, <1>21, <1>22, <1>23, <1>24, <1>25, <1>26 DEF Next, Tick

-----------------------------------------------------------------------------
(* The inductive invariant holds of every behaviour of the block indexer. *)
THEOREM Invariant == Spec => []IInv
<1>1. Init => IInv
  BY InitEstablishes
<1>2. IInv /\ [Next]_vars => IInv'
  BY StepPreserves
<1>3. QED BY <1>1, <1>2, PTL DEF Spec

(* Every key holds a value of its kind, and the tick's variables stay in
   range, through crashes and failed writes. *)
THEOREM TypeCorrect == Spec => []TypeOK
<1>1. IInv => TypeOK
  BY DEF IInv
<1>2. QED BY <1>1, Invariant, PTL

(* A hash that BLOCK_BY_HEIGHT lists at or below the pointer has its
   BLOCK_BY_HASH, whatever failed between two writes. *)
THEOREM EveryListedHashHasBody == Spec => []BodyBehindHash
<1>1. IInv => BodyBehindHash
  BY DEF IInv
<1>2. QED BY <1>1, Invariant, PTL

(* As long as no write fails and the process does not die, every height up to
   INDEXER_LAST_HEIGHT is stored, however deep the reorganizations and however
   the node's calls fail. *)
THEOREM NoHoleWithoutFailedWrites == Spec => []UnbrokenNoHole
<1>1. IInv => UnbrokenNoHole
  BY DEF IInv, OnlyHoleIsDoomed, UnbrokenNoHole, NoHole
<1>2. QED BY <1>1, Invariant, PTL

(* One step of any action moves the pointer up over stored heights only, and
   down only to just below a height that has lost its hash. *)
PointerStep ==
  /\ \A h \in (pointer + 1)..pointer' :
       byHeight[h] # Absent /\ byHeight[h] \in bodies
  /\ pointer' < pointer => byHeight[pointer' + 1] = Absent

(* Only Advance and RewindPointer move the pointer. *)
LEMMA StepMovesPointerOverStored ==
  ASSUME IInv, [Next]_vars
  PROVE  [PointerStep]_vars
<1>1. CASE Advance
  <2>1. pointer' = stored /\ start = pointer + 1 /\ stored >= pointer
    BY <1>1 DEF Advance, At, IInv, StartsAbovePointer, RangeIsContiguous
  <2>2. \A h \in start..stored : byHeight[h] # Absent /\ byHeight[h] \in bodies
    BY <1>1 DEF Advance, At, IInv, RangeIsContiguous
  <2>3. pointer \in Int /\ stored \in Int
    BY DEF IInv, TypeOK
  <2>4. QED BY <2>1, <2>2, <2>3 DEF PointerStep
<1>2. CASE RewindPointer
  <2>1. pc = "rewind" /\ pointer' = Len(doomed) - 1
    BY <1>2 DEF RewindPointer, At
  <2>2. Len(doomed) \in 1..pointer /\ byHeight[Len(doomed)] = Absent /\ pointer \in Int
    BY <2>1 DEF IInv, RollbackInProgress, TypeOK
  <2>3. QED BY <2>1, <2>2 DEF PointerStep
<1>3. CASE UNCHANGED pointer
  BY <1>3, ChainAssumption DEF IInv, TypeOK, PointerStep
<1>4. [Next]_vars => Advance \/ RewindPointer \/ UNCHANGED pointer
  BY DEF Next, Tick, vars, keys, NodeStep, Boot, PollTip, ReorgFound, NoReorg,
     DropHeight, DropBody, CaughtUp, ReportCaughtUp, FetchRange, StoreHeight,
     StoreBody, StoreRecent, EndOfRange, TrimRecent, ReportProgress,
     ReadBestHash, SetTipHeight, SetTipHash, ReportOffline, CallFails,
     WriteFails, Crash
<1>5. QED BY <1>1, <1>2, <1>3, <1>4

(* The pointer's movements, whatever fails: "we must commit contiguously,
   never past a missing block". *)
THEOREM PointerStaysContiguous == Spec => PointerMovesOverStored
<1>1. IInv /\ [Next]_vars => [PointerStep]_vars
  BY StepMovesPointerOverStored
<1>2. [][PointerStep]_vars <=> PointerMovesOverStored
  BY PTL DEF PointerStep, PointerMovesOverStored
<1>3. QED BY <1>1, <1>2, Invariant, PTL DEF Spec
=============================================================================
