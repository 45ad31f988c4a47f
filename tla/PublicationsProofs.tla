------------------------- MODULE PublicationsProofs -------------------------
(***************************************************************************)
(* Proofs about Publications: the event bus, the streams and the webhook   *)
(* dispatcher, for every number of subscribers, queue size, course of the  *)
(* node and bound on failures.                                             *)
(***************************************************************************)
EXTENDS Publications, TLAPS

HeightOrNone == {Height[b] : b \in Best} \cup {0}
BestOrNone   == Best \cup {0}

Msg == [type : {"block", "sync", "mempool"}, height : HeightOrNone, hash : BestOrNone]

BusType ==
  /\ published \in Seq(Msg)
  /\ subscribed \subseteq Subscriber
  /\ queue \in [Subscriber -> Seq(Numbers)]
  /\ \A s \in Subscriber : Len(queue[s]) <= QueueSize

BlockType ==
  [pc : {"poll", "batch", "hash", "height", "tiphash", "announce"},
   tip : BestOrNone, hash : BestOrNone, prev : HeightOrNone]

PublishersType ==
  /\ best \in Best
  /\ tipHeight \in HeightOrNone /\ tipHash \in BestOrNone /\ indexed \in BestOrNone
  /\ phase \in {"syncing", "live", "rpc_offline"}
  /\ block \in BlockType /\ (block.pc # "poll" => block.tip \in Best)
  /\ mempool \in [pc : {"status", "build"}, left : 0..MaxMempool]
  /\ faults \in Nat /\ lost \in BOOLEAN

StreamType ==
  [pc : {"new", "height", "hash", "loop", "closed"}, height : HeightOrNone, hash : BestOrNone]

StreamsType ==
  /\ stream \in [Client -> StreamType]
  /\ gone \subseteq Client
  /\ forwarded \in [Client -> Numbers \cup {0}]

DispatchType ==
  [msg : Numbers \cup {0}, members : SUBSET Hook, retrying : SUBSET Hook,
   attempt : 0..MaxRetries]

WebhooksType ==
  /\ hooks \subseteq Hook
  /\ dispatch \in DispatchType
  /\ dispatch.members # {} => dispatch.msg \in Numbers
  /\ taken \in Numbers \cup {0}
  /\ added \in [Hook -> Numbers \cup {0, -1}]
  /\ removed \in [Hook -> Numbers \cup {0, -1}]
  /\ got \in [Hook -> Seq(Numbers)]
  /\ gaveUp \subseteq Hook \X Numbers

Types == BusType /\ PublishersType /\ StreamsType /\ WebhooksType

LEMMA TypesSuffice == Types => TypeOK
BY DEF Types, TypeOK, BusType, PublishersType, StreamsType, WebhooksType, Msg, HeightOrNone,
       BestOrNone, BlockType, StreamType, DispatchType

-----------------------------------------------------------------------------
(* The bus.  A queue goes on after the last message its reader took, and ends
   at the last message published while it is on the bus. *)
NoGap(s, last) ==
  /\ \A i \in DOMAIN queue[s] : queue[s][i] = last + i
  /\ s \in subscribed => last + Len(queue[s]) = Len(published)

(* What publishing does to every queue at once. *)
LEMMA PublishType ==
  ASSUME BusType, NEW msg \in Msg, Publish(msg)
  PROVE  /\ BusType'
         /\ Numbers \subseteq Numbers' /\ Len(published)' = Len(published) + 1
         /\ \A n \in Numbers : published'[n] = published[n]
         /\ published'[Len(published) + 1] = msg
<1>1. /\ published' \in Seq(Msg) /\ Len(published) \in Nat
      /\ Len(published') = Len(published) + 1
      /\ \A n \in 1..Len(published) : published'[n] = published[n]
      /\ published'[Len(published) + 1] = msg
  BY DEF BusType, Publish
<1>2. Numbers \subseteq Numbers' /\ Len(published) + 1 \in Numbers'
  BY <1>1 DEF Numbers
<1>3. ASSUME NEW s \in Subscriber
      PROVE  queue'[s] \in Seq(Numbers') /\ Len(queue'[s]) <= QueueSize
  <2>1. queue[s] \in Seq(Numbers') /\ Len(queue[s]) <= QueueSize /\ Len(queue[s]) \in Nat
    BY <1>2 DEF BusType
  <2>2. CASE s \in subscribed /\ ~Full(s)
    <3>1. queue'[s] = Append(queue[s], Len(published) + 1)
      BY <2>2 DEF Publish
    <3>2. QED BY <1>2, <2>1, <2>2, <3>1, BusAssumption DEF Full
  <2>3. CASE ~(s \in subscribed /\ ~Full(s))
    <3>1. queue'[s] = queue[s]
      BY <2>3 DEF Publish
    <3>2. QED BY <2>1, <3>1
  <2>4. QED BY <2>2, <2>3
<1>4. subscribed' \subseteq Subscriber
  BY DEF BusType, Publish
<1>5. queue' \in [Subscriber -> Seq(Numbers')]
  BY <1>3 DEF Publish
<1>6. QED BY <1>1, <1>2, <1>3, <1>4, <1>5 DEF BusType, Numbers

LEMMA PublishNoGap ==
  ASSUME BusType, NEW msg \in Msg, Publish(msg),
         NEW s \in Subscriber, NEW last \in Nat, NoGap(s, last)
  PROVE  NoGap(s, last)'
<1>1. /\ Len(published) \in Nat /\ Len(published') = Len(published) + 1
      /\ queue[s] \in Seq(Numbers) /\ Len(queue[s]) \in Nat
  BY DEF BusType, Publish
<1>2. CASE s \in subscribed /\ ~Full(s)
  <2>1. queue'[s] = Append(queue[s], Len(published) + 1)
    BY <1>2 DEF Publish
  <2>2. /\ DOMAIN queue'[s] = 1..(Len(queue[s]) + 1) /\ Len(queue'[s]) = Len(queue[s]) + 1
        /\ DOMAIN queue[s] = 1..Len(queue[s])
        /\ \A i \in 1..Len(queue[s]) : queue'[s][i] = queue[s][i]
        /\ queue'[s][Len(queue[s]) + 1] = Len(published) + 1
    BY <1>1, <2>1
  <2>3. \A i \in 1..(Len(queue[s]) + 1) : i \in 1..Len(queue[s]) \/ i = Len(queue[s]) + 1
    BY <1>1
  <2>4. last + (Len(queue[s]) + 1) = Len(published) + 1
    BY <1>1, <1>2 DEF NoGap
  <2>5. QED BY <1>1, <2>2, <2>3, <2>4 DEF NoGap
<1>3. CASE ~(s \in subscribed /\ ~Full(s))
  <2>1. queue'[s] = queue[s] /\ s \notin subscribed'
    BY <1>3 DEF Publish
  <2>2. QED BY <2>1 DEF NoGap
<1>4. QED BY <1>2, <1>3

LEMMA TakeFromQueue ==
  ASSUME BusType, NEW s \in Subscriber, NEW last \in Nat, NoGap(s, last), Take(s)
  PROVE  /\ Head(queue[s]) = last + 1 /\ last + 1 \in Numbers
         /\ NoGap(s, last + 1)' /\ BusType'
         /\ \A o \in Subscriber \ {s}, l \in Nat : NoGap(o, l) => NoGap(o, l)'
<1>1. /\ queue[s] # <<>> /\ queue' = [queue EXCEPT ![s] = Tail(queue[s])]
      /\ UNCHANGED <<published, subscribed>>
  BY DEF Take
<1>2. queue \in [Subscriber -> Seq(Numbers)] /\ Len(queue[s]) <= QueueSize
  BY DEF BusType
<1>3. /\ Len(queue[s]) \in Nat \ {0} /\ Head(queue[s]) = queue[s][1] /\ 1 \in DOMAIN queue[s]
      /\ Head(queue[s]) \in Numbers /\ DOMAIN queue[s] = 1..Len(queue[s])
      /\ Tail(queue[s]) \in Seq(Numbers) /\ Len(Tail(queue[s])) = Len(queue[s]) - 1
      /\ DOMAIN Tail(queue[s]) = 1..(Len(queue[s]) - 1)
      /\ \A i \in 1..(Len(queue[s]) - 1) : Tail(queue[s])[i] = queue[s][i + 1]
                                          /\ i + 1 \in 1..Len(queue[s])
  BY <1>1, <1>2
<1>4. queue'[s] = Tail(queue[s]) /\ \A o \in Subscriber \ {s} : queue'[o] = queue[o]
  BY <1>1, <1>2
<1>5. Head(queue[s]) = last + 1 /\ last + 1 \in Numbers
  BY <1>3 DEF NoGap
<1>6. NoGap(s, last + 1)'
  <2>1. \A i \in DOMAIN queue'[s] : queue'[s][i] = (last + 1) + i
    BY <1>3, <1>4 DEF NoGap
  <2>2. s \in subscribed' => (last + 1) + Len(queue'[s]) = Len(published')
    <3>1. /\ s \in subscribed' => last + Len(queue[s]) = Len(published)
          /\ Len(queue'[s]) = Len(queue[s]) - 1 /\ published' = published
      BY <1>1, <1>3, <1>4 DEF NoGap
    <3>2. \A a, b \in Int : (a + 1) + (b - 1) = a + b
      OBVIOUS
    <3>3. last \in Int /\ Len(queue[s]) \in Int
      BY <1>2
    <3>4. QED BY <3>1, <3>2, <3>3, Zenon
  <2>3. QED BY <2>1, <2>2 DEF NoGap
<1>7. BusType'
  <2>1. \A o \in Subscriber : queue'[o] \in Seq(Numbers) /\ Len(queue'[o]) <= QueueSize
    <3>1. \A o \in Subscriber \ {s} : queue[o] \in Seq(Numbers) /\ Len(queue[o]) <= QueueSize
      BY <1>2 DEF BusType
    <3>2. Len(queue[s]) - 1 <= QueueSize
      BY <1>2, <1>3, BusAssumption
    <3>3. QED BY <1>3, <1>4, <3>1, <3>2
  <2>2. queue' \in [Subscriber -> Seq(Numbers)]
    BY <1>1, <1>2, <2>1
  <2>3. Numbers' = Numbers
    BY <1>1 DEF Numbers
  <2>4. QED BY <1>1, <2>1, <2>2, <2>3 DEF BusType
<1>8. \A o \in Subscriber \ {s}, l \in Nat : NoGap(o, l) => NoGap(o, l)'
  BY <1>1, <1>4 DEF NoGap
<1>9. QED BY <1>5, <1>6, <1>7, <1>8

LEMMA JoinBus ==
  ASSUME BusType, NEW s \in Subscriber, Subscribe(s) \/ Unsubscribe(s)
  PROVE  /\ BusType' /\ Numbers' = Numbers /\ UNCHANGED published
         /\ NoGap(s, Len(published))'
         /\ \A o \in Subscriber \ {s}, l \in Nat : NoGap(o, l) => NoGap(o, l)'
<1>1. /\ queue' = [queue EXCEPT ![s] = <<>>] /\ UNCHANGED published
      /\ subscribed' \in {subscribed \cup {s}, subscribed \ {s}}
  BY DEF Subscribe, Unsubscribe
<1>2. queue \in [Subscriber -> Seq(Numbers)] /\ Len(published) \in Nat /\ Numbers' = Numbers
  BY <1>1 DEF BusType, Numbers
<1>3. queue'[s] = <<>> /\ \A o \in Subscriber \ {s} : queue'[o] = queue[o]
  BY <1>1, <1>2
<1>4. BusType'
  <2>1. \A o \in Subscriber : queue'[o] \in Seq(Numbers) /\ Len(queue'[o]) <= QueueSize
    <3>1. \A o \in Subscriber \ {s} : queue[o] \in Seq(Numbers) /\ Len(queue[o]) <= QueueSize
      BY <1>2 DEF BusType
    <3>2. <<>> \in Seq(Numbers) /\ Len(<<>>) = 0 /\ 0 <= QueueSize
      BY BusAssumption
    <3>3. QED BY <1>3, <3>1, <3>2
  <2>2. queue' \in [Subscriber -> Seq(Numbers)] /\ subscribed' \subseteq Subscriber
    BY <1>1, <1>2, <2>1 DEF BusType
  <2>3. QED BY <1>1, <1>2, <2>1, <2>2 DEF BusType
<1>5. QED BY <1>1, <1>2, <1>3, <1>4 DEF NoGap

-----------------------------------------------------------------------------
(* What the publishers do to the bus: nothing, or one message. *)
Announces == UNCHANGED bus \/ \E msg \in Msg : Publish(msg)

LEMMA HeightsOfBest ==
  \A b \in Best : Height[b] \in HeightOrNone /\ Height[b] \in Nat /\ b \in BestOrNone /\ b \in Nat
BY PublishersAssumption DEF Best, HeightOrNone, BestOrNone

LEMMA BatchStaysBelowTip ==
  ASSUME Types, SyncBatch
  PROVE  indexed' \in Best
<1>1. /\ indexed \in Nat /\ block.tip \in Best /\ block.tip \in Nat /\ indexed < block.tip
      /\ BatchSize \in Nat /\ Best = 1..Len(Height) /\ Len(Height) \in Nat
  <2>1. Best = 1..Len(Height) /\ Len(Height) \in Nat /\ BatchSize \in Nat
    BY PublishersAssumption DEF Best
  <2>2. indexed \in Best \cup {0} /\ block.tip \in Best /\ indexed < block.tip
    BY DEF Types, PublishersType, BestOrNone, SyncBatch
  <2>3. QED BY <2>1, <2>2
<1>2. indexed' = IF indexed + BatchSize < block.tip THEN indexed + BatchSize ELSE block.tip
  BY DEF SyncBatch
<1>3. indexed + BatchSize < block.tip => indexed + BatchSize \in 1..Len(Height)
  BY <1>1, PublishersAssumption
<1>4. QED BY <1>1, <1>2, <1>3

LEMMA PublishingTypes ==
  ASSUME Types, NodeMoves \/ BlockLoop \/ MempoolLoop
  PROVE  PublishersType' /\ Announces
<1> USE HeightsOfBest
<1>1. /\ best \in Best /\ indexed \in BestOrNone /\ tipHeight \in HeightOrNone
      /\ tipHash \in BestOrNone /\ block \in BlockType
      /\ (block.pc # "poll" => block.tip \in Best)
      /\ phase \in {"syncing", "live", "rpc_offline"}
      /\ mempool \in [pc : {"status", "build"}, left : 0..MaxMempool]
      /\ faults \in Nat /\ lost \in BOOLEAN
  BY DEF Types, PublishersType
<1>2. /\ block.tip \in BestOrNone /\ block.hash \in BestOrNone /\ block.prev \in HeightOrNone
      /\ mempool.left \in 0..MaxMempool /\ 0 \in HeightOrNone /\ 0 \in BestOrNone
  BY <1>1 DEF BlockType, HeightOrNone, BestOrNone
<1>3. Fault => faults' \in Nat
  BY <1>1 DEF Fault
<1>4. CASE NodeMoves
  BY <1>1, <1>4 DEF NodeMoves, PublishersType, Announces
<1>5. CASE PollTip
  BY <1>1, <1>2, <1>5 DEF PollTip, PublishersType, BlockType, Announces
<1>6. CASE CaughtUp
  BY <1>1, <1>2, <1>6 DEF CaughtUp, PublishersType, BlockType, Announces
<1>7. CASE SyncBatch
  <2>1. indexed' \in Best
    BY <1>7, BatchStaysBelowTip
  <2>2. Announces
    <3>1. Message("sync", Height[indexed'], 0) \in Msg
      BY <1>2, <2>1 DEF Message, Msg
    <3>2. QED BY <1>7, <3>1 DEF SyncBatch, Announces
  <2>3. QED BY <1>1, <1>2, <1>7, <2>1, <2>2 DEF SyncBatch, PublishersType, BlockType
<1>8. CASE ReadBestHash
  BY <1>1, <1>2, <1>8 DEF ReadBestHash, PublishersType, BlockType, Announces
<1>9. CASE StoreTipHeight
  BY <1>1, <1>2, <1>9 DEF StoreTipHeight, PublishersType, BlockType, Announces
<1>10. CASE StoreTipHash
  BY <1>1, <1>2, <1>10 DEF StoreTipHash, PublishersType, BlockType, Announces
<1>11. CASE StoreTipFails
  BY <1>1, <1>2, <1>3, <1>11 DEF StoreTipFails, PublishersType, BlockType, Announces
<1>12. CASE Announce
  <2>1. Announces
    <3>1. Message("block", Height[block.tip], block.hash) \in Msg
      BY <1>1, <1>2, <1>12 DEF Message, Msg, Announce
    <3>2. QED BY <1>12, <3>1 DEF Announce, Announces
  <2>2. QED BY <1>1, <1>2, <1>12, <2>1 DEF Announce, PublishersType, BlockType
<1>13. CASE AnnounceFails
  <2>1. lost' \in BOOLEAN
    BY <1>1, <1>13 DEF AnnounceFails
  <2>2. QED BY <1>1, <1>2, <1>3, <1>13, <2>1 DEF AnnounceFails, PublishersType, BlockType, Announces
<1>14. CASE Offline
  BY <1>1, <1>2, <1>3, <1>14 DEF Offline, PublishersType, BlockType, Announces
<1>15. CASE MempoolStatus
  BY <1>1, <1>2, <1>15 DEF MempoolStatus, PublishersType, Announces
<1>16. CASE MempoolPublish
  <2>1. Announces
    <3>1. Message("mempool", 0, 0) \in Msg
      BY <1>2 DEF Message, Msg
    <3>2. QED BY <1>16, <3>1 DEF MempoolPublish, Announces
  <2>2. mempool.left - 1 \in 0..MaxMempool
    BY <1>2, <1>16, PublishersAssumption DEF MempoolPublish
  <2>3. QED BY <1>1, <1>2, <1>16, <2>1, <2>2 DEF MempoolPublish, PublishersType
<1>17. CASE MempoolFails
  BY <1>1, <1>2, <1>3, <1>17 DEF MempoolFails, PublishersType, Announces
<1>18. QED
  BY <1>4, <1>5, <1>6, <1>7, <1>8, <1>9, <1>10, <1>11, <1>12, <1>13, <1>14, <1>15, <1>16, <1>17
     DEF BlockLoop, MempoolLoop

-----------------------------------------------------------------------------
(* The streams. *)
LEMMA TakenIsNumber ==
  ASSUME Types, NEW s \in Subscriber, Reading(s)
  PROVE  LastTaken(s) \in Nat
BY DEF Types, BusType, StreamsType, WebhooksType, Reading, LastTaken, Numbers

(* A stream that joins the bus, is served, or loses its client. *)
StreamStep(c) ==
  Serve(c) \/ Connect(c) \/ ClientGoes(c) \/ SnapshotFails(c)

LEMMA StreamingTypes ==
  ASSUME Types, QueuesHaveNoGap, NEW c \in Client, StreamStep(c),
         PublishersType', UNCHANGED webhooks
  PROVE  Types' /\ UNCHANGED published /\ Numbers' = Numbers
<1>1. /\ stream \in [Client -> StreamType] /\ gone \subseteq Client
      /\ forwarded \in [Client -> Numbers \cup {0}] /\ BusType
      /\ stream[c] \in StreamType /\ c \in Subscriber
  BY StreamsAssumption DEF Types, StreamsType
<1>2. /\ tipHeight \in HeightOrNone /\ tipHash \in BestOrNone
      /\ 0 \in HeightOrNone /\ 0 \in BestOrNone
  BY DEF Types, PublishersType, HeightOrNone, BestOrNone
<1>3. /\ BusType' /\ UNCHANGED published /\ Numbers' = Numbers
      /\ stream' \in [Client -> StreamType] /\ gone' \subseteq Client
      /\ forwarded' \in [Client -> Numbers \cup {0}]
  <2>1. CASE Connect(c)
    <3>1. Subscribe(c) /\ Len(published) \in Numbers \cup {0}
      BY <1>1, <2>1 DEF Connect, BusType, Numbers
    <3>2. BusType' /\ UNCHANGED published /\ Numbers' = Numbers
      BY <1>1, <3>1, JoinBus
    <3>3. QED BY <1>1, <2>1, <3>1, <3>2 DEF Connect, StreamType
  <2>2. CASE SnapshotHeight(c) \/ SnapshotHash(c) \/ ClientGoes(c) \/ SnapshotFails(c)
             \/ AbandonSnapshot(c)
    <3>1. UNCHANGED <<bus, forwarded>> /\ Numbers' = Numbers /\ gone' \subseteq Client
      BY <1>1, <2>2 DEF SnapshotHeight, SnapshotHash, ClientGoes, SnapshotFails,
                        AbandonSnapshot, bus, Numbers
    <3>2. stream' \in [Client -> StreamType]
      BY <1>1, <1>2, <2>2 DEF SnapshotHeight, SnapshotHash, ClientGoes, SnapshotFails,
                              AbandonSnapshot, StreamType
    <3>3. QED BY <1>1, <3>1, <3>2 DEF BusType, bus
  <2>3. CASE Leave(c)
    <3>1. BusType' /\ UNCHANGED published /\ Numbers' = Numbers
      BY <1>1, <2>3, JoinBus DEF Leave
    <3>2. QED BY <1>1, <2>3, <3>1 DEF Leave, StreamType
  <2>4. CASE Forward(c)
    <3>1. Reading(c) /\ LastTaken(c) \in Nat /\ Take(c)
      BY <1>1, <2>4, TakenIsNumber DEF Forward, Reading
    <3>2. NoGap(c, LastTaken(c))
      BY <1>1, <3>1 DEF QueuesHaveNoGap, NoGap
    <3>3. BusType' /\ Head(queue[c]) \in Numbers
      BY <1>1, <3>1, <3>2, TakeFromQueue
    <3>4. UNCHANGED published /\ Numbers' = Numbers
      BY <3>1 DEF Take, Numbers
    <3>5. published[Head(queue[c])] \in Msg
      BY <1>1, <3>3 DEF BusType, Numbers
    <3>6. stream' \in [Client -> StreamType]
      BY <1>1, <2>4, <3>5 DEF Forward, StreamType, Msg
    <3>7. QED BY <1>1, <2>4, <3>3, <3>4, <3>6 DEF Forward
  <2>5. QED BY <2>1, <2>2, <2>3, <2>4 DEF StreamStep, Serve
<1>4. StreamsType' /\ WebhooksType'
  BY <1>3 DEF StreamsType, WebhooksType, DispatchType, Types, webhooks
<1>5. QED BY <1>3, <1>4 DEF Types

LEMMA StreamingKeepsQueues ==
  ASSUME Types, QueuesHaveNoGap, NEW c \in Client, StreamStep(c), UNCHANGED taken
  PROVE  QueuesHaveNoGap'
<1>1. c \in Subscriber /\ c # Dispatcher /\ BusType
  BY StreamsAssumption, PublicationsAssumption DEF Types
<1>2. stream \in [Client -> StreamType] /\ forwarded \in [Client -> Numbers \cup {0}]
  BY DEF Types, StreamsType
<1>3. \A s \in Subscriber : Reading(s) => LastTaken(s) \in Nat /\ NoGap(s, LastTaken(s))
  BY TakenIsNumber DEF QueuesHaveNoGap, NoGap
<1>4. ASSUME NEW s \in Subscriber \ {c}, Reading(s)'
      PROVE  Reading(s) /\ LastTaken(s)' = LastTaken(s)
  <2>1. s \in Client => stream'[s] = stream[s] /\ forwarded'[s] = forwarded[s]
    BY <1>2 DEF StreamStep, Serve, Connect, SnapshotHeight, SnapshotHash, Forward, Leave,
                AbandonSnapshot, ClientGoes, SnapshotFails
  <2>2. QED BY <1>4, <2>1 DEF Reading, LastTaken
<1>5. ASSUME NEW s \in Subscriber \ {c}, NEW last \in Nat, NoGap(s, last)
      PROVE  NoGap(s, last)'
  <2>1. CASE Connect(c) \/ Leave(c)
    BY <1>1, <1>5, <2>1, JoinBus DEF Connect, Leave
  <2>2. CASE Forward(c)
    BY <1>1, <1>3, <1>5, <2>2, TakeFromQueue DEF Forward, Reading
  <2>3. CASE UNCHANGED bus
    BY <1>5, <2>3 DEF NoGap, bus
  <2>4. QED BY <2>1, <2>2, <2>3 DEF StreamStep, Serve, SnapshotHeight, SnapshotHash,
                                    AbandonSnapshot, ClientGoes, SnapshotFails
<1>6. ASSUME Reading(c)', NEW last, last = forwarded'[c]
      PROVE  NoGap(c, last)' /\ LastTaken(c)' = last
  <2>1. LastTaken(c)' = last /\ LastTaken(c) = forwarded[c]
        /\ stream'[c].pc \in {"height", "hash", "loop"}
    BY <1>1, <1>6 DEF Reading, LastTaken
  <2>2. CASE Connect(c)
    <3>1. Subscribe(c) /\ last = Len(published)
      BY <1>2, <1>6, <2>2 DEF Connect
    <3>2. NoGap(c, Len(published))' /\ published' = published
      BY <1>1, <3>1, JoinBus
    <3>3. QED BY <2>1, <3>1, <3>2 DEF NoGap
  <2>3. CASE SnapshotHeight(c) \/ SnapshotHash(c) \/ ClientGoes(c) \/ SnapshotFails(c)
    <3>1. UNCHANGED <<bus, forwarded>> /\ Reading(c)
      BY <1>1, <2>3 DEF SnapshotHeight, SnapshotHash, ClientGoes, SnapshotFails, Reading
    <3>2. NoGap(c, LastTaken(c)) /\ LastTaken(c) = last
      BY <1>1, <1>3, <1>6, <2>1, <3>1
    <3>3. QED BY <2>1, <3>1, <3>2 DEF NoGap, bus
  <2>4. CASE Leave(c) \/ AbandonSnapshot(c)
    <3>1. stream'[c].pc = "closed"
      BY <1>2, <2>4 DEF Leave, AbandonSnapshot, StreamType
    <3>2. QED BY <2>1, <3>1
  <2>5. CASE Forward(c)
    <3>1. Reading(c) /\ Take(c) /\ forwarded'[c] = Head(queue[c])
      BY <1>1, <1>2, <2>5 DEF Forward, Reading
    <3>2. LastTaken(c) \in Nat /\ NoGap(c, LastTaken(c))
      BY <1>1, <1>3, <3>1
    <3>3. PICK l \in Nat : l = LastTaken(c)
      BY <3>2
    <3>4. last = l + 1 /\ NoGap(c, l + 1)'
      BY <1>1, <1>6, <3>1, <3>2, <3>3, TakeFromQueue
    <3>5. QED BY <2>1, <3>4 DEF NoGap
  <2>6. QED BY <2>2, <2>3, <2>4, <2>5 DEF StreamStep, Serve
<1>7. ASSUME NEW s \in Subscriber, Reading(s)'
      PROVE  \E last : NoGap(s, last)' /\ LastTaken(s)' = last
  <2>1. CASE s = c
    BY <1>6, <1>7, <2>1
  <2>2. CASE s # c
    <3>1. Reading(s) /\ LastTaken(s)' = LastTaken(s)
      BY <1>4, <1>7, <2>2
    <3>2. QED BY <1>3, <1>5, <2>2, <3>1
  <2>3. QED BY <2>1, <2>2
<1>8. QED BY <1>7 DEF QueuesHaveNoGap, NoGap

-----------------------------------------------------------------------------
(* The dispatcher and the subscriptions. *)
LEMMA DispatcherTakes ==
  ASSUME Types, QueuesHaveNoGap, Take(Dispatcher)
  PROVE  /\ Head(queue[Dispatcher]) = taken + 1 /\ taken \in Nat /\ taken + 1 \in Numbers
         /\ BusType' /\ UNCHANGED published /\ Numbers' = Numbers
         /\ \A l \in Nat : l = taken + 1 => NoGap(Dispatcher, l)'
         /\ \A o \in Subscriber \ {Dispatcher}, l \in Nat : NoGap(o, l) => NoGap(o, l)'
<1>1. Dispatcher \in Subscriber /\ Reading(Dispatcher) /\ BusType /\ taken \in Nat
  BY WebhooksAssumption DEF Types, WebhooksType, Reading, Numbers
<1>2. PICK l \in Nat : l = taken
  BY <1>1
<1>3. NoGap(Dispatcher, l)
  BY <1>1, <1>2 DEF QueuesHaveNoGap, NoGap, LastTaken
<1>4. /\ Head(queue[Dispatcher]) = l + 1 /\ l + 1 \in Numbers /\ BusType'
      /\ NoGap(Dispatcher, l + 1)'
      /\ \A o \in Subscriber \ {Dispatcher}, k \in Nat : NoGap(o, k) => NoGap(o, k)'
  BY <1>1, <1>3, TakeFromQueue
<1>5. UNCHANGED published /\ Numbers' = Numbers
  BY DEF Take, Numbers
<1>6. QED BY <1>1, <1>2, <1>4, <1>5

LEMMA DispatchingTypes ==
  ASSUME Types, QueuesHaveNoGap, Dispatch, UNCHANGED <<publishers, streams>>
  PROVE  Types' /\ QueuesHaveNoGap' /\ UNCHANGED published
<1>1. /\ hooks \subseteq Hook /\ dispatch \in DispatchType /\ taken \in Numbers \cup {0}
      /\ dispatch.members # {} => dispatch.msg \in Numbers
      /\ got \in [Hook -> Seq(Numbers)] /\ gaveUp \subseteq Hook \X Numbers
      /\ dispatch.members \subseteq Hook /\ dispatch.attempt \in 0..MaxRetries
      /\ added \in [Hook -> Numbers \cup {0, -1}] /\ removed \in [Hook -> Numbers \cup {0, -1}]
  BY DEF Types, WebhooksType, DispatchType
<1>2. Dispatcher \in Subscriber /\ Dispatcher \notin Client
  BY WebhooksAssumption, PublicationsAssumption
<1>3. \A s \in Subscriber : Reading(s)' <=> Reading(s)
  BY DEF Reading, streams
<1>4. \A s \in Subscriber \ {Dispatcher} : LastTaken(s)' = LastTaken(s)
  BY DEF LastTaken, streams
<1>5. Idle \in DispatchType /\ Idle.members = {}
  BY WebhooksAssumption DEF Idle, DispatchType
<1>6. CASE TakeMessage
  <2>1. /\ Head(queue[Dispatcher]) = taken + 1 /\ taken \in Nat /\ taken + 1 \in Numbers
        /\ BusType' /\ UNCHANGED published /\ Numbers' = Numbers
        /\ \A l \in Nat : l = taken + 1 => NoGap(Dispatcher, l)'
        /\ \A o \in Subscriber \ {Dispatcher}, l \in Nat : NoGap(o, l) => NoGap(o, l)'
    BY <1>6, DispatcherTakes DEF TakeMessage
  <2>2. taken' = taken + 1 /\ Wanting(taken + 1) \subseteq Hook
    BY <1>1, <1>6, <2>1 DEF TakeMessage, Wanting
  <2>3. /\ dispatch' \in DispatchType
        /\ dispatch'.members # {} => dispatch'.msg \in Numbers
        /\ gaveUp' \subseteq Hook \X Numbers
    <3>1. dispatch' = dispatch \/ dispatch' = Idle
            \/ dispatch' = [Idle EXCEPT !.msg = taken + 1, !.members = Wanting(taken + 1)]
      BY <1>6, <2>1 DEF TakeMessage
    <3>2. gaveUp' = gaveUp \/ gaveUp' = gaveUp \cup (Wanting(taken + 1) \X {taken + 1})
      BY <1>6, <2>1 DEF TakeMessage
    <3>3. [Idle EXCEPT !.msg = taken + 1, !.members = Wanting(taken + 1)] \in DispatchType
      BY <1>5, <2>1, <2>2 DEF DispatchType
    <3>4. [Idle EXCEPT !.msg = taken + 1, !.members = Wanting(taken + 1)].msg = taken + 1
      BY DEF Idle
    <3>5. gaveUp' \subseteq Hook \X Numbers
      BY <1>1, <2>1, <2>2, <3>2
    <3>6. QED BY <1>1, <1>5, <2>1, <3>1, <3>3, <3>4, <3>5, Zenon
  <2>4. WebhooksType'
    <3>1. /\ hooks' = hooks /\ added' = added /\ removed' = removed /\ got' = got
          /\ taken' \in Numbers \cup {0} /\ DispatchType' = DispatchType
      BY <1>6, <2>1, <2>2 DEF TakeMessage, DispatchType
    <3>2. QED BY <1>1, <2>1, <2>3, <3>1, Zenon DEF WebhooksType
  <2>5. QueuesHaveNoGap'
    <3>1. ASSUME NEW s \in Subscriber \ {Dispatcher}, Reading(s)'
          PROVE  \E last : NoGap(s, last)' /\ LastTaken(s)' = last
      <4>1. PICK last \in Nat : last = LastTaken(s)
        BY <1>3, <3>1, TakenIsNumber
      <4>2. NoGap(s, last)
        BY <1>3, <3>1, <4>1 DEF QueuesHaveNoGap, NoGap
      <4>3. QED BY <1>4, <2>1, <4>1, <4>2
    <3>2. \E last : NoGap(Dispatcher, last)' /\ LastTaken(Dispatcher)' = last
      <4>1. PICK last \in Nat : last = taken + 1
        BY <2>1
      <4>2. NoGap(Dispatcher, last)'
        BY <2>1, <4>1
      <4>3. QED BY <2>2, <4>1, <4>2 DEF LastTaken
    <3>3. QED BY <3>1, <3>2 DEF QueuesHaveNoGap, NoGap
  <2>6. QED BY <2>1, <2>4, <2>5 DEF Types, StreamsType, PublishersType, streams, publishers
<1>7. ASSUME NEW h \in Hook, PostSucceeds(h) \/ PostFails(h)
      PROVE  Types' /\ QueuesHaveNoGap' /\ UNCHANGED published
  <2>1. h \in dispatch.members /\ dispatch.msg \in Numbers /\ UNCHANGED bus
        /\ hooks' = hooks /\ taken' = taken /\ added' = added /\ removed' = removed
    BY <1>1, <1>7 DEF PostSucceeds, PostFails, Current
  <2>2. Numbers' = Numbers /\ BusType' /\ UNCHANGED published /\ DispatchType' = DispatchType
    BY <2>1 DEF bus, Numbers, BusType, Types, DispatchType
  <2>3. got' \in [Hook -> Seq(Numbers)]
    <3>1. got' = got \/ got' = [got EXCEPT ![h] = Append(got[h], dispatch.msg)]
      BY <1>7 DEF PostSucceeds, PostFails, Receive
    <3>2. Append(got[h], dispatch.msg) \in Seq(Numbers)
      BY <1>1, <2>1
    <3>3. QED BY <1>1, <3>1, <3>2
  <2>4. gaveUp' \subseteq Hook \X Numbers
    BY <1>1, <1>7, <2>1 DEF PostSucceeds, PostFails
  <2>5. /\ dispatch' \in DispatchType
        /\ dispatch'.members # {} => dispatch'.msg \in Numbers
    <3>1. CASE dispatch' = Idle
      BY <1>5, <3>1
    <3>2. CASE dispatch' = [dispatch EXCEPT !.members = @ \ {h}, !.retrying = {}, !.attempt = 0]
      <4>1. dispatch' \in DispatchType
        <5>1. 0 \in 0..MaxRetries /\ {} \in SUBSET Hook
              /\ dispatch.members \ {h} \in SUBSET Hook
          BY <1>1, WebhooksAssumption
        <5>2. QED BY <1>1, <3>2, <5>1, Zenon DEF DispatchType
      <4>2. dispatch'.msg = dispatch.msg
        BY <1>1, <3>2 DEF DispatchType
      <4>3. QED BY <2>1, <4>1, <4>2
    <3>3. CASE /\ dispatch' = [dispatch EXCEPT !.retrying = {h}, !.attempt = @ + 1]
               /\ dispatch.attempt + 1 < MaxRetries
      <4>1. dispatch.attempt + 1 \in 0..MaxRetries
        BY <1>1, <3>3, WebhooksAssumption
      <4>2. QED BY <1>1, <2>1, <3>3, <4>1 DEF DispatchType
    <3>4. QED BY <1>7, <3>1, <3>2, <3>3 DEF PostSucceeds, PostFails, NextMember
  <2>6. WebhooksType'
    BY <1>1, <2>1, <2>2, <2>3, <2>4, <2>5, Zenon DEF WebhooksType
  <2>7. QueuesHaveNoGap'
    BY <1>3, <1>4, <2>1, <2>2 DEF QueuesHaveNoGap, LastTaken, bus, streams
  <2>8. QED BY <2>2, <2>6, <2>7 DEF Types, StreamsType, PublishersType, streams, publishers
<1>8. QED BY <1>6, <1>7 DEF Dispatch

-----------------------------------------------------------------------------
(* What has been published stays: messages are only added. *)
Kept ==
  /\ Numbers \subseteq Numbers' /\ Len(published) <= Len(published')
  /\ \A n \in Numbers : published'[n] = published[n]

LEMMA PublishedIsKept ==
  ASSUME Types, Publishing
  PROVE  BusType' /\ PublishersType' /\ Kept
<1>1. PublishersType' /\ Announces /\ BusType /\ Len(published) \in Nat
  BY PublishingTypes DEF Publishing, Types, BusType
<1>2. CASE UNCHANGED bus
  BY <1>1, <1>2 DEF BusType, bus, Kept, Numbers
<1>3. CASE \E msg \in Msg : Publish(msg)
  <2>1. PICK msg \in Msg : Publish(msg)
    BY <1>3
  <2>2. /\ BusType' /\ Numbers \subseteq Numbers' /\ Len(published') = Len(published) + 1
        /\ \A n \in Numbers : published'[n] = published[n]
    BY <1>1, <2>1, PublishType
  <2>3. QED BY <1>1, <2>2 DEF Kept
<1>4. QED BY <1>1, <1>2, <1>3 DEF Announces

LEMMA PublishingKeepsTypes ==
  ASSUME Types, QueuesHaveNoGap, Publishing
  PROVE  Types' /\ QueuesHaveNoGap' /\ Kept
<1>1. /\ PublishersType' /\ Announces /\ UNCHANGED <<streams, webhooks>>
      /\ BusType /\ StreamsType /\ WebhooksType
  BY PublishingTypes DEF Publishing, Types
<1>2. BusType' /\ Kept /\ Numbers \subseteq Numbers'
  BY PublishedIsKept DEF Kept
<1>3. StreamsType'
  BY <1>1, <1>2 DEF StreamsType, streams
<1>4. WebhooksType'
  <2>1. /\ hooks' = hooks /\ dispatch' = dispatch /\ taken' = taken /\ added' = added
        /\ removed' = removed /\ got' = got /\ gaveUp' = gaveUp
    BY <1>1 DEF webhooks
  <2>2. DispatchType \subseteq DispatchType'
    BY <1>2 DEF DispatchType
  <2>3. got \in [Hook -> Seq(Numbers')] /\ gaveUp \subseteq Hook \X Numbers'
    BY <1>1, <1>2 DEF WebhooksType
  <2>4. /\ added \in [Hook -> Numbers' \cup {0, -1}] /\ removed \in [Hook -> Numbers' \cup {0, -1}]
        /\ taken \in Numbers' \cup {0} /\ hooks \subseteq Hook /\ dispatch \in DispatchType
        /\ (dispatch.members # {} => dispatch.msg \in Numbers')
    BY <1>1, <1>2 DEF WebhooksType
  <2>5. dispatch \in DispatchType'
    BY <2>2, <2>4
  <2>6. QED BY <2>1, <2>3, <2>4, <2>5, Zenon DEF WebhooksType
<1>5. QueuesHaveNoGap'
  <2>1. ASSUME NEW s \in Subscriber, Reading(s)'
        PROVE  \E last : NoGap(s, last)' /\ LastTaken(s)' = last
    <3>1. Reading(s) /\ LastTaken(s)' = LastTaken(s)
      BY <1>1, <2>1 DEF Reading, LastTaken, streams, webhooks
    <3>2. PICK last \in Nat : last = LastTaken(s)
      BY <3>1, TakenIsNumber
    <3>3. NoGap(s, last)
      BY <3>1, <3>2 DEF QueuesHaveNoGap, NoGap
    <3>4. NoGap(s, last)'
      <4>1. CASE UNCHANGED bus
        BY <3>3, <4>1 DEF NoGap, bus
      <4>2. CASE \E msg \in Msg : Publish(msg)
        BY <1>1, <3>3, <4>2, PublishNoGap
      <4>3. QED BY <1>1, <4>1, <4>2 DEF Announces
    <3>5. QED BY <3>1, <3>2, <3>4
  <2>2. QED BY <2>1 DEF QueuesHaveNoGap, NoGap
<1>6. QED BY <1>1, <1>2, <1>3, <1>4, <1>5 DEF Types

LEMMA InitTypes == Init => Types /\ QueuesHaveNoGap
<1> SUFFICES ASSUME Init PROVE Types /\ QueuesHaveNoGap
  OBVIOUS
<1> USE DEF Init
<1>1. /\ published = <<>> /\ queue = [s \in Subscriber |-> <<>>] /\ subscribed \subseteq {Dispatcher}
      /\ Numbers = {} /\ Len(published) = 0
  BY DEF BusInit, Numbers
<1>2. BusType
  BY <1>1, WebhooksAssumption, BusAssumption DEF BusType
<1>3. PublishersType
  <2>1. Height[1] \in HeightOrNone /\ 1 \in Best /\ 0 \in HeightOrNone /\ 0 \in BestOrNone
        /\ 1 \in BestOrNone
    BY PublishersAssumption DEF Best, HeightOrNone, BestOrNone
  <2>2. PICK f \in {0, MaxFaults}, l \in {0, MaxMempool} : PublishersInit(1, f, l)
    BY PublishersAssumption
  <2>3. MaxFaults - f \in Nat /\ l \in 0..MaxMempool
    BY PublishersAssumption
  <2>4. QED BY <2>1, <2>2, <2>3 DEF PublishersInit, PublishersType, BlockType
<1>4. StreamsType
  BY DEF StreamsInit, StreamsType, StreamType, HeightOrNone, BestOrNone
<1>5. WebhooksType
  <2>1. Idle \in DispatchType /\ Idle.members = {}
    BY WebhooksAssumption DEF Idle, DispatchType
  <2>2. QED BY <1>1, <2>1 DEF WebhooksInit, WebhooksType
<1>6. QueuesHaveNoGap
  <2>1. ASSUME NEW s \in Subscriber, Reading(s)
        PROVE  s = Dispatcher /\ LastTaken(s) = 0
    <3>1. s \notin Client \/ stream[s].pc = "new"
      BY DEF StreamsInit
    <3>2. s = Dispatcher
      BY <2>1, <3>1 DEF Reading
    <3>3. QED BY <3>2 DEF LastTaken, WebhooksInit
  <2>2. QED BY <1>1, <2>1 DEF QueuesHaveNoGap
<1>7. QED BY <1>2, <1>3, <1>4, <1>5, <1>6 DEF Types

LEMMA HookingKeepsTypes ==
  ASSUME Types, QueuesHaveNoGap, Hooking
  PROVE  Types' /\ QueuesHaveNoGap' /\ UNCHANGED published
<1>1. /\ UNCHANGED bus /\ UNCHANGED publishers /\ UNCHANGED streams
      /\ dispatch' = dispatch /\ taken' = taken /\ got' = got /\ gaveUp' = gaveUp
  BY DEF Hooking, AddWebhook, RemoveWebhook
<1>2. Numbers' = Numbers /\ DispatchType' = DispatchType /\ Len(published) \in Numbers \cup {0}
  BY <1>1 DEF Numbers, DispatchType, bus, Types, BusType
<1>3. WebhooksType'
  <2>1. PICK h \in Hook : AddWebhook(h) \/ RemoveWebhook(h)
    BY DEF Hooking
  <2>2. hooks' \subseteq Hook
    BY <2>1 DEF AddWebhook, RemoveWebhook, Types, WebhooksType
  <2>3. /\ added' \in [Hook -> Numbers \cup {0, -1}]
        /\ removed' \in [Hook -> Numbers \cup {0, -1}]
    BY <1>2, <2>1 DEF AddWebhook, RemoveWebhook, Types, WebhooksType
  <2>4. QED BY <1>1, <1>2, <2>2, <2>3, Zenon DEF WebhooksType, Types
<1>4. QueuesHaveNoGap'
  BY <1>1 DEF QueuesHaveNoGap, Reading, LastTaken, bus, streams
<1>5. QED
  BY <1>1, <1>2, <1>3, <1>4
     DEF Types, BusType, PublishersType, StreamsType, bus, publishers, streams

LEMMA StepTypes ==
  ASSUME Types, QueuesHaveNoGap, [Next]_vars
  PROVE  Types' /\ QueuesHaveNoGap' /\ Kept
<1>1. BusType /\ Len(published) \in Nat
  BY DEF Types, BusType
<1>2. UNCHANGED published => Kept
  BY <1>1 DEF Kept, Numbers
<1>3. CASE Publishing
  BY <1>3, PublishingKeepsTypes
<1>4. CASE Streaming
  <2>1. UNCHANGED webhooks /\ taken' = taken
    BY <1>4 DEF Streaming, webhooks
  <2>2. PICK c \in Client : StreamStep(c)
    BY <1>4 DEF Streaming, StreamStep
  <2>3. PublishersType'
    <3>1. CASE UNCHANGED publishers
      BY <3>1 DEF publishers, Types, PublishersType
    <3>2. CASE /\ UNCHANGED <<best, tipHeight, tipHash, phase, indexed, block, mempool, lost>>
               /\ \E d \in Client : SnapshotFails(d)
      <4>1. faults' \in Nat
        BY <3>2 DEF SnapshotFails, Fault, Types, PublishersType
      <4>2. QED BY <3>2, <4>1 DEF Types, PublishersType
    <3>3. QED BY <1>4, <3>1, <3>2 DEF Streaming
  <2>4. QED BY <1>2, <2>1, <2>2, <2>3, StreamingTypes, StreamingKeepsQueues
<1>5. CASE Dispatching
  BY <1>2, <1>5, DispatchingTypes DEF Dispatching
<1>6. CASE Hooking
  BY <1>2, <1>6, HookingKeepsTypes
<1>7. CASE UNCHANGED vars
  <2>1. UNCHANGED bus /\ UNCHANGED publishers /\ UNCHANGED streams /\ UNCHANGED webhooks
    BY <1>7 DEF vars
  <2>2. Numbers' = Numbers /\ DispatchType' = DispatchType
    BY <2>1 DEF bus, Numbers, DispatchType
  <2>3. BusType' /\ PublishersType' /\ StreamsType'
    BY <2>1, <2>2 DEF Types, BusType, PublishersType, StreamsType, bus, publishers, streams
  <2>4. WebhooksType'
    <3>1. /\ hooks' = hooks /\ dispatch' = dispatch /\ taken' = taken /\ added' = added
          /\ removed' = removed /\ got' = got /\ gaveUp' = gaveUp
      BY <2>1 DEF webhooks
    <3>2. QED BY <2>2, <3>1, Zenon DEF Types, WebhooksType
  <2>5. QueuesHaveNoGap'
    BY <2>1 DEF QueuesHaveNoGap, Reading, LastTaken, bus, streams, webhooks
  <2>6. QED BY <1>2, <2>1, <2>3, <2>4, <2>5 DEF Types, bus
<1>8. QED BY <1>3, <1>4, <1>5, <1>6, <1>7 DEF Next

LEMMA AlwaysTyped == Spec => [](Types /\ QueuesHaveNoGap)
<1>1. Types /\ QueuesHaveNoGap /\ [Next]_vars => (Types /\ QueuesHaveNoGap)'
  BY StepTypes
<1>2. QED BY <1>1, InitTypes, PTL DEF Spec

(* The type invariant of the bus, its publishers and both kinds of readers. *)
THEOREM PublicationsTyped == Spec => []TypeOK
BY AlwaysTyped, TypesSuffice, PTL

(* No reader of the event bus misses a message and hears on: what a client or
   the dispatcher has taken and what waits in its queue are consecutive, up to
   the last message published as long as EventBus.publish has kept it on the
   bus.  Publishing to a queue that is not full and reading from it preserve
   this; a queue that is full leaves the bus with what it holds. *)
THEOREM ReadersMissNothing == Spec => []QueuesHaveNoGap
BY AlwaysTyped, PTL

-----------------------------------------------------------------------------
(* Deliveries.  What a webhook received of the message at hand are its last
   attempts, and it is being retried; all else it received is older. *)
GotSoFar(h) ==
  /\ \A i \in DOMAIN got[h] : got[h][i] <= taken
  /\ h \in dispatch.members =>
       /\ \A i \in DOMAIN got[h] :
            got[h][i] = dispatch.msg =>
              h \in dispatch.retrying /\ i + dispatch.attempt > Len(got[h])
       /\ removed[h] # -1 => dispatch.msg <= removed[h]
  /\ h \in hooks => removed[h] = -1 /\ added[h] # -1
  /\ removed[h] # -1 => added[h] # -1

InOrder(h) ==
  \A i \in DOMAIN got[h] :
    /\ i > 1 => got[h][i - 1] <= got[h][i]
    /\ i > MaxRetries => got[h][i - MaxRetries] < got[h][i]
    /\ removed[h] # -1 => got[h][i] <= removed[h]

AtHand ==
  /\ dispatch.msg \in {0, taken} /\ dispatch.attempt < MaxRetries
  /\ \A h \in Hook : GotSoFar(h) /\ InOrder(h)

LEMMA DeliveryTypes ==
  ASSUME Types
  PROVE  /\ taken \in Nat /\ taken <= Len(published) /\ Len(published) \in Nat
         /\ dispatch.attempt \in Nat /\ dispatch.members \subseteq Hook
         /\ dispatch.msg \in Nat /\ (dispatch.members # {} => dispatch.msg \in Numbers)
         /\ MaxRetries \in Nat \ {0}
         /\ \A h \in Hook : /\ got[h] \in Seq(Numbers) /\ Len(got[h]) \in Nat
                            /\ DOMAIN got[h] = 1..Len(got[h])
                            /\ \A i \in DOMAIN got[h] : got[h][i] \in Nat
                            /\ added[h] \in Int /\ removed[h] \in Int
BY WebhooksAssumption DEF Types, BusType, WebhooksType, DispatchType, Numbers

(* One more entry of the message at hand, within the attempts. *)
LEMMA ReceiveInOrder ==
  ASSUME Types, AtHand, NEW h \in Hook, h \in dispatch.members,
         Receive(h) \/ UNCHANGED got, UNCHANGED <<taken, removed>>
  PROVE  /\ InOrder(h)'
         /\ \A i \in DOMAIN got'[h] : got'[h][i] <= taken
         /\ \A i \in DOMAIN got'[h] :
              got'[h][i] = dispatch.msg => i + (dispatch.attempt + 1) > Len(got'[h])
         /\ \A g \in Hook \ {h} : got'[g] = got[g]
<1>1. /\ dispatch.msg = taken /\ taken \in Nat /\ dispatch.msg \in Numbers
      /\ dispatch.attempt \in Nat /\ dispatch.attempt < MaxRetries /\ MaxRetries \in Nat \ {0}
      /\ got \in [Hook -> Seq(Numbers)]
  BY DeliveryTypes DEF AtHand, Numbers, Types, WebhooksType
<1>2. PICK n \in Nat : n = Len(got[h])
  BY <1>1
<1>3. /\ DOMAIN got[h] = 1..n
      /\ \A i \in 1..n : /\ got[h][i] \in Nat /\ got[h][i] <= taken
                         /\ got[h][i] = taken => i + dispatch.attempt > n
                         /\ i > 1 => got[h][i - 1] <= got[h][i]
                         /\ i > MaxRetries => got[h][i - MaxRetries] < got[h][i]
                         /\ removed[h] # -1 => got[h][i] <= removed[h]
      /\ removed[h] # -1 => taken <= removed[h]
  BY <1>1, <1>2, DeliveryTypes DEF AtHand, GotSoFar, InOrder
<1>4. CASE UNCHANGED got
  BY <1>1, <1>2, <1>3, <1>4 DEF InOrder
<1>5. CASE Receive(h)
  <2>1. got' = [got EXCEPT ![h] = Append(got[h], taken)]
    BY <1>1, <1>5 DEF Receive
  <2>2. /\ got'[h] = Append(got[h], taken) /\ \A g \in Hook \ {h} : got'[g] = got[g]
    BY <1>1, <2>1
  <2>3. /\ Len(got'[h]) = n + 1 /\ DOMAIN got'[h] = 1..(n + 1)
        /\ got'[h][n + 1] = taken /\ \A i \in 1..n : got'[h][i] = got[h][i]
    BY <1>1, <1>2, <1>3, <2>2
  <2>4. \A i \in 1..(n + 1) : i \in 1..n \/ i = n + 1
    BY <1>2
  <2>5. ASSUME NEW i \in 1..n
        PROVE  /\ got'[h][i] <= taken
               /\ got'[h][i] = taken => i + (dispatch.attempt + 1) > n + 1
               /\ i > 1 => got'[h][i - 1] <= got'[h][i]
               /\ i > MaxRetries => got'[h][i - MaxRetries] < got'[h][i]
               /\ removed[h] # -1 => got'[h][i] <= removed[h]
    <3>1. i > 1 => i - 1 \in 1..n
      OBVIOUS
    <3>2. i > MaxRetries => i - MaxRetries \in 1..n
      BY <1>1
    <3>3. got'[h][i] <= taken /\ (removed[h] # -1 => got'[h][i] <= removed[h])
      BY <1>3, <2>3
    <3>4. got'[h][i] = taken => i + (dispatch.attempt + 1) > n + 1
      <4>1. got'[h][i] = taken => i + dispatch.attempt > n
        BY <1>3, <2>3
      <4>2. i \in Int /\ n \in Int /\ dispatch.attempt \in Int
        BY <1>1
      <4>3. \A a, b, c \in Int : a + b > c => a + (b + 1) > c + 1
        OBVIOUS
      <4>4. QED BY <4>1, <4>2, <4>3, Zenon
    <3>5. i > 1 => got'[h][i - 1] <= got'[h][i]
      BY <1>3, <2>3, <3>1
    <3>6. i > MaxRetries => got'[h][i - MaxRetries] < got'[h][i]
      BY <1>3, <2>3, <3>2
    <3>7. QED BY <3>3, <3>4, <3>5, <3>6
  <2>6. /\ n + 1 + (dispatch.attempt + 1) > n + 1
        /\ n + 1 > 1 => got'[h][n] <= taken
        /\ n + 1 > MaxRetries => got'[h][(n + 1) - MaxRetries] < taken
    <3>1. n + 1 > 1 => n \in 1..n
      OBVIOUS
    <3>2. n + 1 > MaxRetries => (n + 1) - MaxRetries \in 1..n
      BY <1>1
    <3>3. n + 1 > MaxRetries => got[h][(n + 1) - MaxRetries] # taken
      <4>1. SUFFICES ASSUME n + 1 > MaxRetries, got[h][(n + 1) - MaxRetries] = taken
                     PROVE  FALSE
        OBVIOUS
      <4>2. (n + 1) - MaxRetries + dispatch.attempt > n
        BY <1>3, <3>2, <4>1
      <4>3. QED BY <1>1, <4>2
    <3>4. n + 1 > MaxRetries => got'[h][(n + 1) - MaxRetries] < taken
      <4>1. \A a, b \in Nat : a <= b /\ a # b => a < b
        OBVIOUS
      <4>2. n + 1 > MaxRetries =>
              /\ got'[h][(n + 1) - MaxRetries] = got[h][(n + 1) - MaxRetries]
              /\ got[h][(n + 1) - MaxRetries] \in Nat /\ got[h][(n + 1) - MaxRetries] <= taken
        BY <1>3, <2>3, <3>2
      <4>3. QED BY <1>1, <3>3, <4>1, <4>2
    <3>5. n + 1 > 1 => got'[h][n] <= taken
      BY <1>3, <2>3, <3>1
    <3>6. n + 1 + (dispatch.attempt + 1) > n + 1
      BY <1>1
    <3>7. QED BY <3>4, <3>5, <3>6
  <2>7. \A i \in 1..(n + 1) :
          /\ got'[h][i] <= taken
          /\ got'[h][i] = taken => i + (dispatch.attempt + 1) > n + 1
          /\ i > 1 => got'[h][i - 1] <= got'[h][i]
          /\ i > MaxRetries => got'[h][i - MaxRetries] < got'[h][i]
          /\ removed[h] # -1 => got'[h][i] <= removed[h]
    <3>1. TAKE i \in 1..(n + 1)
    <3>2. CASE i \in 1..n
      BY <2>5, <3>2
    <3>3. CASE i = n + 1
      <4>1. /\ got'[h][n + 1] <= taken /\ (removed[h] # -1 => got'[h][n + 1] <= removed[h])
            /\ (n + 1) - 1 = n
        BY <1>1, <1>3, <2>3
      <4>2. n + 1 > 1 => got'[h][(n + 1) - 1] <= got'[h][n + 1]
        BY <2>3, <2>6, <4>1
      <4>3. n + 1 > MaxRetries => got'[h][(n + 1) - MaxRetries] < got'[h][n + 1]
        BY <2>3, <2>6
      <4>4. n + 1 + (dispatch.attempt + 1) > n + 1
        BY <2>6
      <4>5. QED BY <3>3, <4>1, <4>2, <4>3, <4>4, Zenon
    <3>4. QED BY <2>4, <3>2, <3>3
  <2>8. QED BY <1>1, <2>2, <2>3, <2>7 DEF InOrder
<1>6. QED BY <1>4, <1>5

LEMMA TakingKeepsOrder ==
  ASSUME Types, QueuesHaveNoGap, AtHand, TakeMessage
  PROVE  AtHand'
<1>1. /\ taken' = taken + 1 /\ taken \in Nat
      /\ dispatch.msg = 0 /\ dispatch.members = {}
      /\ hooks' = hooks /\ added' = added /\ removed' = removed /\ got' = got
  <2>1. Head(queue[Dispatcher]) = taken + 1 /\ taken \in Nat
    BY DispatcherTakes DEF TakeMessage
  <2>2. dispatch.msg = 0 /\ dispatch.members = {}
    BY DeliveryTypes DEF TakeMessage, Numbers
  <2>3. QED BY <2>1, <2>2 DEF TakeMessage
<1>2. /\ dispatch'.msg \in {0, taken'} /\ dispatch'.attempt < MaxRetries
      /\ dispatch'.members # {} => dispatch'.msg = taken'
      /\ dispatch'.members \subseteq hooks
  <2>1. CASE dispatch' = dispatch
    BY <1>1, <2>1 DEF AtHand
  <2>2. CASE dispatch' = Idle
    BY <2>2, WebhooksAssumption DEF Idle
  <2>3. CASE dispatch' = [Idle EXCEPT !.msg = taken + 1, !.members = Wanting(taken + 1)]
    BY <1>1, <2>3, WebhooksAssumption DEF Idle, Wanting
  <2>4. Head(queue[Dispatcher]) = taken + 1
    BY DispatcherTakes DEF TakeMessage
  <2>5. QED BY <2>1, <2>2, <2>3, <2>4 DEF TakeMessage
<1>3. ASSUME NEW h \in Hook
      PROVE  GotSoFar(h)' /\ InOrder(h)'
  <2>1. GotSoFar(h) /\ InOrder(h) /\ \A i \in DOMAIN got[h] : got[h][i] \in Nat
    BY DeliveryTypes DEF AtHand
  <2>2. InOrder(h)'
    BY <1>1, <2>1 DEF InOrder
  <2>3. \A i \in DOMAIN got'[h] : got'[h][i] <= taken' /\ got'[h][i] # taken'
    BY <1>1, <2>1 DEF GotSoFar
  <2>4. h \in dispatch'.members => removed[h] = -1 /\ dispatch'.msg = taken'
    BY <1>2, <2>1 DEF GotSoFar
  <2>5. QED BY <1>1, <2>1, <2>2, <2>3, <2>4 DEF GotSoFar
<1>4. QED BY <1>2, <1>3 DEF AtHand

(* The dispatcher has finished with h: another member, or none. *)
LEMMA NextMemberFacts ==
  ASSUME Types, NEW h \in Hook, NextMember(h)
  PROVE  /\ dispatch'.attempt = 0 /\ dispatch'.members = dispatch.members \ {h}
         /\ dispatch'.msg = (IF dispatch.members = {h} THEN 0 ELSE dispatch.msg)
<1>1. dispatch \in DispatchType
  BY DEF Types, WebhooksType
<1>2. CASE dispatch.members = {h}
  BY <1>2 DEF NextMember, Idle
<1>3. CASE dispatch.members # {h}
  BY <1>1, <1>3 DEF NextMember, DispatchType
<1>4. QED BY <1>2, <1>3

LEMMA PostingKeepsOrder ==
  ASSUME Types, AtHand, NEW h \in Hook, PostSucceeds(h) \/ PostFails(h)
  PROVE  AtHand'
<1>1. /\ h \in dispatch.members /\ dispatch.retrying \subseteq {h}
      /\ Receive(h) \/ UNCHANGED got
      /\ hooks' = hooks /\ taken' = taken /\ added' = added /\ removed' = removed
  BY DEF PostSucceeds, PostFails, Current
<1>2. /\ InOrder(h)' /\ \A g \in Hook \ {h} : got'[g] = got[g]
      /\ \A i \in DOMAIN got'[h] : got'[h][i] <= taken
      /\ \A i \in DOMAIN got'[h] :
            got'[h][i] = dispatch.msg => i + (dispatch.attempt + 1) > Len(got'[h])
  BY <1>1, ReceiveInOrder
<1>3. \A g \in Hook : GotSoFar(g) /\ InOrder(g)
  BY DEF AtHand
<1>4. \A g \in Hook : InOrder(g)'
  BY <1>1, <1>2, <1>3 DEF InOrder
<1>5. \A g \in dispatch.members \ {h} : \A i \in DOMAIN got[g] : got[g][i] # dispatch.msg
  BY <1>1, <1>3, DeliveryTypes DEF GotSoFar
<1>6. CASE NextMember(h)
  <2>1. /\ dispatch'.attempt = 0 /\ dispatch'.members = dispatch.members \ {h}
        /\ dispatch'.msg = (IF dispatch.members = {h} THEN 0 ELSE dispatch.msg)
    BY <1>6, NextMemberFacts
  <2>2. ASSUME NEW g \in Hook
        PROVE  GotSoFar(g)'
    <3>1. CASE g = h
      BY <1>1, <1>2, <1>3, <2>1, <3>1 DEF GotSoFar
    <3>2. CASE g # h
      <4>1. g \in dispatch'.members => g \in dispatch.members \ {h} /\ dispatch'.msg = dispatch.msg
        BY <2>1
      <4>2. got'[g] = got[g]
        BY <1>2, <3>2
      <4>3. QED BY <1>1, <1>3, <1>5, <4>1, <4>2 DEF GotSoFar
    <3>3. QED BY <3>1, <3>2
  <2>3. dispatch'.msg \in {0, taken'} /\ dispatch'.attempt < MaxRetries
    BY <1>1, <2>1, WebhooksAssumption DEF AtHand
  <2>4. QED BY <1>4, <2>2, <2>3 DEF AtHand
<1>7. CASE /\ dispatch.attempt + 1 < MaxRetries
           /\ dispatch' = [dispatch EXCEPT !.retrying = {h}, !.attempt = @ + 1]
  <2>1. /\ dispatch'.msg = dispatch.msg /\ dispatch'.members = dispatch.members
        /\ dispatch'.retrying = {h} /\ dispatch'.attempt = dispatch.attempt + 1
    BY <1>7 DEF Types, WebhooksType, DispatchType
  <2>2. ASSUME NEW g \in Hook
        PROVE  GotSoFar(g)'
    <3>1. CASE g = h
      BY <1>1, <1>2, <1>3, <2>1, <3>1 DEF GotSoFar
    <3>2. CASE g # h
      <4>1. got'[g] = got[g]
        BY <1>2, <3>2
      <4>2. g \in dispatch'.members =>
              /\ \A i \in DOMAIN got'[g] : got'[g][i] # dispatch'.msg
              /\ removed'[g] # -1 => dispatch'.msg <= removed'[g]
        BY <1>1, <1>3, <1>5, <2>1, <3>2, <4>1 DEF GotSoFar
      <4>3. QED BY <1>1, <1>3, <4>1, <4>2 DEF GotSoFar
    <3>3. QED BY <3>1, <3>2
  <2>3. dispatch'.msg \in {0, taken'} /\ dispatch'.attempt < MaxRetries
    BY <1>1, <1>7, <2>1 DEF AtHand
  <2>4. QED BY <1>4, <2>2, <2>3 DEF AtHand
<1>8. QED BY <1>6, <1>7 DEF PostSucceeds, PostFails

LEMMA HookingKeepsOrder ==
  ASSUME Types, AtHand, NEW h \in Hook, AddWebhook(h) \/ RemoveWebhook(h)
  PROVE  AtHand'
<1>1. /\ dispatch' = dispatch /\ taken' = taken /\ got' = got /\ taken <= Len(published)
      /\ taken \in Nat /\ Len(published) \in Nat /\ hooks \subseteq Hook
      /\ added \in [Hook -> Int] /\ removed \in [Hook -> Int]
  BY DeliveryTypes DEF AddWebhook, RemoveWebhook, Types, WebhooksType, Numbers
<1>2. \A g \in Hook : GotSoFar(g) /\ InOrder(g)
  BY DEF AtHand
<1>3. CASE AddWebhook(h)
  <2>1. /\ added'[h] = Len(published) /\ added[h] = -1 /\ hooks' = hooks \cup {h}
        /\ removed' = removed /\ \A g \in Hook \ {h} : added'[g] = added[g]
    BY <1>1, <1>3 DEF AddWebhook
  <2>2. removed[h] = -1 /\ added'[h] # -1
    BY <1>1, <1>2, <2>1 DEF GotSoFar
  <2>3. \A g \in Hook : /\ g \in hooks' => removed'[g] = -1 /\ added'[g] # -1
                       /\ removed'[g] # -1 => added'[g] # -1
    BY <1>2, <2>1, <2>2 DEF GotSoFar
  <2>4. QED BY <1>1, <1>2, <2>1, <2>3 DEF AtHand, GotSoFar, InOrder
<1>4. CASE RemoveWebhook(h)
  <2>1. /\ removed'[h] = Len(published) /\ h \in hooks /\ hooks' = hooks \ {h}
        /\ added' = added /\ \A g \in Hook \ {h} : removed'[g] = removed[g]
    BY <1>1, <1>4 DEF RemoveWebhook
  <2>2. \A i \in DOMAIN got[h] : got[h][i] <= Len(published)
    <3>1. \A i \in DOMAIN got[h] : got[h][i] \in Nat /\ got[h][i] <= taken
      BY <1>2, DeliveryTypes DEF GotSoFar
    <3>2. \A a, b, c \in Nat : a <= b /\ b <= c => a <= c
      OBVIOUS
    <3>3. QED BY <1>1, <3>1, <3>2
  <2>3. dispatch.msg <= Len(published)
    BY <1>1 DEF AtHand
  <2>4. ASSUME NEW g \in Hook
        PROVE  GotSoFar(g)' /\ InOrder(g)'
    <3>1. CASE g = h
      <4>1. InOrder(h)'
        BY <1>1, <1>2, <2>1, <2>2 DEF InOrder
      <4>2. GotSoFar(h)'
        BY <1>1, <1>2, <2>1, <2>3 DEF GotSoFar
      <4>3. QED BY <3>1, <4>1, <4>2
    <3>2. CASE g # h
      BY <1>1, <1>2, <2>1, <3>2 DEF GotSoFar, InOrder
    <3>3. QED BY <3>1, <3>2
  <2>5. QED BY <1>1, <2>4 DEF AtHand
<1>5. QED BY <1>3, <1>4

(* What was taken for a webhook and is not at hand was received or given up. *)
Served(h, n) ==
  \/ \E i \in DOMAIN got[h] : got[h][i] = n
  \/ <<h, n>> \in gaveUp
  \/ dispatch.msg = n /\ h \in dispatch.members

Owed(h, n) == added[h] < n /\ n <= taken /\ published[n].type \in Wants[h]

LEMMA DispatchingServes ==
  ASSUME Types, QueuesHaveNoGap, AtHand, TakenIsDelivered, Dispatch
  PROVE  TakenIsDelivered'
<1>1. \A h \in hooks, n \in Numbers : Owed(h, n) => Served(h, n)
  BY DEF TakenIsDelivered, Owed, Served
<1>2. SUFFICES ASSUME NEW h \in hooks', NEW n \in Numbers', Owed(h, n)'
               PROVE  Served(h, n)'
  BY DEF TakenIsDelivered, Owed, Served
<1>3. hooks' = hooks /\ added' = added /\ published' = published
  BY DEF Dispatch, TakeMessage, Take, PostSucceeds, PostFails, bus
<1>4. h \in hooks /\ h \in Hook /\ n \in Numbers /\ n \in Nat
  BY <1>2, <1>3 DEF Numbers, Types, WebhooksType
<1>5. CASE TakeMessage
  <2>1. /\ Head(queue[Dispatcher]) = taken + 1 /\ taken' = taken + 1 /\ taken \in Nat
        /\ got' = got /\ dispatch.msg = 0 /\ dispatch.members = {}
    BY <1>5, DispatcherTakes, DeliveryTypes DEF TakeMessage, Numbers
  <2>2. gaveUp \subseteq gaveUp'
    BY <1>5 DEF TakeMessage
  <2>3. CASE n <= taken
    <3>1. Served(h, n)
      BY <1>1, <1>2, <1>3, <1>4, <2>3 DEF Owed
    <3>2. QED BY <2>1, <2>2, <3>1 DEF Served
  <2>4. CASE ~(n <= taken)
    <3>1. n = taken + 1 /\ h \in Wanting(n)
      BY <1>2, <1>3, <1>4, <2>1, <2>4 DEF Owed, Wanting
    <3>2. CASE dispatch' = (IF Wanting(n) = {} THEN Idle
                            ELSE [Idle EXCEPT !.msg = n, !.members = Wanting(n)])
      BY <3>1, <3>2 DEF Idle, Served
    <3>3. CASE gaveUp' = gaveUp \cup (Wanting(n) \X {n})
      BY <3>1, <3>3 DEF Served
    <3>4. QED BY <1>5, <2>1, <3>1, <3>2, <3>3 DEF TakeMessage
  <2>5. QED BY <2>3, <2>4
<1>6. ASSUME NEW g \in Hook, PostSucceeds(g) \/ PostFails(g)
      PROVE  Served(h, n)'
  <2>1. /\ taken' = taken /\ g \in dispatch.members /\ dispatch.msg \in Numbers
        /\ gaveUp \subseteq gaveUp'
    BY <1>6, DeliveryTypes DEF PostSucceeds, PostFails, Current
  <2>2. Served(h, n)
    BY <1>1, <1>2, <1>3, <1>4, <2>1 DEF Owed
  <2>3. /\ got' = got \/ got' = [got EXCEPT ![g] = Append(got[g], dispatch.msg)]
        /\ got \in [Hook -> Seq(Numbers)]
    BY <1>6 DEF PostSucceeds, PostFails, Receive, Types, WebhooksType
  <2>4. \A i \in DOMAIN got[h] : i \in DOMAIN got'[h] /\ got'[h][i] = got[h][i]
    <3>1. CASE got' = got
      BY <3>1
    <3>2. CASE got' = [got EXCEPT ![g] = Append(got[g], dispatch.msg)]
      <4>1. got[h] \in Seq(Numbers) /\ got'[h] \in {got[h], Append(got[h], dispatch.msg)}
        BY <1>4, <2>3, <3>2
      <4>2. QED BY <2>1, <4>1
    <3>3. QED BY <2>3, <3>1, <3>2
  <2>5. CASE (\E i \in DOMAIN got[h] : got[h][i] = n) \/ <<h, n>> \in gaveUp
    BY <2>1, <2>4, <2>5 DEF Served
  <2>6. CASE dispatch.msg = n /\ h \in dispatch.members
    <3>1. CASE NextMember(g) /\ h # g
      <4>1. /\ dispatch'.members = dispatch.members \ {g}
            /\ dispatch'.msg = (IF dispatch.members = {g} THEN 0 ELSE dispatch.msg)
        BY <3>1, NextMemberFacts
      <4>2. QED BY <2>6, <3>1, <4>1 DEF Served
    <3>2. CASE Receive(g) /\ h = g
      <4>1. got'[g] = Append(got[g], n) /\ got[g] \in Seq(Numbers)
        BY <2>3, <2>6, <3>2 DEF Receive
      <4>2. Len(got[g]) + 1 \in DOMAIN got'[g] /\ got'[g][Len(got[g]) + 1] = n
        BY <1>4, <4>1
      <4>3. QED BY <3>2, <4>2 DEF Served
    <3>3. CASE <<g, dispatch.msg>> \in gaveUp' /\ h = g
      BY <2>6, <3>3 DEF Served
    <3>4. CASE dispatch' = [dispatch EXCEPT !.retrying = {g}, !.attempt = @ + 1]
      <4>1. dispatch'.msg = dispatch.msg /\ dispatch'.members = dispatch.members
        BY <3>4 DEF Types, WebhooksType, DispatchType
      <4>2. QED BY <2>6, <4>1 DEF Served
    <3>5. QED BY <1>6, <3>1, <3>2, <3>3, <3>4 DEF PostSucceeds, PostFails
  <2>7. QED BY <2>2, <2>5, <2>6 DEF Served
<1>7. QED BY <1>5, <1>6 DEF Dispatch

(* A webhook that is added is owed nothing yet, and one that is removed
   nothing any more. *)
LEMMA HookingServes ==
  ASSUME Types, TakenIsDelivered, NEW g \in Hook, AddWebhook(g) \/ RemoveWebhook(g)
  PROVE  TakenIsDelivered'
<1>1. \A h \in hooks, n \in Numbers : Owed(h, n) => Served(h, n)
  BY DEF TakenIsDelivered, Owed, Served
<1>2. SUFFICES ASSUME NEW h \in hooks', NEW n \in Numbers', Owed(h, n)'
               PROVE  Served(h, n)'
  BY DEF TakenIsDelivered, Owed, Served
<1>3. /\ published' = published /\ taken' = taken /\ dispatch' = dispatch
      /\ got' = got /\ gaveUp' = gaveUp /\ n \in Numbers /\ n \in Nat
  BY DEF AddWebhook, RemoveWebhook, bus, Numbers
<1>4. h \in hooks /\ added'[h] = added[h]
  <2>1. CASE RemoveWebhook(g)
    BY <2>1 DEF RemoveWebhook
  <2>2. CASE AddWebhook(g)
    <3>1. /\ added'[g] = Len(published) /\ taken <= Len(published) /\ taken \in Nat
          /\ Len(published) \in Nat
      BY <2>2, DeliveryTypes DEF AddWebhook, Types, WebhooksType
    <3>2. h # g
      BY <1>2, <1>3, <3>1 DEF Owed
    <3>3. QED BY <2>2, <3>2 DEF AddWebhook, Types, WebhooksType
  <2>3. QED BY <2>1, <2>2
<1>5. Served(h, n)
  BY <1>1, <1>2, <1>3, <1>4 DEF Owed
<1>6. QED BY <1>3, <1>5 DEF Served

Delivering == Types /\ QueuesHaveNoGap /\ AtHand /\ TakenIsDelivered

LEMMA InitDelivering == Init => Delivering
<1>1. SUFFICES ASSUME Init PROVE AtHand /\ TakenIsDelivered
  BY InitTypes DEF Delivering
<1>2. WebhooksInit
  BY <1>1 DEF Init
<1>3. AtHand
  BY <1>2, WebhooksAssumption DEF WebhooksInit, AtHand, GotSoFar, InOrder, Idle
<1>4. QED BY <1>2, <1>3 DEF WebhooksInit, TakenIsDelivered

LEMMA StepDelivering == Delivering /\ [Next]_vars => Delivering'
<1> SUFFICES ASSUME Delivering, [Next]_vars PROVE Delivering'
  OBVIOUS
<1> USE DEF Delivering
<1>1. Types' /\ QueuesHaveNoGap' /\ Kept
  BY StepTypes
<1>2. CASE UNCHANGED webhooks
  <2>1. /\ hooks' = hooks /\ dispatch' = dispatch /\ taken' = taken /\ added' = added
        /\ removed' = removed /\ got' = got /\ gaveUp' = gaveUp
    BY <1>2 DEF webhooks
  <2>2. AtHand'
    BY <2>1 DEF AtHand, GotSoFar, InOrder
  <2>3. ASSUME NEW n \in Numbers', n <= taken
        PROVE  n \in Numbers /\ published'[n] = published[n]
    <3>1. n \in Numbers
      BY <2>3, DeliveryTypes DEF Numbers
    <3>2. QED BY <1>1, <3>1 DEF Kept
  <2>4. TakenIsDelivered'
    BY <2>1, <2>3 DEF TakenIsDelivered
  <2>5. QED BY <1>1, <2>2, <2>4
<1>3. CASE Dispatching
  <2>1. CASE TakeMessage
    BY <1>1, <2>1, TakingKeepsOrder, DispatchingServes DEF Dispatch
  <2>2. CASE \E h \in Hook : PostSucceeds(h) \/ PostFails(h)
    BY <1>1, <2>2, PostingKeepsOrder, DispatchingServes DEF Dispatch
  <2>3. QED BY <1>3, <2>1, <2>2 DEF Dispatching, Dispatch
<1>4. CASE Hooking
  BY <1>1, <1>4, HookingKeepsOrder, HookingServes DEF Hooking
<1>5. QED BY <1>2, <1>3, <1>4 DEF Next, Publishing, Streaming, vars

LEMMA AlwaysDelivering == Spec => []Delivering
BY InitDelivering, StepDelivering, PTL DEF Spec

(* Whatever the order in which messages are published, subscriptions come and
   go and posts fail or reach their receiver without an answer, a webhook
   receives the messages in the order they were published, each at most
   WEBHOOK_MAX_RETRIES times, and none published after it was removed. *)
THEOREM WebhooksInOrder == Spec => []DeliveriesInOrder
<1>1. Delivering => DeliveriesInOrder
  BY DEF Delivering, AtHand, InOrder, DeliveriesInOrder
<1>2. QED BY <1>1, AlwaysDelivering, PTL

(* The dispatcher forgets no member: a message it has taken reached every
   webhook that was there and asked for it, was given up, or is at hand. *)
THEOREM TakenReachesWebhooks == Spec => []TakenIsDelivered
<1>1. Delivering => TakenIsDelivered
  BY DEF Delivering
<1>2. QED BY <1>1, AlwaysDelivering, PTL

-----------------------------------------------------------------------------
(* What a listener knows, as long as no call and no write failed.  The tip's
   two keys only move up, each tick stores what it announces before it
   announces it, and what a stream was told covers all it has taken. *)
HeightsNeverFall == \A b, d \in Best : b <= d => Height[b] <= Height[d]

TipOrder ==
  /\ tipHeight <= Height[best] /\ tipHash <= best
  /\ block.pc # "poll" => block.tip <= best
  /\ block.pc \in {"batch", "hash", "height"} => tipHeight <= Height[block.tip]
  /\ block.pc \in {"height", "tiphash"} => tipHash <= block.hash /\ block.hash <= best
  /\ block.pc \in {"tiphash", "announce"} => tipHeight = Height[block.tip]
  /\ block.pc = "announce" => tipHash = block.hash

EventsBelowTip ==
  \A n \in BlockEvents : published[n].height <= tipHeight /\ published[n].hash <= tipHash

EventsSorted ==
  \A m, n \in BlockEvents :
    m <= n => /\ published[m].height <= published[n].height
              /\ published[m].hash <= published[n].hash

Told(c) ==
  \A n \in BlockEvents :
    n <= forwarded[c] =>
      /\ stream[c].pc \in {"hash", "loop"} => published[n].height <= stream[c].height
      /\ stream[c].pc = "loop" => published[n].hash <= stream[c].hash

Fresh ==
  faults = 0 => TipOrder /\ EventsBelowTip /\ EventsSorted /\ \A c \in Client : Told(c)

LEMMA FreshTypes ==
  ASSUME Types
  PROVE  /\ best \in Best /\ best \in Nat /\ tipHeight \in Nat /\ tipHash \in Nat
         /\ block.tip \in Nat /\ block.hash \in Nat /\ block.prev \in Nat
         /\ (block.pc # "poll" => block.tip \in Best) /\ block \in BlockType
         /\ \A b \in Best : Height[b] \in Nat /\ b \in Nat
         /\ \A n \in Numbers : published[n].height \in Nat /\ published[n].hash \in Nat
         /\ faults \in Nat
<1>1. (\A x \in HeightOrNone : x \in Nat) /\ (\A x \in BestOrNone : x \in Nat)
  BY HeightsOfBest DEF HeightOrNone, BestOrNone
<1>2. \A n \in Numbers : published[n] \in Msg
  BY DEF Types, BusType, Numbers
<1>3. QED BY <1>1, <1>2, HeightsOfBest DEF Types, PublishersType, BlockType, Msg

LEMMA InitFresh == Init => Fresh
<1> SUFFICES ASSUME Init PROVE Fresh
  OBVIOUS
<1>1. Types /\ Numbers = {} /\ BlockEvents = {}
  BY InitTypes DEF Init, BusInit, Numbers, BlockEvents
<1>2. best = 1 /\ tipHeight = Height[1] /\ tipHash = 1 /\ block.pc = "poll"
  BY DEF Init, PublishersInit
<1>3. TipOrder
  BY <1>1, <1>2, FreshTypes DEF TipOrder
<1>4. QED BY <1>1, <1>3 DEF Fresh, EventsBelowTip, EventsSorted, Told

(* A tick keeps the order of the tip. *)
LEMMA PublishingKeepsTipOrder ==
  ASSUME HeightsNeverFall, Types, TipOrder, NodeMoves \/ BlockLoop \/ MempoolLoop,
         faults' = 0
  PROVE  /\ TipOrder' /\ tipHeight <= tipHeight' /\ tipHash <= tipHash'
         /\ \/ UNCHANGED bus
            \/ \E msg \in Msg : msg.type # "block" /\ Publish(msg)
            \/ \E msg \in Msg : /\ msg.type = "block" /\ Publish(msg)
                                /\ msg.height = tipHeight' /\ msg.hash = tipHash'
<1>1. /\ best \in Best /\ best \in Nat /\ tipHeight \in Nat /\ tipHash \in Nat
      /\ block.tip \in Nat /\ block.hash \in Nat /\ block.prev \in Nat
      /\ (block.pc # "poll" => block.tip \in Best) /\ block \in BlockType
      /\ \A b \in Best : Height[b] \in Nat /\ b \in Nat
      /\ faults \in Nat
  BY FreshTypes
<1>2. ~Fault
  BY <1>1 DEF Fault
<1>3. CASE NodeMoves
  <2>1. Height[best] <= Height[best + 1] /\ best <= best + 1 /\ best + 1 \in Best
    BY <1>1, <1>3 DEF NodeMoves, HeightsNeverFall
  <2>2. best' = best + 1 /\ tipHeight' = tipHeight /\ tipHash' = tipHash /\ block' = block
        /\ UNCHANGED bus
    BY <1>3 DEF NodeMoves
  <2>3. Height[best + 1] \in Nat /\ Height[best] \in Nat
    BY <1>1, <2>1
  <2>4. /\ tipHeight <= Height[best + 1] /\ tipHash <= best + 1
        /\ block.pc # "poll" => block.tip <= best + 1
        /\ block.hash <= best => block.hash <= best + 1
    BY <1>1, <2>1, <2>3 DEF TipOrder
  <2>5. QED BY <1>1, <2>2, <2>4 DEF TipOrder
<1>4. CASE PollTip \/ CaughtUp
  <2>1. CASE PollTip
    <3>1. /\ block'.pc = "batch" /\ block'.tip = best /\ best' = best /\ UNCHANGED bus
          /\ tipHeight' = tipHeight /\ tipHash' = tipHash
      BY <1>1, <2>1 DEF PollTip, BlockType
    <3>2. QED BY <1>1, <3>1 DEF TipOrder
  <2>2. CASE CaughtUp
    BY <1>1, <2>2 DEF CaughtUp, TipOrder, BlockType
  <2>3. QED BY <1>4, <2>1, <2>2
<1>5. CASE SyncBatch
  <2>1. PICK reached \in Best : Publish(Message("sync", Height[reached], 0))
    BY <1>5, BatchStaysBelowTip DEF SyncBatch
  <2>2. Message("sync", Height[reached], 0) \in Msg
    BY <2>1, HeightsOfBest DEF Message, Msg, BestOrNone
  <2>3. TipOrder' /\ tipHeight' = tipHeight /\ tipHash' = tipHash
    BY <1>1, <1>5 DEF SyncBatch, TipOrder, BlockType
  <2>4. QED BY <1>1, <2>1, <2>2, <2>3 DEF Message
<1>6. CASE ReadBestHash
  BY <1>1, <1>6 DEF ReadBestHash, TipOrder, BlockType
<1>7. CASE StoreTipHeight
  <2>1. Height[block.tip] <= Height[best]
    BY <1>1, <1>7 DEF StoreTipHeight, TipOrder, HeightsNeverFall
  <2>2. QED BY <1>1, <1>7, <2>1 DEF StoreTipHeight, TipOrder, BlockType
<1>8. CASE StoreTipHash
  BY <1>1, <1>8 DEF StoreTipHash, TipOrder, BlockType
<1>9. CASE Announce
  <2>1. /\ TipOrder' /\ tipHeight' = tipHeight /\ tipHash' = tipHash
        /\ tipHeight = Height[block.tip] /\ tipHash = block.hash
    BY <1>1, <1>9 DEF Announce, TipOrder, BlockType
  <2>2. Message("block", Height[block.tip], block.hash) \in Msg
    BY <1>1, <1>9, HeightsOfBest DEF Announce, Message, Msg, BlockType
  <2>3. QED BY <1>1, <1>9, <2>1, <2>2 DEF Announce, Message
<1>10. CASE MempoolStatus
  BY <1>1, <1>10 DEF MempoolStatus, TipOrder
<1>11. CASE MempoolPublish
  <2>1. Message("mempool", 0, 0) \in Msg
    BY DEF Message, Msg, HeightOrNone, BestOrNone
  <2>2. Message("mempool", 0, 0).type # "block"
    BY DEF Message
  <2>3. TipOrder' /\ tipHeight' = tipHeight /\ tipHash' = tipHash
    BY <1>11 DEF MempoolPublish, TipOrder
  <2>4. QED BY <1>1, <1>11, <2>1, <2>2, <2>3 DEF MempoolPublish
<1>12. QED
  BY <1>2, <1>3, <1>4, <1>5, <1>6, <1>7, <1>8, <1>9, <1>10, <1>11
     DEF BlockLoop, MempoolLoop, StoreTipFails, AnnounceFails, Offline, MempoolFails

LEMMA PublishingKeepsFresh ==
  ASSUME HeightsNeverFall, Types, Fresh, Publishing, faults' = 0
  PROVE  Fresh'
<1>1. NodeMoves \/ BlockLoop \/ MempoolLoop
  BY DEF Publishing
<1>2. faults = 0
  <2>1. faults \in Nat /\ (faults' = faults \/ faults' = faults + 1)
    BY <1>1, FreshTypes
       DEF NodeMoves, BlockLoop, MempoolLoop, PollTip, CaughtUp, SyncBatch, ReadBestHash,
           StoreTipHeight, StoreTipHash, StoreTipFails, Announce, AnnounceFails, Offline,
           MempoolStatus, MempoolPublish, MempoolFails, Fault
  <2>2. QED BY <2>1
<1>3. TipOrder /\ EventsBelowTip /\ EventsSorted /\ \A c \in Client : Told(c)
  BY <1>2 DEF Fresh
<1>4. /\ TipOrder' /\ tipHeight <= tipHeight' /\ tipHash <= tipHash'
      /\ \/ UNCHANGED bus
         \/ \E msg \in Msg : msg.type # "block" /\ Publish(msg)
         \/ \E msg \in Msg : /\ msg.type = "block" /\ Publish(msg)
                             /\ msg.height = tipHeight' /\ msg.hash = tipHash'
  BY <1>1, <1>3, PublishingKeepsTipOrder
<1>5. /\ tipHeight \in Nat /\ tipHash \in Nat /\ tipHeight' \in Nat /\ tipHash' \in Nat
      /\ \A n \in BlockEvents : published[n].height \in Nat /\ published[n].hash \in Nat
      /\ BusType /\ Len(published) \in Nat
  <2>1. PublishersType'
    BY PublishedIsKept
  <2>2. tipHeight' \in Nat /\ tipHash' \in Nat
    BY <2>1, HeightsOfBest DEF PublishersType, HeightOrNone, BestOrNone
  <2>3. QED BY <2>2, FreshTypes DEF BlockEvents, Types, BusType
<1>6. \A n \in BlockEvents : published[n].height <= tipHeight' /\ published[n].hash <= tipHash'
  <2>1. \A a, b, d \in Nat : a <= b /\ b <= d => a <= d
    OBVIOUS
  <2>2. QED BY <1>3, <1>4, <1>5, <2>1 DEF EventsBelowTip
<1>7. /\ \A n \in BlockEvents : published'[n] = published[n]
      /\ \/ BlockEvents' = BlockEvents
         \/ LET n == Len(published) + 1 IN
              /\ BlockEvents' = BlockEvents \cup {n}
              /\ published'[n].height = tipHeight' /\ published'[n].hash = tipHash'
  <2>1. CASE UNCHANGED bus
    BY <2>1 DEF bus, BlockEvents, Numbers
  <2>2. ASSUME NEW msg \in Msg, Publish(msg)
        PROVE  /\ Numbers' = Numbers \cup {Len(published) + 1}
               /\ \A n \in Numbers : published'[n] = published[n]
               /\ published'[Len(published) + 1] = msg
    <3>1. /\ Len(published') = Len(published) + 1
          /\ \A n \in Numbers : published'[n] = published[n]
          /\ published'[Len(published) + 1] = msg
      BY <1>5, <2>2, PublishType
    <3>2. QED BY <1>5, <3>1 DEF Numbers
  <2>3. CASE \E msg \in Msg : msg.type # "block" /\ Publish(msg)
    <3>1. /\ Numbers' = Numbers \cup {Len(published) + 1}
          /\ \A n \in Numbers : published'[n] = published[n]
          /\ published'[Len(published) + 1].type # "block"
      BY <2>2, <2>3
    <3>2. BlockEvents' = {n \in Numbers \cup {Len(published) + 1} : published'[n].type = "block"}
      BY <3>1 DEF BlockEvents
    <3>3. QED BY <3>1, <3>2 DEF BlockEvents
  <2>4. CASE \E msg \in Msg : /\ msg.type = "block" /\ Publish(msg)
                            /\ msg.height = tipHeight' /\ msg.hash = tipHash'
    <3>1. /\ Numbers' = Numbers \cup {Len(published) + 1}
          /\ \A n \in Numbers : published'[n] = published[n]
          /\ published'[Len(published) + 1].type = "block"
          /\ published'[Len(published) + 1].height = tipHeight'
          /\ published'[Len(published) + 1].hash = tipHash'
      BY <2>2, <2>4
    <3>2. BlockEvents' = {n \in Numbers \cup {Len(published) + 1} : published'[n].type = "block"}
      BY <3>1 DEF BlockEvents
    <3>3. QED BY <3>1, <3>2 DEF BlockEvents
  <2>5. QED BY <1>4, <2>1, <2>3, <2>4
<1>8. EventsBelowTip'
  BY <1>5, <1>6, <1>7 DEF EventsBelowTip
<1>9. EventsSorted'
  <2>1. ASSUME NEW m \in BlockEvents', NEW n \in BlockEvents', m <= n
        PROVE  /\ published'[m].height <= published'[n].height
               /\ published'[m].hash <= published'[n].hash
    <3>1. m \in Nat /\ n \in Nat /\ \A k \in BlockEvents : k <= Len(published) /\ k \in Nat
      BY <1>5 DEF BlockEvents, Numbers
    <3>2. CASE m \in BlockEvents /\ n \in BlockEvents
      BY <1>3, <1>7, <2>1, <3>2 DEF EventsSorted
    <3>3. CASE n \notin BlockEvents
      <4>1. published'[n].height = tipHeight' /\ published'[n].hash = tipHash'
        BY <1>7, <3>3
      <4>2. QED BY <1>8, <4>1 DEF EventsBelowTip
    <3>4. CASE m \notin BlockEvents /\ n \in BlockEvents
      <4>1. m = Len(published) + 1 /\ n <= Len(published)
        BY <1>7, <3>1, <3>4
      <4>2. QED BY <1>5, <2>1, <3>1, <4>1
    <3>5. QED BY <3>2, <3>3, <3>4
  <2>2. QED BY <2>1 DEF EventsSorted
<1>10. ASSUME NEW c \in Client
       PROVE  Told(c)'
  <2>1. /\ forwarded'[c] = forwarded[c] /\ stream'[c] = stream[c]
        /\ forwarded[c] \in Nat /\ forwarded[c] <= Len(published)
    BY <1>5 DEF Publishing, streams, Types, StreamsType, Numbers
  <2>2. \A n \in BlockEvents' : n <= forwarded[c] => n \in BlockEvents
    BY <1>5, <1>7, <2>1
  <2>3. QED BY <1>3, <1>7, <2>1, <2>2 DEF Told
<1>11. QED BY <1>4, <1>8, <1>9, <1>10 DEF Fresh

LEMMA StreamingKeepsFresh ==
  ASSUME Types, QueuesHaveNoGap, Fresh, Streaming, faults' = 0
  PROVE  Fresh'
<1>1. ~(\E c \in Client : SnapshotFails(c)) /\ faults = 0 /\ UNCHANGED publishers
  <2>1. ~Fault
    BY FreshTypes DEF Fault
  <2>2. QED BY <2>1 DEF Streaming, SnapshotFails, publishers
<1>2. PICK c \in Client : Serve(c) \/ Connect(c) \/ ClientGoes(c)
  BY <1>1 DEF Streaming
<1>3. /\ TipOrder /\ EventsBelowTip /\ EventsSorted /\ \A d \in Client : Told(d)
      /\ TipOrder'
  BY <1>1 DEF Fresh, TipOrder, publishers
<1>4. /\ stream \in [Client -> StreamType] /\ forwarded \in [Client -> Numbers \cup {0}]
      /\ stream[c] \in StreamType
  BY DEF Types, StreamsType
<1>5. published' = published /\ Numbers' = Numbers /\ BlockEvents' = BlockEvents
  BY <1>2 DEF Serve, Connect, SnapshotHeight, SnapshotHash, Forward, Leave, AbandonSnapshot,
              ClientGoes, Take, Subscribe, Unsubscribe, bus, Numbers, BlockEvents
<1>6. EventsBelowTip' /\ EventsSorted'
  BY <1>1, <1>3, <1>5 DEF EventsBelowTip, EventsSorted, publishers
<1>7. \A n \in BlockEvents : /\ n \in Numbers /\ n \in Nat /\ published[n].type = "block"
                            /\ published[n].height \in Nat /\ published[n].hash \in Nat
  BY FreshTypes DEF BlockEvents, Numbers
<1>8. ASSUME NEW d \in Client, d # c
      PROVE  Told(d)'
  <2>1. stream'[d] = stream[d] /\ forwarded'[d] = forwarded[d]
    BY <1>2, <1>4, <1>8 DEF Serve, Connect, SnapshotHeight, SnapshotHash, Forward, Leave,
                            AbandonSnapshot, ClientGoes
  <2>2. QED BY <1>3, <1>5, <2>1 DEF Told
<1>9. Told(c)'
  <2>1. Told(c)
    BY <1>3
  <2>2. CASE Connect(c) \/ Leave(c) \/ AbandonSnapshot(c)
    <3>1. stream'[c].pc \in {"height", "closed"}
      BY <1>4, <2>2 DEF Connect, Leave, AbandonSnapshot, StreamType
    <3>2. QED BY <3>1 DEF Told
  <2>3. CASE ClientGoes(c)
    BY <1>5, <2>1, <2>3 DEF ClientGoes, Told
  <2>4. CASE SnapshotHeight(c)
    <3>1. /\ stream'[c].pc = "hash" /\ stream'[c].height = tipHeight
      BY <1>4, <2>4 DEF SnapshotHeight, StreamType
    <3>2. QED BY <1>3, <1>5, <3>1 DEF Told, EventsBelowTip
  <2>5. CASE SnapshotHash(c)
    <3>1. /\ stream'[c].pc = "loop" /\ stream'[c].hash = tipHash
          /\ stream'[c].height = stream[c].height /\ stream[c].pc = "hash"
          /\ forwarded' = forwarded
      BY <1>4, <2>5 DEF SnapshotHash, StreamType
    <3>2. QED BY <1>3, <1>5, <2>1, <3>1 DEF Told, EventsBelowTip
  <2>6. CASE Forward(c)
    <3>1. /\ stream[c].pc = "loop" /\ Take(c) /\ Reading(c) /\ forwarded'[c] = Head(queue[c])
      BY <1>4, <2>6 DEF Forward, Reading
    <3>2. c \in Subscriber /\ c # Dispatcher /\ BusType
      BY StreamsAssumption, PublicationsAssumption DEF Types
    <3>3. forwarded[c] \in Nat /\ NoGap(c, forwarded[c])
      BY <3>1, <3>2, TakenIsNumber DEF QueuesHaveNoGap, NoGap, LastTaken
    <3>4. Head(queue[c]) = forwarded[c] + 1 /\ forwarded[c] + 1 \in Numbers
      BY <3>1, <3>2, <3>3, TakeFromQueue
    <3>5. CASE published[forwarded[c] + 1].type = "block"
      <4>1. /\ stream'[c].height = published[forwarded[c] + 1].height
            /\ stream'[c].hash = published[forwarded[c] + 1].hash
            /\ forwarded[c] + 1 \in BlockEvents
        BY <1>4, <2>6, <3>4, <3>5 DEF Forward, StreamType, BlockEvents
      <4>2. QED BY <1>3, <1>5, <3>1, <3>4, <4>1 DEF Told, EventsSorted
    <3>6. CASE published[forwarded[c] + 1].type # "block"
      <4>1. stream' = stream
        BY <2>6, <3>4, <3>6 DEF Forward
      <4>2. \A n \in BlockEvents : n <= forwarded[c] + 1 => n <= forwarded[c]
        BY <1>7, <3>3, <3>6
      <4>3. QED BY <1>5, <2>1, <3>1, <3>4, <4>1, <4>2 DEF Told
    <3>7. QED BY <3>5, <3>6
  <2>7. QED BY <1>2, <2>2, <2>3, <2>4, <2>5, <2>6 DEF Serve
<1>10. QED BY <1>3, <1>6, <1>8, <1>9 DEF Fresh

LEMMA StepFresh ==
  ASSUME HeightsNeverFall, Types, QueuesHaveNoGap, Fresh, [Next]_vars
  PROVE  Fresh'
<1> SUFFICES ASSUME faults' = 0 PROVE Fresh'
  BY DEF Fresh
<1>1. CASE Publishing
  BY <1>1, PublishingKeepsFresh
<1>2. CASE Streaming
  BY <1>2, StreamingKeepsFresh
<1>3. CASE Dispatching \/ Hooking \/ UNCHANGED vars
  <2>1. UNCHANGED publishers /\ UNCHANGED streams /\ UNCHANGED published
    BY <1>3, DispatchingTypes, HookingKeepsTypes DEF Dispatching, Hooking, vars, bus
  <2>2. BlockEvents' = BlockEvents
    BY <2>1 DEF BlockEvents, Numbers
  <2>3. QED BY <2>1, <2>2 DEF Fresh, TipOrder, EventsBelowTip, EventsSorted, Told,
                             publishers, streams
<1>4. QED BY <1>1, <1>2, <1>3 DEF Next

LEMMA FreshSuffices ==
  ASSUME Types, QueuesHaveNoGap, Fresh
  PROVE  ListenerKnowsTip
<1> SUFFICES ASSUME NEW c \in Client \cap subscribed, stream[c].pc = "loop", queue[c] = <<>>,
                    faults = 0, NEW n \in BlockEvents
             PROVE  stream[c].height >= published[n].height /\ stream[c].hash >= published[n].hash
  BY DEF ListenerKnowsTip
<1>1. Reading(c) /\ LastTaken(c) = forwarded[c] /\ Len(queue[c]) = 0 /\ c \in Subscriber
  BY PublicationsAssumption, StreamsAssumption DEF Reading, LastTaken
<1>2. forwarded[c] \in Nat /\ forwarded[c] + 0 = Len(published)
  BY <1>1, TakenIsNumber DEF QueuesHaveNoGap
<1>3. n <= forwarded[c] /\ Told(c)
  BY <1>2 DEF BlockEvents, Numbers, Fresh
<1>4. published[n].height <= stream[c].height /\ published[n].hash <= stream[c].hash
  BY <1>3 DEF Told
<1>5. QED BY <1>4

(* As long as no call and no write failed, and the best chain never gets
   shorter, a client that is on the bus with nothing left to forward knows
   every block that was announced, or a later one: the stream joins the bus
   before it reads its snapshot, and the tip is stored before it is announced. *)
THEOREM ListenersKnowTip ==
  ASSUME HeightsNeverFall
  PROVE  Spec => []ListenerKnowsTip
<1> DEFINE IInv == Types /\ QueuesHaveNoGap /\ Fresh
<1>1. Init => IInv
  BY InitTypes, InitFresh
<1>2. IInv /\ [Next]_vars => IInv'
  BY StepTypes, StepFresh
<1>3. IInv => ListenerKnowsTip
  BY FreshSuffices
<1>4. QED BY <1>1, <1>2, <1>3, PTL DEF Spec
=============================================================================
