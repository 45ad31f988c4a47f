---------------------------- MODULE Publications ----------------------------
(***************************************************************************)
(* The indexer's announcements, the connections that forward them and the  *)
(* webhook dispatcher, around one event bus.                               *)
(***************************************************************************)
EXTENDS Streams, Webhooks

ASSUME PublicationsAssumption == Dispatcher \notin Client

\* Bound: the behaviours have connections or webhooks, not both.  The two meet
\* only in the bus, where every subscriber has a queue of its own.  Those with
\* connections have the faults of the indexer, those with webhooks the mempool.
VARIABLE audience

vars == <<bus, publishers, streams, webhooks, audience>>

Init ==
  /\ audience \in {"streams", "webhooks"}
  /\ BusInit(IF audience = "webhooks" THEN {Dispatcher} ELSE {})
  /\ IF audience = "webhooks"
     THEN PublishersInit(1, 0, MaxMempool) ELSE PublishersInit(1, MaxFaults, 0)
  /\ StreamsInit /\ WebhooksInit

Publishing == (NodeMoves \/ BlockLoop \/ MempoolLoop) /\ UNCHANGED <<streams, webhooks, audience>>

Serving(c) == Serve(c) /\ UNCHANGED <<publishers, webhooks, audience>>

Streaming ==
  /\ audience = "streams"
  /\ \E c \in Client :
       \/ /\ \/ Serve(c)
             \/ (\A o \in Client : stream[o].pc = "new") /\ Connect(c)
             \/ ClientGoes(c)
          /\ UNCHANGED publishers
       \/ /\ SnapshotFails(c)
          /\ UNCHANGED <<best, tipHeight, tipHash, phase, indexed, block, mempool, lost>>
  /\ UNCHANGED <<webhooks, audience>>

Dispatching == Dispatch /\ UNCHANGED <<publishers, streams, audience>>

Hooking ==
  /\ audience = "webhooks"
  /\ \E h \in Hook : AddWebhook(h) \/ RemoveWebhook(h)
  /\ UNCHANGED <<publishers, streams, audience>>

Next == Publishing \/ Streaming \/ Dispatching \/ Hooking

\* The loops are tasks of the event loop, and every wait in them has a
\* timeout; clients and the node owe nothing.
Spec ==
  /\ Init /\ [][Next]_vars
  /\ WF_vars(BlockLoop /\ UNCHANGED <<streams, webhooks, audience>>)
  /\ WF_vars(Dispatching)
  /\ \A c \in Client : WF_vars(Serving(c))
-----------------------------------------------------------------------------
Numbers == 1..Len(published)

TypeOK ==
  /\ published \in Seq([type : {"block", "sync", "mempool"},
                        height : {Height[b] : b \in Best} \cup {0}, hash : Best \cup {0}])
  /\ subscribed \subseteq Subscriber
  /\ queue \in [Subscriber -> Seq(Numbers)]
  /\ \A s \in Subscriber : Len(queue[s]) <= QueueSize
  /\ best \in Best /\ tipHash \in Best \cup {0} /\ indexed \in Best \cup {0}
  /\ phase \in {"syncing", "live", "rpc_offline"} /\ lost \in BOOLEAN
  /\ block.pc \in {"poll", "batch", "hash", "height", "tiphash", "announce"}
  /\ mempool \in [pc : {"status", "build"}, left : 0..MaxMempool]
  /\ \A c \in Client : stream[c].pc \in {"new", "height", "hash", "loop", "closed"}
  /\ gone \subseteq Client /\ hooks \subseteq Hook
  /\ dispatch.msg \in Numbers \cup {0} /\ dispatch.members \subseteq Hook
  /\ dispatch.attempt \in 0..MaxRetries
  /\ got \in [Hook -> Seq(Numbers)] /\ gaveUp \subseteq Hook \X Numbers

\* The last message a queue's reader took.
LastTaken(s) == IF s = Dispatcher THEN taken ELSE forwarded[s]

Reading(s) == s = Dispatcher \/ (s \in Client /\ stream[s].pc \in {"height", "hash", "loop"})

(* A reader never misses a message and hears on: its queue goes on where it   *)
(* stopped reading, with no gap, and reaches the last message published as    *)
(* long as it is on the bus (EventBus.publish takes a full queue off it).     *)
QueuesHaveNoGap ==
  \A s \in Subscriber : Reading(s) =>
    /\ \A i \in DOMAIN queue[s] : queue[s][i] = LastTaken(s) + i
    /\ s \in subscribed => LastTaken(s) + Len(queue[s]) = Len(published)

BlockEvents == {n \in Numbers : published[n].type = "block"}

(* A client that is told nothing new knows the last block announced, or one   *)
(* stored since: the stream subscribes before it reads the snapshot, so that  *)
(* a block announced in between is not lost to it.  Failed writes of the tip  *)
(* void this: the block is announced and the snapshot is older.               *)
ListenerKnowsTip ==
  \A c \in Client \cap subscribed :
    /\ stream[c].pc = "loop" /\ queue[c] = <<>> /\ c \notin gone
    /\ faults = 0
    => \A n \in BlockEvents : /\ stream[c].height >= published[n].height
                              /\ stream[c].hash >= published[n].hash

(* A webhook receives the messages in the order they were published, none     *)
(* more often than there are attempts, none published before the dispatcher's *)
(* last, and none published after it was removed.                             *)
DeliveriesInOrder ==
  \A h \in Hook :
    /\ \A i \in DOMAIN got[h] :
         /\ i > 1 => got[h][i - 1] <= got[h][i]
         /\ i > MaxRetries => got[h][i - MaxRetries] < got[h][i]
         /\ removed[h] # -1 => got[h][i] <= removed[h]

(* Every message of a type a webhook asked for, published after it was added  *)
(* and taken by the dispatcher, reached it, was given up after the last       *)
(* attempt or for want of the list of webhooks, or is at hand.                *)
TakenIsDelivered ==
  \A h \in hooks, n \in Numbers :
    added[h] < n /\ n <= taken /\ published[n].type \in Wants[h] =>
      \/ \E i \in DOMAIN got[h] : got[h][i] = n
      \/ <<h, n>> \in gaveUp
      \/ dispatch.msg = n /\ h \in dispatch.members

(* A client that stays connected and on the bus, and was told any tip, comes  *)
(* to know the height of the node's, whatever calls and writes fail, unless   *)
(* an announcement failed after its height was stored: the next tick takes    *)
(* that height for announced already.                                         *)
ListenersLearnHeight ==
  \A c \in Client :
    /\ <>[](stream[c].pc = "loop" /\ c \in subscribed \ gone /\ stream[c].height # 0)
    /\ []~lost
    => <>[](stream[c].height = Height[best])

(* The queue of a client that went away leaves the bus: at once by the        *)
(* finally clause, except for a server-sent stream that had not yet sent its  *)
(* snapshot.                                                                  *)
LeaversUnsubscribe ==
  \A c \in Client :
    (c \in gone /\ (c \in Sse => stream[c].pc = "loop")) ~> c \notin subscribed
=============================================================================
