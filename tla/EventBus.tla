------------------------------ MODULE EventBus ------------------------------
(***************************************************************************)
(* The in-process event bus (backend/app/services/events.py).  Every       *)
(* subscriber has a bounded queue; publishing puts the message into each   *)
(* queue, and a subscriber whose queue is full is taken off the bus without *)
(* being told.  The lock is never held across an await, so each operation  *)
(* is one step.  The mirror to Redis does nothing on this store.           *)
(*                                                                         *)
(* Messages are numbered in the order they are published; a queue holds    *)
(* numbers.                                                                *)
(***************************************************************************)
EXTENDS Naturals, Sequences

CONSTANTS
  Subscriber,  \* the queues that are ever created
  QueueSize    \* asyncio.Queue(maxsize=64)

ASSUME BusAssumption == QueueSize \in Nat \ {0}

VARIABLES
  published,   \* every message so far, [type, height, hash]
  subscribed,  \* EventBus._subscribers
  queue        \* subscriber -> numbers of the messages waiting

bus == <<published, subscribed, queue>>

BusInit(first) ==
  /\ published = <<>>
  /\ subscribed = first
  /\ queue = [s \in Subscriber |-> <<>>]

(* A slip: the bound is tested one too late. *)
FullTooLate(s) == Len(queue[s]) > QueueSize

Full(s) == Len(queue[s]) >= QueueSize

\* A new queue joins the bus.
Subscribe(s) ==
  /\ subscribed' = subscribed \cup {s}
  /\ queue' = [queue EXCEPT ![s] = <<>>]
  /\ UNCHANGED published

\* The queue leaves the bus and is dropped by its only reader.
Unsubscribe(s) ==
  /\ subscribed' = subscribed \ {s}
  /\ queue' = [queue EXCEPT ![s] = <<>>]
  /\ UNCHANGED published

(* A slip: the queue that is full loses the message and stays on the bus. *)
PublishSkippingFull(msg) ==
  /\ published' = Append(published, msg)
  /\ queue' = [s \in Subscriber |->
                 IF s \in subscribed /\ ~Full(s)
                 THEN Append(queue[s], Len(published) + 1) ELSE queue[s]]
  /\ UNCHANGED subscribed

\* Local fan-out; the queues that were full are discarded from the bus, their
\* readers keep what is in them.
Publish(msg) ==
  /\ published' = Append(published, msg)
  /\ queue' = [s \in Subscriber |->
                 IF s \in subscribed /\ ~Full(s)
                 THEN Append(queue[s], Len(published) + 1) ELSE queue[s]]
  /\ subscribed' = {s \in subscribed : ~Full(s)}

\* await queue.get()
Take(s) ==
  /\ queue[s] # <<>>
  /\ queue' = [queue EXCEPT ![s] = Tail(@)]
  /\ UNCHANGED <<published, subscribed>>
=============================================================================
