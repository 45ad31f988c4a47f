------------------------------ MODULE Streams -------------------------------
(***************************************************************************)
(* The two endpoints that pass events on to clients                        *)
(* (backend/app/routes/sse.py and backend/app/routes/ws.py).  Each         *)
(* connection subscribes, sends the stored tip as a snapshot and then      *)
(* forwards its queue until the client is gone.  The mempool and price of  *)
(* the snapshot are left out.                                              *)
(***************************************************************************)
EXTENDS Publishers

CONSTANTS
  Client,  \* connections, a subset of Subscriber
  Sse      \* those over server-sent events; the others are WebSockets

ASSUME StreamsAssumption == Client \subseteq Subscriber /\ Sse \subseteq Client

VARIABLES
  stream,    \* connection -> [pc, height, hash], the tip its client was told, or
             \* zeros
  gone,      \* connections whose client went away
  forwarded  \* connection -> number of the last message it took

streams == <<stream, gone, forwarded>>

StreamsInit ==
  /\ stream = [c \in Client |-> [pc |-> "new", height |-> 0, hash |-> 0]]
  /\ gone = {}
  /\ forwarded = [c \in Client |-> 0]

Connect(c) ==
  /\ stream[c].pc = "new"
  /\ Subscribe(c)
  /\ stream' = [stream EXCEPT ![c].pc = "height"]
  /\ forwarded' = [forwarded EXCEPT ![c] = Len(published)]
  /\ UNCHANGED gone

SnapshotHeight(c) ==
  /\ stream[c].pc = "height"
  /\ stream' = [stream EXCEPT ![c].pc = "hash", ![c].height = tipHeight]
  /\ UNCHANGED <<bus, gone, forwarded>>

(* A slip: the stream subscribes once its snapshot is complete. *)
SnapshotThenSubscribe(c) ==
  /\ stream[c].pc = "hash"
  /\ stream' = [stream EXCEPT ![c].pc = "loop", ![c].hash = tipHash]
  /\ Subscribe(c)
  /\ forwarded' = [forwarded EXCEPT ![c] = Len(published)]
  /\ UNCHANGED gone

SnapshotHash(c) ==
  /\ stream[c].pc = "hash"
  /\ stream' = [stream EXCEPT ![c].pc = "loop", ![c].hash = tipHash]
  /\ UNCHANGED <<bus, gone, forwarded>>

\* A key cannot be read: no snapshot is sent, and the stream goes on.
SnapshotFails(c) ==
  /\ stream[c].pc \in {"height", "hash"} /\ Fault
  /\ stream' = [stream EXCEPT ![c] = [pc |-> "loop", height |-> 0, hash |-> 0]]
  /\ UNCHANGED <<bus, gone, forwarded>>

\* One message is taken and sent; a block event replaces the client's tip.
Forward(c) ==
  /\ stream[c].pc = "loop" /\ c \notin gone
  /\ Take(c)
  /\ LET n == Head(queue[c]) IN
       /\ forwarded' = [forwarded EXCEPT ![c] = n]
       /\ stream' = IF published[n].type = "block"
                    THEN [stream EXCEPT ![c].height = published[n].height,
                                        ![c].hash = published[n].hash]
                    ELSE stream
  /\ UNCHANGED gone

ClientGoes(c) ==
  /\ stream[c].pc \in {"height", "hash", "loop"} /\ c \notin gone
  /\ gone' = gone \cup {c}
  /\ UNCHANGED <<bus, stream, forwarded>>

(* A slip: no finally clause. *)
LeaveSubscribed(c) ==
  /\ stream[c].pc = "loop" /\ c \in gone
  /\ stream' = [stream EXCEPT ![c].pc = "closed"]
  /\ UNCHANGED <<bus, gone, forwarded>>

\* Noticed at the top of the loop, by the cancellation of the response or, on
\* a WebSocket, by the next message or ping; the finally clause unsubscribes.
Leave(c) ==
  /\ stream[c].pc = "loop" /\ c \in gone
  /\ Unsubscribe(c)
  /\ stream' = [stream EXCEPT ![c].pc = "closed"]
  /\ UNCHANGED <<gone, forwarded>>

\* A server-sent stream that is cancelled while it sends its snapshot has not
\* entered the try whose finally unsubscribes.
AbandonSnapshot(c) ==
  /\ c \in Sse \cap gone /\ stream[c].pc \in {"height", "hash"}
  /\ stream' = [stream EXCEPT ![c].pc = "closed"]
  /\ UNCHANGED <<bus, gone, forwarded>>

Serve(c) ==
  \/ SnapshotHeight(c) \/ SnapshotHash(c) \/ Forward(c)
  \/ Leave(c) \/ AbandonSnapshot(c)
=============================================================================
