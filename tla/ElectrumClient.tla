--------------------------- MODULE ElectrumClient ---------------------------
(***************************************************************************)
(* The ElectrumX client (backend/app/electrumx/client.py): concurrent      *)
(* calls share one connection; a read loop gives each answer to the future *)
(* that waits under its number.  The loop reads self._reader afresh each   *)
(* time round, and the cleanup after a lost connection waits for a writer  *)
(* to close before it forgets both, so a loop and a cleanup may meet the   *)
(* connection that replaced theirs.                                        *)
(***************************************************************************)
EXTENDS Integers, Sequences, FiniteSets

CONSTANTS
  Call,           \* calls of the routes, one each, positive numbers
  MaxConnections  \* bound: connections opened

ASSUME ElectrumClientAssumption == Call \subseteq Nat \ {0} /\ MaxConnections \in Nat

VARIABLES
  closed,   \* self._closed
  reader,   \* self._reader: a connection, 0 for None
  writer,   \* self._writer
  lock,     \* who holds self._lock, 0 for nobody
  reqId,    \* self._req_id
  pending,  \* self._pending: numbers with a future
  conns,    \* conns[c]: [open, asked, inbox], the two ends of a connection
  loops,    \* loops[c]: the read loop that connection c started, [pc, on]
  calls     \* calls[k]: [pc, id, on, answer], on the connection it wrote to

electrum == <<closed, reader, writer, lock, reqId, pending, conns, loops, calls>>

NewCall == [pc |-> "idle", id |-> 0, on |-> 0, answer |-> 0]
Calling(k) == calls[k].pc \notin {"idle", "answered", "failed"}

ElectrumInit ==
  /\ closed = TRUE /\ reader = 0 /\ writer = 0 /\ lock = 0
  /\ reqId = 0 /\ pending = {}
  /\ conns = <<>> /\ loops = <<>>
  /\ calls = [k \in Call |-> NewCall]

At(k, pc)  == calls' = [calls EXCEPT ![k] = [NewCall EXCEPT !.pc = pc]]
Fails(k)   == calls' = [calls EXCEPT ![k] = [NewCall EXCEPT !.pc = "failed"]]
Release(k) == lock' = IF lock = k THEN 0 ELSE lock
-----------------------------------------------------------------------------
(* Calls *)
Begin(k) ==
  /\ calls[k].pc = "idle"
  /\ At(k, "ensure")
  /\ UNCHANGED <<closed, reader, writer, lock, reqId, pending, conns, loops>>

\* _ensure_connected: an open connection needs no lock for longer than this.
Ensure(k) ==
  /\ calls[k].pc = "ensure" /\ lock = 0
  /\ IF closed \/ writer = 0
     THEN lock' = k /\ At(k, "opening")
     ELSE At(k, "send") /\ UNCHANGED lock
  /\ UNCHANGED <<closed, reader, writer, reqId, pending, conns, loops>>

\* A request on the connection c: its number, and who waits.
Ask(k, c, pc) ==
  /\ reqId' = reqId + 1
  /\ pending' = pending \cup {reqId'}
  /\ calls' = [calls EXCEPT ![k].pc = pc, ![k].id = reqId', ![k].on = c]

(* A slip: each connection numbers its requests from 1. *)
OpenRenumbering(k) ==
  LET c == Len(conns) + 1 IN
    /\ calls[k].pc = "opening" /\ Len(conns) < MaxConnections
    /\ conns' = Append(conns, [open |-> TRUE, asked |-> {<<1, k>>}, inbox |-> <<>>])
    /\ loops' = Append(loops, [pc |-> "start", on |-> 0])
    /\ reader' = c /\ writer' = c /\ closed' = FALSE
    /\ reqId' = 1 /\ pending' = pending \cup {1}
    /\ calls' = [calls EXCEPT ![k].pc = "shaking", ![k].id = 1, ![k].on = c]
    /\ UNCHANGED lock

\* The connection is there: its read loop is started and the version asked for.
Open(k) ==
  LET c == Len(conns) + 1 IN
    /\ calls[k].pc = "opening" /\ Len(conns) < MaxConnections
    /\ Ask(k, c, "shaking")
    /\ conns' = Append(conns, [open |-> TRUE, asked |-> {<<reqId', k>>}, inbox |-> <<>>])
    /\ loops' = Append(loops, [pc |-> "start", on |-> 0])
    /\ reader' = c /\ writer' = c /\ closed' = FALSE
    /\ UNCHANGED lock

(* A slip: the lock is kept when the connection cannot be opened. *)
OpenFailsLocked(k) ==
  /\ calls[k].pc = "opening"
  /\ Fails(k)
  /\ UNCHANGED <<closed, reader, writer, lock, reqId, pending, conns, loops>>

OpenFails(k) ==
  /\ calls[k].pc = "opening"
  /\ Fails(k) /\ Release(k)
  /\ UNCHANGED <<closed, reader, writer, reqId, pending, conns, loops>>

\* _send_unlocked.  Without a writer its assertion fails; a writer whose
\* connection is gone raises, or takes the bytes that nobody will read.
Send(k) ==
  /\ calls[k].pc = "send"
  /\ \/ /\ writer # 0
        /\ Ask(k, writer, "waiting")
        /\ conns' = IF conns[writer].open
                    THEN [conns EXCEPT ![writer].asked = @ \cup {<<reqId', k>>}] ELSE conns
        /\ UNCHANGED closed
     \/ /\ writer # 0 /\ ~conns[writer].open
        /\ reqId' = reqId + 1 /\ closed' = TRUE /\ Fails(k)
        /\ UNCHANGED <<pending, conns>>
     \/ /\ writer = 0
        /\ Fails(k)
        /\ UNCHANGED <<closed, reqId, pending, conns>>
  /\ UNCHANGED <<reader, writer, lock, loops>>

\* The connection is lost while the bytes drain, and not yet replaced.
SendBreaks(k) ==
  /\ calls[k].pc \in {"shaking", "waiting"}
  /\ calls[k].on = writer /\ ~conns[writer].open
  /\ pending' = pending \ {calls[k].id} /\ closed' = TRUE
  /\ IF calls[k].pc = "shaking" THEN At(k, "send") ELSE Fails(k)
  /\ Release(k)
  /\ UNCHANGED <<reader, writer, reqId, conns, loops>>

(* A slip: only the handshake has a timeout. *)
TimeoutOfHandshake(k) ==
  /\ calls[k].pc = "shaking"
  /\ pending' = pending \ {calls[k].id}
  /\ At(k, "send") /\ Release(k)
  /\ UNCHANGED <<closed, reader, writer, reqId, conns, loops>>

\* wait_for of the client: the future is forgotten.  The handshake's error is
\* logged and its call goes on.
Timeout(k) ==
  /\ calls[k].pc \in {"shaking", "waiting"}
  /\ pending' = pending \ {calls[k].id}
  /\ IF calls[k].pc = "shaking" THEN At(k, "send") ELSE Fails(k)
  /\ Release(k)
  /\ UNCHANGED <<closed, reader, writer, reqId, conns, loops>>

\* wait_for of the route, which is shorter, cancels the call wherever it is;
\* the future stays under its number.
Cancel(k) ==
  /\ Calling(k)
  /\ Fails(k) /\ Release(k)
  /\ UNCHANGED <<closed, reader, writer, reqId, pending, conns, loops>>
-----------------------------------------------------------------------------
(* The server and the network *)
ServerAnswers(c) ==
  \E q \in conns[c].asked :
    /\ conns[c].open
    /\ conns' = [conns EXCEPT ![c].asked = @ \ {q}, ![c].inbox = Append(@, q)]
    /\ UNCHANGED <<closed, reader, writer, lock, reqId, pending, loops, calls>>

Drop(c) ==
  /\ conns[c].open
  /\ conns' = [conns EXCEPT ![c].open = FALSE, ![c].asked = {}]
  /\ UNCHANGED <<closed, reader, writer, lock, reqId, pending, loops, calls>>
-----------------------------------------------------------------------------
(* The read loops *)

\* Who waits under the number i, and what he gets.
Resolve(i, said) ==
  calls' = [k \in Call |->
    CASE i \in pending /\ calls[k].id = i /\ calls[k].pc = "waiting" ->
           [NewCall EXCEPT !.pc = "answered", !.answer = said]
      [] i \in pending /\ calls[k].id = i /\ calls[k].pc = "shaking" ->
           [NewCall EXCEPT !.pc = "send"]
      [] OTHER -> calls[k]]

\* The lock is released by the call whose handshake is answered.
ShakenOff(ids) ==
  lock' = IF lock # 0 /\ calls[lock].pc = "shaking" /\ calls[lock].id \in ids \cap pending
          THEN 0 ELSE lock

\* The new task starts; without a reader its assertion ends it.
LoopStart(l) ==
  /\ loops[l].pc = "start"
  /\ loops' = [loops EXCEPT ![l].pc = IF reader = 0 THEN "ended" ELSE "top"]
  /\ UNCHANGED <<closed, reader, writer, lock, reqId, pending, conns, calls>>

\* Round the loop: the reader of this moment, unless it is None or another loop
\* is waiting on it, which raises.
LoopTop(l) ==
  /\ loops[l].pc = "top"
  /\ loops' = [loops EXCEPT ![l] =
       IF closed \/ reader = 0 \/ \E o \in DOMAIN loops : loops[o] = [pc |-> "read", on |-> reader]
       THEN [pc |-> "cleanup", on |-> 0] ELSE [pc |-> "read", on |-> reader]]
  /\ UNCHANGED <<closed, reader, writer, lock, reqId, pending, conns, calls>>

LoopRead(l) ==
  LET c == loops[l].on
      first == conns[c].inbox[1]
  IN /\ loops[l].pc = "read" /\ conns[c].inbox # <<>>
     /\ conns' = [conns EXCEPT ![c].inbox = Tail(@)]
     /\ Resolve(first[1], first[2]) /\ ShakenOff({first[1]})
     /\ pending' = pending \ {first[1]}
     /\ loops' = [loops EXCEPT ![l] = [pc |-> "top", on |-> 0]]
     /\ UNCHANGED <<closed, reader, writer, reqId>>

LoopEnd(l) ==
  /\ loops[l].pc = "read"
  /\ conns[loops[l].on].inbox = <<>> /\ ~conns[loops[l].on].open
  /\ loops' = [loops EXCEPT ![l] = [pc |-> "cleanup", on |-> 0]]
  /\ UNCHANGED <<closed, reader, writer, lock, reqId, pending, conns, calls>>

\* _cleanup_after_disconnect up to the wait: every future fails, and whatever
\* writer there is now is closed.
Cleanup(l) ==
  /\ loops[l].pc = "cleanup"
  /\ closed' = TRUE
  /\ calls' = [k \in Call |->
       CASE calls[k].id \in pending /\ calls[k].pc = "waiting" ->
              [NewCall EXCEPT !.pc = "failed"]
         [] calls[k].id \in pending /\ calls[k].pc = "shaking" ->
              [NewCall EXCEPT !.pc = "send"]
         [] OTHER -> calls[k]]
  /\ ShakenOff(pending)
  /\ pending' = {}
  /\ conns' = IF writer = 0 THEN conns
              ELSE [conns EXCEPT ![writer].open = FALSE, ![writer].asked = {}]
  /\ loops' = [loops EXCEPT ![l].pc = "closing"]
  /\ UNCHANGED <<reader, writer, reqId>>

\* wait_closed is over.
Forget(l) ==
  /\ loops[l].pc = "closing"
  /\ reader' = 0 /\ writer' = 0
  /\ loops' = [loops EXCEPT ![l].pc = "ended"]
  /\ UNCHANGED <<closed, lock, reqId, pending, conns, calls>>

LoopStep(l) == LoopStart(l) \/ LoopTop(l) \/ LoopRead(l) \/ LoopEnd(l)
               \/ Cleanup(l) \/ Forget(l)

CallStep(k) == Ensure(k) \/ Open(k) \/ OpenFails(k) \/ Send(k) \/ SendBreaks(k) \/ Timeout(k)

ElectrumNext ==
  \/ \E k \in Call : Begin(k) \/ CallStep(k) \/ Cancel(k)
  \/ \E c \in DOMAIN conns : ServerAnswers(c) \/ Drop(c)
  \/ \E l \in DOMAIN loops : LoopStep(l)
-----------------------------------------------------------------------------
(* A call that is answered gets what the server said to it, and never the     *)
(* late answer to one that timed out, was cancelled or was asked on another   *)
(* connection, whichever loop reads it.                                       *)
AnswersAreTheirOwn ==
  \A k \in Call : calls[k].pc = "answered" => calls[k].answer = k

(* One connection at a time is open, as the module's first lines say.         *)
OneConnection == Cardinality({c \in DOMAIN conns : conns[c].open}) <= 1
=============================================================================
