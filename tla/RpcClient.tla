----------------------------- MODULE RpcClient ------------------------------
(***************************************************************************)
(* The JSON-RPC client (backend/app/rpc/client.py) as its callers share    *)
(* it: single calls and batches over one HTTP client, which a reconnect    *)
(* closes under them.  The node answers a batch in any order, may leave an *)
(* answer out or give one twice, the second an error.                      *)
(***************************************************************************)
EXTENDS Integers, Sequences, FiniteSets

CONSTANTS
  Caller,      \* calls of the program, one each
  BatchSizes,  \* numbers of calls in a batch; a single call is a batch of one
  MaxClients,  \* bound: HTTP clients made
  MaxReconnects

ASSUME RpcClientAssumption ==
  BatchSizes \subseteq Nat \ {0} /\ MaxClients \in Nat /\ MaxReconnects \in Nat

VARIABLES
  http,     \* self._client, 0 for None
  shut,     \* HTTP clients that were closed
  made,     \* HTTP clients made
  sent,     \* self._req_id
  rpc,      \* rpc[k]: [pc, on, ids, got]
  closing,  \* reconnects that wait for aclose
  reconnects

rpcClient == <<http, shut, made, sent, rpc, closing, reconnects>>

NewRpc == [pc |-> "idle", on |-> 0, ids |-> <<>>, got |-> <<>>]
Error  == 0

RpcInit ==
  /\ http = 0 /\ shut = {} /\ made = 0 /\ sent = 0
  /\ rpc = [k \in Caller |-> NewRpc]
  /\ closing = 0 /\ reconnects = 0

\* _ensure_client
Ensured == IF http = 0 \/ http \in shut THEN made + 1 ELSE http

\* call and call_batch, up to the POST.
Post(k) ==
  /\ rpc[k].pc = "idle" /\ Ensured <= MaxClients
  /\ \E n \in BatchSizes :
       /\ sent' = sent + n
       /\ rpc' = [rpc EXCEPT ![k] = [NewRpc EXCEPT !.pc = "posted", !.on = Ensured,
                                       !.ids = [i \in 1..n |-> sent + i]]]
  /\ http' = Ensured
  /\ made' = IF Ensured > made THEN Ensured ELSE made
  /\ UNCHANGED <<shut, closing, reconnects>>

\* What the node may say to a batch of these numbers: the result of a call is
\* its number.
Items(ids) ==
  UNION {{[id |-> ids[j], result |-> r] : r \in {ids[j], Error}} : j \in DOMAIN ids}
Responses(ids) == UNION {[1..n -> Items(ids)] : n \in 0..Len(ids)}

(* A slip: the results are taken in the order they came in. *)
ByArrival(ids, items) ==
  [j \in DOMAIN ids |-> IF j \in DOMAIN items THEN items[j].result ELSE Error]

\* by_id: the last response with a number is the one that counts.
ById(ids, items) ==
  [j \in DOMAIN ids |->
    LET mine == {i \in DOMAIN items : items[i].id = ids[j]} IN
      IF mine = {} THEN Error
      ELSE items[CHOOSE i \in mine : \A o \in mine : o <= i].result]

Respond(k) ==
  /\ rpc[k].pc = "posted" /\ rpc[k].on \notin shut
  /\ \E items \in Responses(rpc[k].ids) :
       rpc' = [rpc EXCEPT ![k] = [NewRpc EXCEPT !.pc = "answered", !.ids = rpc[k].ids,
                                    !.got = ById(rpc[k].ids, items)]]
  /\ UNCHANGED <<http, shut, made, sent, closing, reconnects>>

\* No connection, a timeout, no JSON, no list, or the HTTP client was closed.
PostFails(k) ==
  /\ rpc[k].pc = "posted"
  /\ rpc' = [rpc EXCEPT ![k] = [NewRpc EXCEPT !.pc = "failed"]]
  /\ UNCHANGED <<http, shut, made, sent, closing, reconnects>>

\* reconnect marks the client as closed, waits, and forgets whichever client
\* there is by then.
BeginReconnect ==
  /\ reconnects < MaxReconnects /\ http # 0
  /\ shut' = shut \cup {http}
  /\ closing' = closing + 1 /\ reconnects' = reconnects + 1
  /\ UNCHANGED <<http, made, sent, rpc>>

EndReconnect ==
  /\ closing > 0
  /\ http' = 0
  /\ closing' = closing - 1
  /\ UNCHANGED <<shut, made, sent, rpc, reconnects>>

RpcStep(k) == Respond(k) \/ PostFails(k)

RpcNext ==
  \/ \E k \in Caller : Post(k) \/ RpcStep(k)
  \/ BeginReconnect \/ EndReconnect
-----------------------------------------------------------------------------
(* In the place of each call of a batch is the node's answer to that call, or *)
(* an error, never the answer to another call of this batch or another one,   *)
(* in whatever order and number they come.                                    *)
ResultsInOrder ==
  \A k \in Caller : rpc[k].pc = "answered" =>
    /\ DOMAIN rpc[k].got = DOMAIN rpc[k].ids
    /\ \A j \in DOMAIN rpc[k].got : rpc[k].got[j] \in {rpc[k].ids[j], Error}
    /\ \A o \in Caller \ {k} : \A j \in DOMAIN rpc[k].got :
         rpc[k].got[j] # Error => rpc[k].got[j] \notin {rpc[o].ids[i] : i \in DOMAIN rpc[o].ids}
=============================================================================
