------------------------------ MODULE Webhooks ------------------------------
(***************************************************************************)
(* Webhook subscriptions and their dispatcher                              *)
(* (backend/app/routes/webhooks.py).  The dispatcher is one more           *)
(* subscriber of the bus: for each message it reads the subscriptions, and *)
(* posts to one after the other, each a bounded number of times.  A post   *)
(* that reports a failure may have reached its receiver all the same.      *)
(***************************************************************************)
EXTENDS EventBus, Integers

CONSTANTS
  Dispatcher,  \* the dispatcher's queue
  Hook,        \* subscription ids, never reused (uuid4)
  Wants,       \* Wants[h]: the event types of subscription h
  MaxRetries   \* WEBHOOK_MAX_RETRIES

ASSUME WebhooksAssumption ==
  /\ Dispatcher \in Subscriber /\ MaxRetries \in Nat \ {0}
  /\ DOMAIN Wants = Hook

VARIABLES
  hooks,     \* Keys.WEBHOOK_SUBSCRIBERS
  dispatch,  \* the dispatcher: message at hand (0 for none), members still
             \* to be served, the one being retried, failed attempts
  taken,     \* number of the last message it took from its queue
  added,     \* hook -> messages published when it was added, -1 before
  removed,   \* hook -> messages published when it was removed, -1 before
  got,       \* history: hook -> numbers received, in order
  gaveUp     \* history: <<hook, number>> not delivered, and never tried again

webhooks == <<hooks, dispatch, taken, added, removed, got, gaveUp>>

Idle == [msg |-> 0, members |-> {}, retrying |-> {}, attempt |-> 0]

\* The dispatcher is on the bus before anything publishes.
WebhooksInit ==
  /\ hooks = {}
  /\ dispatch = Idle /\ taken = 0
  /\ added = [h \in Hook |-> -1] /\ removed = [h \in Hook |-> -1]
  /\ got = [h \in Hook |-> <<>>]
  /\ gaveUp = {}

AddWebhook(h) ==
  /\ added[h] = -1
  /\ hooks' = hooks \cup {h}
  /\ added' = [added EXCEPT ![h] = Len(published)]
  /\ UNCHANGED <<bus, dispatch, taken, removed, got, gaveUp>>

RemoveWebhook(h) ==
  /\ h \in hooks
  /\ hooks' = hooks \ {h}
  /\ removed' = [removed EXCEPT ![h] = Len(published)]
  /\ UNCHANGED <<bus, dispatch, taken, added, got, gaveUp>>

Wanting(n) == {h \in hooks : published[n].type \in Wants[h]}

(* A slip: messages are taken while one is still being delivered. *)
TakeWithoutWaiting ==
  /\ Take(Dispatcher)
  /\ taken' = Head(queue[Dispatcher])
  /\ dispatch' = [Idle EXCEPT !.msg = taken', !.members = Wanting(taken')]
  /\ UNCHANGED <<hooks, added, removed, got, gaveUp>>

\* The members are those at the time the message is taken.  If they cannot be
\* read the message is skipped.
TakeMessage ==
  /\ dispatch.msg = 0
  /\ Take(Dispatcher)
  /\ LET n == Head(queue[Dispatcher]) IN
       /\ taken' = n
       /\ \/ /\ dispatch' = IF Wanting(n) = {} THEN Idle
                              ELSE [Idle EXCEPT !.msg = n, !.members = Wanting(n)]
             /\ UNCHANGED gaveUp
          \/ /\ gaveUp' = gaveUp \cup (Wanting(n) \X {n})
             /\ UNCHANGED dispatch
  /\ UNCHANGED <<hooks, added, removed, got>>

\* The members are served one after the other, in the order of a set.
Current(h) == h \in dispatch.members /\ dispatch.retrying \subseteq {h}

Receive(h) == got' = [got EXCEPT ![h] = Append(@, dispatch.msg)]

\* The dispatcher has finished with a member.
NextMember(h) ==
  dispatch' = IF dispatch.members = {h} THEN Idle
              ELSE [dispatch EXCEPT !.members = @ \ {h}, !.retrying = {}, !.attempt = 0]

PostSucceeds(h) ==
  /\ Current(h)
  /\ Receive(h)
  /\ NextMember(h)
  /\ UNCHANGED <<bus, hooks, taken, added, removed, gaveUp>>

(* A slip: one attempt too many. *)
PostFailsOnceMore(h) ==
  /\ Current(h)
  /\ Receive(h) \/ UNCHANGED got
  /\ IF dispatch.attempt < MaxRetries
     THEN /\ dispatch' = [dispatch EXCEPT !.retrying = {h}, !.attempt = @ + 1]
          /\ UNCHANGED gaveUp
     ELSE /\ NextMember(h)
          /\ gaveUp' = gaveUp \cup {<<h, dispatch.msg>>}
  /\ UNCHANGED <<bus, hooks, taken, added, removed>>

\* An exception: the message did not arrive, or it did and the answer was lost.
PostFails(h) ==
  /\ Current(h)
  /\ Receive(h) \/ UNCHANGED got
  /\ IF dispatch.attempt + 1 < MaxRetries
     THEN /\ dispatch' = [dispatch EXCEPT !.retrying = {h}, !.attempt = @ + 1]
          /\ UNCHANGED gaveUp
     ELSE /\ NextMember(h)
          /\ gaveUp' = gaveUp \cup {<<h, dispatch.msg>>}
  /\ UNCHANGED <<bus, hooks, taken, added, removed>>

Dispatch == TakeMessage \/ \E h \in Hook : PostSucceeds(h) \/ PostFails(h)
=============================================================================
