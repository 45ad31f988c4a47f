---------------------------- MODULE SupplyCache -----------------------------
(***************************************************************************)
(* The circulating supply (backend/app/routes/stats.py): a scan of the     *)
(* node's outputs, one at a time, kept for a while; when it fails the      *)
(* emission formula at the node's height, kept for a shorter while.  A     *)
(* request's idea of the time is that of its first look at the row.                      *)
(***************************************************************************)
EXTENDS Integers

CONSTANTS
  Asking,        \* requests for the supply, one each
  SupplyTTL,     \* SUPPLY_CACHE_TTL
  FallbackLife,  \* life of the row of a fallback
  ScanTime,      \* timeout of the scan
  LastTime       \* bound

ASSUME SupplyCacheAssumption ==
  /\ SupplyTTL \in Nat \ {0} /\ FallbackLife \in Nat \ {0}
  /\ ScanTime \in Nat /\ LastTime \in Nat

VARIABLES
  time,     \* time.time()
  supply,   \* row SUPPLY_INFO: [source, computedAt, until, height]; made is
            \* the time the number really is of
  scanning, \* who holds _supply_lock
  asking    \* asking[q]: the handler's local state and its answer

supplies == <<time, supply, scanning, asking>>

NoRow   == [source |-> "none", computedAt |-> 0, until |-> 0, made |-> 0]
Nobody  == "nobody"
NewAsk  == [pc |-> "idle", now |-> 0, since |-> 0, source |-> "none", made |-> 0, stale |-> FALSE]
Asked(q) == asking[q].pc \in {"ask", "wait", "scan", "fallback"}

SupplyInit ==
  /\ time = 0 /\ supply = NoRow /\ scanning = Nobody
  /\ asking = [q \in Asking |-> NewAsk]

\* The scan is given up after ScanTime; waiting for its turn has no limit.
TimeGoesOn ==
  /\ time < LastTime
  /\ \A q \in Asking : asking[q].pc = "scan" => time < asking[q].since + ScanTime
  /\ time' = time + 1
  /\ UNCHANGED <<supply, scanning, asking>>

(* A slip: a row is fresh as long as the store has it. *)
FreshWhileStored(now) == supply.source # "none" /\ time < supply.until

\* The row as the store and the handler judge it.
Fresh(now) ==
  /\ supply.source # "none" /\ time < supply.until
  /\ now - supply.computedAt < SupplyTTL

\* A cached answer is always marked as not stale.
FromCache(q, now) ==
  asking' = [asking EXCEPT ![q].pc = "answered", ![q].now = now, ![q].source = supply.source,
                           ![q].made = supply.made, ![q].stale = FALSE]

AskSupply(q) ==
  /\ asking[q].pc = "idle"
  /\ asking' = [asking EXCEPT ![q].pc = "ask"]
  /\ UNCHANGED <<time, supply, scanning>>

FirstLook(q) ==
  /\ asking[q].pc = "ask"
  /\ IF Fresh(time) THEN FromCache(q, time)
     ELSE asking' = [asking EXCEPT ![q].pc = "wait", ![q].now = time]
  /\ UNCHANGED <<time, supply, scanning>>

\* With the lock, the row is looked at again, with the time of the first look.
SecondLook(q) ==
  /\ asking[q].pc = "wait" /\ scanning = Nobody
  /\ IF Fresh(asking[q].now)
     THEN FromCache(q, asking[q].now) /\ UNCHANGED scanning
     ELSE /\ asking' = [asking EXCEPT ![q].pc = "scan", ![q].since = time]
          /\ scanning' = q
  /\ UNCHANGED <<time, supply>>

Keep(q, source, life) ==
  supply' = [source |-> source, computedAt |-> asking[q].now, until |-> time + life, made |-> time]

Done(q, source) ==
  /\ asking' = [asking EXCEPT ![q].pc = "answered", ![q].source = source,
                              ![q].made = time, ![q].stale = (source = "deterministic")]
  /\ scanning' = Nobody

\* The scan ends and its row is stored.
Scanned(q) ==
  /\ asking[q].pc = "scan"
  /\ Keep(q, "gettxoutsetinfo", 4 * SupplyTTL)
  /\ Done(q, "gettxoutsetinfo")
  /\ UNCHANGED time

\* The scan fails, takes too long, or its row is not stored.
ScanFails(q) ==
  /\ asking[q].pc = "scan"
  /\ asking' = [asking EXCEPT ![q].pc = "fallback"]
  /\ UNCHANGED <<time, supply, scanning>>

Fallback(q) ==
  /\ asking[q].pc = "fallback"
  /\ Keep(q, "deterministic", FallbackLife)
  /\ Done(q, "deterministic")
  /\ UNCHANGED time

\* The row of the fallback is not stored: error 500.
FallbackFails(q) ==
  /\ asking[q].pc = "fallback"
  /\ asking' = [asking EXCEPT ![q].pc = "failed"]
  /\ scanning' = Nobody
  /\ UNCHANGED <<time, supply>>

SupplyStep(q) ==
  \/ FirstLook(q) \/ SecondLook(q) \/ Scanned(q) \/ ScanFails(q)
  \/ Fallback(q) \/ FallbackFails(q)

SupplyNext == TimeGoesOn \/ \E q \in Asking : AskSupply(q) \/ SupplyStep(q)
-----------------------------------------------------------------------------
(* The number in an answer, kept or new, exact or not, is from less than      *)
(* SUPPLY_CACHE_TTL before the request first looked, however long the request that    *)
(* made it and this one waited for each other.                                *)
SupplyIsRecent ==
  \A q \in Asking : asking[q].pc = "answered" =>
    asking[q].made > asking[q].now - SupplyTTL
=============================================================================
