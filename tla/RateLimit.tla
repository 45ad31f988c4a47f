----------------------------- MODULE RateLimit ------------------------------
(***************************************************************************)
(* The rate limiter (backend/app/middleware/rate_limit.py): a counter per  *)
(* address and minute, raised, read back and given its life in separate    *)
(* operations of the store.  One address; what the store does is that of   *)
(* KeyValue, restricted to counters.                                       *)
(***************************************************************************)
EXTENDS Integers, FiniteSets

CONSTANTS
  Visit,       \* requests, one each
  Limit,       \* RATE_LIMIT_PER_MIN
  LastMinute   \* bound

ASSUME RateLimitAssumption ==
  IsFiniteSet(Visit) /\ Limit \in Nat /\ LastMinute \in Nat

VARIABLES
  minute,    \* int(time.time()) // 60
  counter,   \* counter[m]: the row of the key of minute m
  lapsed,    \* history: minutes whose row ran out
  visit      \* visit[v]: the middleware's local state and what became of it

limiter == <<minute, counter, lapsed, visit>>

Minutes   == 0..LastMinute
NewVisit  == [pc |-> "idle", minute |-> 0, count |-> 0]
Passing   == {"counted", "uncounted"}
IsLive(m) == counter[m].life \in {"forever", "timed"}
Visiting(v) == visit[v].pc \in {"raise", "read", "expire", "decide"}

LimiterInit ==
  /\ minute = 0
  /\ counter = [m \in Minutes |-> [count |-> 0, life |-> "none"]]
  /\ lapsed = {}
  /\ visit = [v \in Visit |-> NewVisit]

MinutePasses ==
  /\ minute < LastMinute
  /\ minute' = minute + 1
  /\ UNCHANGED <<counter, lapsed, visit>>

\* 65 seconds from a request of minute m end after that minute.
CounterLapses(m) ==
  /\ counter[m].life = "timed" /\ m < minute
  /\ counter' = [counter EXCEPT ![m].life = "over"]
  /\ lapsed' = lapsed \cup {m}
  /\ UNCHANGED <<minute, visit>>

Visits(v) ==
  /\ visit[v].pc = "idle"
  /\ visit' = [visit EXCEPT ![v].pc = "raise", ![v].minute = minute]
  /\ UNCHANGED <<minute, counter, lapsed>>

\* The upsert of incr: an expired row is left as it is.
Raise(v) ==
  LET m == visit[v].minute IN
    /\ visit[v].pc = "raise"
    /\ counter' = [counter EXCEPT
         ![m] = CASE @.life = "none" -> [count |-> 1, life |-> "forever"]
                  [] @.life = "over" -> @
                  [] OTHER           -> [count |-> @.count + 1, life |-> @.life]]
    /\ visit' = [visit EXCEPT ![v].pc = "read"]
    /\ UNCHANGED <<minute, lapsed>>

\* What incr returns is read outside its lock; a row that is gone counts as 1.
ReadBack(v) ==
  LET m == visit[v].minute
      count == IF IsLive(m) THEN counter[m].count ELSE 1
  IN /\ visit[v].pc = "read"
     /\ visit' = [visit EXCEPT ![v].pc = IF count = 1 THEN "expire" ELSE "decide",
                               ![v].count = count]
     /\ UNCHANGED <<minute, counter, lapsed>>

\* UPDATE gives an expired row a new life, too.
SetExpiry(v) ==
  LET m == visit[v].minute IN
    /\ visit[v].pc = "expire"
    /\ counter' = IF counter[m].life = "none" THEN counter
                  ELSE [counter EXCEPT ![m].life = "timed"]
    /\ visit' = [visit EXCEPT ![v].pc = "decide"]
    /\ UNCHANGED <<minute, lapsed>>

\* A failure of the store lets the request pass.
StoreFails(v) ==
  /\ visit[v].pc \in {"raise", "read", "expire"}
  /\ visit' = [visit EXCEPT ![v].pc = "uncounted"]
  /\ UNCHANGED <<minute, counter, lapsed>>

(* A slip: one request more than the limit passes. *)
DecideOneLate(v) ==
  /\ visit[v].pc = "decide"
  /\ visit' = [visit EXCEPT ![v].pc = IF visit[v].count > Limit + 1 THEN "refused" ELSE "counted"]
  /\ UNCHANGED <<minute, counter, lapsed>>

Decide(v) ==
  /\ visit[v].pc = "decide"
  /\ visit' = [visit EXCEPT ![v].pc = IF visit[v].count > Limit THEN "refused" ELSE "counted"]
  /\ UNCHANGED <<minute, counter, lapsed>>

LimiterStep ==
  \E v \in Visit : Raise(v) \/ ReadBack(v) \/ SetExpiry(v) \/ StoreFails(v) \/ Decide(v)

LimiterNext ==
  \/ MinutePasses
  \/ \E m \in Minutes : CounterLapses(m)
  \/ \E v \in Visit : Visits(v)
  \/ LimiterStep
-----------------------------------------------------------------------------
Counted(m) == {v \in Visit : visit[v].minute = m /\ visit[v].pc = "counted"}
Came(m)    == {v \in Visit : visit[v].minute = m /\ visit[v].pc # "idle"}

(* Of the requests of a minute that the store counted no more than Limit      *)
(* pass, and none is refused in a minute that had no more than Limit, however *)
(* their counts are raised and read: as long as the row outlives them, since  *)
(* a request that is slower than the row counts as the first one.             *)
LimitIsKept ==
  \A m \in Minutes :
    /\ m \notin lapsed => Cardinality(Counted(m)) <= Limit
    /\ (\E v \in Came(m) : visit[v].pc = "refused") => Cardinality(Came(m)) > Limit
=============================================================================
