------------------------------ MODULE KeyValue ------------------------------
(***************************************************************************)
(* The Redis-shaped operations of the two stores, as functions of a        *)
(* store's content: SQLiteStore (backend/app/sqlite_store.py, tables kv,   *)
(* zsets and sets) and NedbStore (backend/app/nedb_store.py, collections   *)
(* of the same names).  A name may hold a value, a sorted set and a set at *)
(* once.  A member always has the same score here, so a sorted set is a    *)
(* set of members; a life is one of                                        *)
(*   none (no row), forever (no expires_at), timed, over (expired).        *)
(* Neither store ever removes an expired row.                              *)
(***************************************************************************)
EXTENDS Integers, FiniteSets

CONSTANTS
  Name,
  Item,    \* members of sets
  Member,  \* members of sorted sets
  Score,   \* Score[m]: distinct scores
  Keep     \* zremrangebyrank(name, 0, -(Keep + 1))

ASSUME KeyValueAssumption ==
  /\ Score \in [Member -> Int] /\ Keep \in Nat
  /\ \A m, o \in Member : Score[m] = Score[o] => m = o

Life   == {"none", "forever", "timed", "over"}
Absent == [value |-> 0, life |-> "none"]
Empty  == [kv   |-> [n \in Name |-> Absent],
           zset |-> [n \in Name |-> {}],
           set  |-> [n \in Name |-> {}]]

Live(entry) == entry.life \in {"forever", "timed"}

\* SET with or without an expiry: the row is replaced.
Set(store, n, v, life) == [store EXCEPT !.kv[n] = [value |-> v, life |-> life]]

Delete(store, n) ==
  [store EXCEPT !.kv[n] = Absent, !.zset[n] = {}, !.set[n] = {}]

\* SQLite's upsert: a missing row becomes 1, a live one is counted up and
\* keeps its expiry, an expired one is left as it is.
Incr(store, n) ==
  CASE store.kv[n].life = "none" -> Set(store, n, 1, "forever")
    [] Live(store.kv[n])         -> [store EXCEPT !.kv[n].value = @ + 1]
    [] OTHER                     -> store

\* What incr returns: the row read back, or 1 when it is not live.
Counted(store, n) == IF Live(store.kv[n]) THEN store.kv[n].value ELSE 1

\* SQLite's UPDATE touches the row even when it had expired.
Expire(store, n) ==
  IF store.kv[n].life = "none" THEN store ELSE [store EXCEPT !.kv[n].life = "timed"]

Zadd(store, n, m) == [store EXCEPT !.zset[n] = @ \cup {m}]
Sadd(store, n, m) == [store EXCEPT !.set[n] = @ \cup {m}]
Srem(store, n, m) == [store EXCEPT !.set[n] = @ \ {m}]

\* The members below the Keep highest of a sorted set.
LowRanked(members) ==
  {m \in members : Cardinality({o \in members : Score[o] > Score[m]}) >= Keep}

ZremByRank(store, n) == [store EXCEPT !.zset[n] = @ \ LowRanked(@)]

\* 0 stands for None.
Get(store, n) == IF Live(store.kv[n]) THEN store.kv[n].value ELSE 0
=============================================================================
