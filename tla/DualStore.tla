----------------------------- MODULE DualStore ------------------------------
(***************************************************************************)
(* The dual store (backend/app/dual_store.py): a write goes to SQLite and  *)
(* is then repeated on nedbd by a task of its own, at most a few at a      *)
(* time; a read asks nedbd first and SQLite when nedbd has nothing.  The   *)
(* operations of NedbStore that read before they write are two requests.   *)
(* The circuit breaker that is described there has no code.                *)
(***************************************************************************)
EXTENDS KeyValue, Sequences

CONSTANTS
  Value,      \* values set, positive numbers
  Slots,      \* Semaphore(4): requests to nedbd in flight
  MaxWrites   \* bound: writes of the program

ASSUME DualStoreAssumption ==
  Value \subseteq Nat \ {0} /\ Slots \in Nat \ {0} /\ MaxWrites \in Nat

VARIABLES
  sq,     \* content of SQLite
  nd,     \* content of nedbd
  tasks,  \* the mirror tasks, in the order they were created
  writes,   \* writes begun
  counting, \* names whose count was raised and not yet read back
  stray   \* history: names whose two copies may differ for good

dual == <<sq, nd, tasks, writes, counting, stray>>

\* A write as the task repeats it: op, name, the value or member, the life it
\* is given; found, foundZ and entry are what its query
\* returned; sole says that no other task on
\* the name was under way at any time since it was created.
Task(op, n, arg, life) ==
  [op |-> op, name |-> n, arg |-> arg, life |-> life,
   pc |-> "waiting", found |-> {}, foundZ |-> {}, entry |-> Absent, sole |-> TRUE]

Ended(t)   == tasks[t].pc = "ended"
Closed(t)  == [Task("none", tasks[t].name, 0, "none") EXCEPT !.pc = "ended"]
Running(t) == tasks[t].pc \in {"running", "queried"}
On(n)      == {t \in DOMAIN tasks : tasks[t].name = n /\ ~Ended(t)}

DualInit ==
  /\ sq = Empty /\ nd = Empty
  /\ tasks = <<>> /\ writes = 0 /\ counting = {}
  /\ stray = {}

\* _fire: the new task and those under way on its name are no longer alone,
\* and may reach nedbd in any order.
Fire(task) ==
  LET n == task.name
      mine == IF On(n) = {} THEN task ELSE [task EXCEPT !.sole = FALSE]
  IN tasks' = Append([t \in DOMAIN tasks |->
                        IF t \in On(n) THEN [tasks[t] EXCEPT !.sole = FALSE] ELSE tasks[t]],
                     mine)

Strays(n) == IF On(n) = {} THEN {} ELSE {n}

WithinBound == writes < MaxWrites /\ writes' = writes + 1

\* One write: the new content of SQLite, and the task.
Write(content, task) ==
  /\ WithinBound
  /\ sq' = content
  /\ Fire(task)
  /\ stray' = stray \cup Strays(task.name)
  /\ UNCHANGED <<nd, counting>>

SetKey(n) ==
  \E v \in Value, life \in {"forever", "timed"} :
    Write(Set(sq, n, v, life), Task("set", n, v, life))

DeleteKey(n) == Write(Delete(sq, n), Task("delete", n, 0, "none"))

\* The count is raised and then read back, with other writes in between.
\* Bound: a name is counted up once at a time (RateLimit has the other case).
RaiseCount(n) ==
  /\ WithinBound /\ n \notin counting
  /\ sq' = Incr(sq, n)
  /\ counting' = counting \cup {n}
  /\ UNCHANGED <<nd, tasks, stray>>

\* The mirror sets the number that was read, without the expiry of the row; a
\* row that is gone reads as 1.
ReadCount(n) ==
  /\ n \in counting
  /\ counting' = counting \ {n}
  /\ Fire(Task("set", n, Counted(sq, n), "forever"))
  /\ stray' = stray \cup Strays(n)
                \cup (IF sq.kv[n].life = "forever" THEN {} ELSE {n})
  /\ UNCHANGED <<sq, nd, writes>>

ExpireKey(n) == Write(Expire(sq, n), Task("expire", n, 0, "timed"))

AddMember(n) ==
  \/ \E m \in Member : Write(Zadd(sq, n, m), Task("zadd", n, m, "none"))
  \/ \E i \in Item : Write(Sadd(sq, n, i), Task("sadd", n, i, "none"))

RemoveMember(n) == \E i \in Item : Write(Srem(sq, n, i), Task("srem", n, i, "none"))

TrimZset(n) == Write(ZremByRank(sq, n), Task("zrem", n, 0, "none"))

\* The time of a row is over, first in one store and then in the other.
TimePasses(n) ==
  /\ \/ sq.kv[n].life = "timed" /\ sq' = [sq EXCEPT !.kv[n].life = "over"] /\ UNCHANGED nd
     \/ nd.kv[n].life = "timed" /\ nd' = [nd EXCEPT !.kv[n].life = "over"] /\ UNCHANGED sq
  /\ UNCHANGED <<tasks, writes, counting, stray>>
-----------------------------------------------------------------------------
(* The tasks *)

(* A slip: the semaphore is tested one too late. *)
StartTooMany(t) ==
  /\ tasks[t].pc = "waiting"
  /\ \A o \in 1..(t - 1) : tasks[o].pc # "waiting"
  /\ Cardinality({o \in DOMAIN tasks : Running(o)}) <= Slots
  /\ tasks' = [tasks EXCEPT ![t].pc = "running"]
  /\ UNCHANGED <<sq, nd, writes, counting, stray>>

\* The semaphore lets the oldest waiting task in.
Start(t) ==
  /\ tasks[t].pc = "waiting"
  /\ \A o \in 1..(t - 1) : tasks[o].pc # "waiting"
  /\ Cardinality({o \in DOMAIN tasks : Running(o)}) < Slots
  /\ tasks' = [tasks EXCEPT ![t].pc = "running"]
  /\ UNCHANGED <<sq, nd, writes, counting, stray>>

Queries == {"delete", "expire", "zrem"}

\* The query of expire (the value) and zremrangebyrank (the members by rank).
Query(t) ==
  /\ tasks[t].pc = "running" /\ tasks[t].op \in {"expire", "zrem"}
  /\ LET n == tasks[t].name IN
       tasks' = [tasks EXCEPT ![t].pc = "queried", ![t].entry = nd.kv[n],
                   ![t].found = IF tasks[t].op = "zrem" THEN LowRanked(nd.zset[n]) ELSE {}]
  /\ UNCHANGED <<sq, nd, writes, counting, stray>>

\* delete asks for the members of sorted sets and sets of that name.  What a
\* failing query would have found is left alone, and nothing is counted.
Sweep(t) ==
  LET n == tasks[t].name IN
    /\ tasks[t].pc = "running" /\ tasks[t].op = "delete"
    /\ \E zs \in {{}, nd.zset[n]}, st \in {{}, nd.set[n]} :
         /\ tasks' = [tasks EXCEPT ![t].pc = "queried", ![t].foundZ = zs, ![t].found = st]
         /\ stray' = IF zs = nd.zset[n] /\ st = nd.set[n] THEN stray ELSE stray \cup {n}
    /\ UNCHANGED <<sq, nd, writes, counting>>

Ready(t) ==
  \/ tasks[t].pc = "queried"
  \/ tasks[t].pc = "running" /\ tasks[t].op \notin Queries

NdSet(n, v, life) == Set(nd, n, v, life)

(* A slip: delete removes the value and leaves the members of that name. *)
NdDeleteValue(n, zs, st) == [nd EXCEPT !.kv[n] = Absent]

NdDelete(n, zs, st) ==
  [nd EXCEPT !.kv[n] = Absent, !.zset[n] = @ \ zs, !.set[n] = @ \ st]

\* Unlike SQLite's, it leaves an expired row alone.
NdExpire(n, entry) == IF Live(entry) THEN Set(nd, n, entry.value, "timed") ELSE nd

NdZadd(n, m)   == Zadd(nd, n, m)
NdZrem(n, low) == [nd EXCEPT !.zset[n] = @ \ low]
NdSadd(n, m)   == Sadd(nd, n, m)
NdSrem(n, m)   == Srem(nd, n, m)

\* What the task's put, delete or batch makes of nedbd.
Applied(task) ==
  CASE task.op = "set"    -> NdSet(task.name, task.arg, task.life)
    [] task.op = "delete" -> NdDelete(task.name, task.foundZ, task.found)
    [] task.op = "expire" -> NdExpire(task.name, task.entry)
    [] task.op = "zadd"   -> NdZadd(task.name, task.arg)
    [] task.op = "zrem"   -> NdZrem(task.name, task.found)
    [] task.op = "sadd"   -> NdSadd(task.name, task.arg)
    [] task.op = "srem"   -> NdSrem(task.name, task.arg)

\* A delete that was alone and found everything leaves both copies empty.
Apply(t) ==
  /\ Ready(t)
  /\ nd' = Applied(tasks[t])
  /\ tasks' = [tasks EXCEPT ![t] = Closed(t)]
  /\ LET n == tasks[t].name IN
       stray' = IF /\ tasks[t].op = "delete" /\ tasks[t].sole /\ n \notin counting
                   /\ nd.zset[n] \subseteq tasks[t].foundZ /\ nd.set[n] \subseteq tasks[t].found
                THEN stray \ {n} ELSE stray
  /\ UNCHANGED <<sq, writes, counting>>

\* The request fails, before or after nedbd did it; the write is counted as
\* failed and dropped.
Fail(t) ==
  /\ Running(t)
  /\ nd' = nd \/ (Ready(t) /\ nd' = Applied(tasks[t]))
  /\ tasks' = [tasks EXCEPT ![t] = Closed(t)]
  /\ stray' = stray \cup {tasks[t].name}
  /\ UNCHANGED <<sq, writes, counting>>

\* The process dies: what has not reached nedbd never does.
LoseTasks ==
  LET lost == {t \in DOMAIN tasks : ~Ended(t)} IN
    /\ lost # {} \/ counting # {}
    /\ tasks' = [t \in DOMAIN tasks |->
                   IF t \in lost THEN Closed(t) ELSE tasks[t]]
    /\ counting' = {}
    /\ stray' = stray \cup {tasks[t].name : t \in lost} \cup counting
    /\ UNCHANGED <<sq, nd, writes>>

TaskStep == \E t \in DOMAIN tasks : Start(t) \/ Query(t) \/ Sweep(t) \/ Apply(t) \/ Fail(t)

DualNext ==
  \/ \E n \in Name :
       \/ SetKey(n) \/ DeleteKey(n) \/ RaiseCount(n) \/ ReadCount(n) \/ ExpireKey(n)
       \/ AddMember(n) \/ RemoveMember(n) \/ TrimZset(n) \/ TimePasses(n)
  \/ LoseTasks
  \/ TaskStep
-----------------------------------------------------------------------------
(* The reads *)
NdGet(n)    == Get(nd, n)
NdRanked(n) == nd.zset[n]
NdMembers(n) == nd.set[n]

DualGet(n) == IF NdGet(n) # 0 THEN NdGet(n) ELSE Get(sq, n)

\* An empty list or set of nedbd is an answer: only a failure falls back.
DualMembers(n) == NdMembers(n)
DualRanked(n)  == NdRanked(n)

(* A name that no mirror task is working on, none of whose tasks failed or    *)
(* met another one of the same name, and whose counter was not counted up     *)
(* under an expiry, reads from the dual store as from SQLite: reordering,     *)
(* loss and the dropped expiry are the only ways the copies part.  While time *)
(* runs out a value may still be read from nedbd that SQLite lets go of.      *)
ReadsAgree ==
  \A n \in Name \ (stray \cup counting) : On(n) = {} =>
    /\ \/ DualGet(n) = Get(sq, n)
       \/ sq.kv[n].life = "over" /\ nd.kv[n].life = "timed"
    /\ DualMembers(n) = sq.set[n] /\ DualRanked(n) = sq.zset[n]
=============================================================================
