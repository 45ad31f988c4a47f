------------------------------- MODULE Mirror -------------------------------
(***************************************************************************)
(* The three ways data gets from SQLite to nedbd: the dual store, the      *)
(* backfill of blocks and the migrator.  They write to different           *)
(* collections or at different times, and share no state of this model.    *)
(***************************************************************************)
EXTENDS DualStore, Backfill, Migrator

\* Bound: a behaviour has one of the three.
VARIABLE part

vars == <<dual, backfill, migration, part>>

Init ==
  /\ part \in {"dual", "backfill", "migrator"}
  /\ DualInit /\ BackfillInit /\ MigratorInit

Mirroring == part = "dual" /\ DualNext /\ UNCHANGED <<backfill, migration, part>>
Backfilling == part = "backfill" /\ BackfillNext /\ UNCHANGED <<dual, migration, part>>
Migrating == part = "migrator" /\ MigratorNext /\ UNCHANGED <<dual, backfill, part>>

Next == Mirroring \/ Backfilling \/ Migrating

\* Requests to nedbd have timeouts, and so has the lock of SQLite: a step of a
\* task or of the script ends, well or not.
Spec ==
  /\ Init /\ [][Next]_vars
  /\ WF_vars(part = "dual" /\ TaskStep /\ UNCHANGED <<backfill, migration, part>>)
  /\ WF_vars(part = "backfill" /\ BackfillStep /\ UNCHANGED <<dual, migration, part>>)
  /\ WF_vars(part = "migrator" /\ MigratorStep /\ UNCHANGED <<dual, backfill, part>>)
-----------------------------------------------------------------------------
TypeOK ==
  /\ \A store \in {sq, nd} :
       /\ store.kv \in [Name -> [value : Nat, life : Life]]
       /\ store.zset \in [Name -> SUBSET Member] /\ store.set \in [Name -> SUBSET Item]
  /\ Len(tasks) <= MaxWrites /\ stray \cup counting \subseteq Name
  /\ Cardinality({t \in DOMAIN tasks : Running(t)}) <= Slots
  /\ tip \in Heights /\ blocks \subseteq Heights
  /\ cursor.lowest \in -1..MaxTip /\ cursor.highest \in -1..MaxTip
  /\ task.pc \in {"stopped", "batch", "down", "up"} /\ task.lowest \in -1..MaxTip
  /\ missed \subseteq Heights /\ tips \subseteq Heights
  /\ script.pc \in {"off", "chunk", "send"} /\ done \in Nat
  /\ \A r, s \in copy : r.key = s.key => r = s

AtRest ==
  (\A t \in DOMAIN tasks : Ended(t)) /\ task.pc = "stopped" /\ script.pc = "off"

(* Whatever fails, the work that goes on in the background comes to an end:   *)
(* every mirror task gets its slot and is done or counted as failed, and the  *)
(* backfill and the migrator end, as neither tries anything for ever.  (The   *)
(* writes and starts of a behaviour are bounded, so each of them has ended    *)
(* when it comes to rest for the last time.)                                  *)
BackgroundWorkEnds == []<>AtRest
=============================================================================
