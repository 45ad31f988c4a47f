------------------------------ MODULE Migrator ------------------------------
(***************************************************************************)
(* One table of the migrator (backend/scripts/migrate_sqlite_to_nedb.py):  *)
(* the rows are read in the order of their rowid, a chunk at an offset,    *)
(* and sent to nedbd in batches side by side; the offset is saved after    *)
(* each chunk.  The program goes on writing to the table.  A row is a key  *)
(* and the number of the write that made it, so a row is never made twice. *)
(***************************************************************************)
EXTENDS Integers, Sequences, FiniteSets

CONSTANTS
  FirstRows,    \* keys in the table before anything, in order, a sequence
  NewKeys,      \* keys the program adds
  Chunk,        \* --chunk
  BatchRows,    \* --batch-size
  Verify,       \* no --no-verify
  MaxChanges,   \* bound: changes the program makes to the table
  MaxStarts     \* bound: starts of the script

ASSUME MigratorAssumption ==
  /\ FirstRows \in Seq({FirstRows[i] : i \in DOMAIN FirstRows})
  /\ \A i, j \in DOMAIN FirstRows : FirstRows[i] = FirstRows[j] => i = j
  /\ Chunk \in Nat \ {0} /\ BatchRows \in Nat \ {0}
  /\ Verify \in BOOLEAN /\ MaxChanges \in Nat /\ MaxStarts \in Nat

VARIABLES
  rows,     \* the table, in rowid order: [key, write]
  copy,     \* nedbd's collection: the rows it holds, one per key
  done,     \* the state file
  script,   \* the process: [pc, total, offset, batches, fetched]
  changes, starts,
  disturbed, \* history: a row at or below the place reached was added, changed,
             \* moved or deleted
  torn      \* history: a run counted the documents of nedbd when they were not
            \* the first rows: some batches of a chunk were stored and not
            \* others, or a row changed since

migration == <<rows, copy, done, script, changes, starts, disturbed, torn>>

Off == [pc |-> "off", total |-> 0, offset |-> 0, batches |-> {}, fetched |-> 0]

MigratorInit ==
  /\ rows = [i \in DOMAIN FirstRows |-> [key |-> FirstRows[i], write |-> 0]]
  /\ copy = {}
  /\ done = 0
  /\ script = Off
  /\ changes = 0 /\ starts = 0
  /\ disturbed = FALSE /\ torn = FALSE

Lesser(a, b) == IF a < b THEN a ELSE b

\* How far the running script, or the state file, has got in the table.  It is
\* beyond its end when a chunk was empty as rows had been deleted.
Reached ==
  IF script.pc = "off" THEN done ELSE script.offset + script.fetched

Without(i) == SubSeq(rows, 1, i - 1) \o SubSeq(rows, i + 1, Len(rows))

\* One change of the program's, the first row it touches being the i-th.
Changes(i, table) ==
  /\ changes < MaxChanges
  /\ rows' = table
  /\ disturbed' = (disturbed \/ i <= Reached)
  /\ changes' = changes + 1
  /\ UNCHANGED <<copy, done, script, starts, torn>>

InsertRow(k) ==
  /\ \A i \in DOMAIN rows : rows[i].key # k
  /\ Changes(Len(rows) + 1, Append(rows, [key |-> k, write |-> changes + 1]))

DeleteRow(i) == Changes(i, Without(i))

\* INSERT OR REPLACE gives the row a new rowid, the highest.
ReplaceRow(i) == Changes(i, Append(Without(i), [key |-> rows[i].key, write |-> changes + 1]))

\* incr and expire leave a row where it is.
UpdateRow(i) == Changes(i, [rows EXCEPT ![i].write = changes + 1])
-----------------------------------------------------------------------------
\* The documents of nedbd are the first rows of the table.
Contiguous ==
  /\ Cardinality(copy) <= Len(rows)
  /\ copy = {rows[i] : i \in 1..Cardinality(copy)}

\* The saved state, the number of rows, and the number of documents in nedbd,
\* up to which the state is advanced.  The count is 0 when it cannot be had.
StartScript ==
  /\ script.pc = "off" /\ starts < MaxStarts
  /\ starts' = starts + 1
  /\ \E counted \in (IF Verify THEN {0, Cardinality(copy)} ELSE {0}) :
       LET advanced == IF counted >= Len(rows) THEN Len(rows)
                       ELSE IF counted > done THEN counted ELSE done
       IN /\ done' = (IF Verify THEN advanced ELSE done)
          /\ script' = [Off EXCEPT !.pc = "chunk", !.total = Len(rows), !.offset = done']
  /\ torn' = (torn \/ (Verify /\ ~Contiguous))
  /\ UNCHANGED <<rows, copy, changes, disturbed>>

\* SELECT ... ORDER BY rowid LIMIT chunk OFFSET offset, cut into batches.
FetchChunk ==
  LET last      == Lesser(script.offset + Chunk, Len(rows))
      fetched   == (script.offset + 1)..last
      number(i) == (i - script.offset - 1) \div BatchRows
      batch(n)  == {rows[i] : i \in {j \in fetched : number(j) = n}}
  IN /\ script.pc = "chunk" /\ script.offset < script.total
     /\ script' = IF last <= script.offset
                  THEN [script EXCEPT !.offset = @ + Chunk]
                  ELSE [script EXCEPT !.pc = "send", !.fetched = last - script.offset,
                                      !.batches = {batch(number(i)) : i \in fetched}]
     /\ UNCHANGED <<rows, copy, done, changes, starts, disturbed, torn>>

\* A put replaces the document of the same key.
Stored(batch) ==
  {r \in copy : \A n \in batch : n.key # r.key} \cup batch

SendBatch ==
  /\ script.pc = "send"
  /\ \E b \in script.batches :
       /\ copy' = Stored(b)
       /\ script' = [script EXCEPT !.batches = @ \ {b}]
  /\ UNCHANGED <<rows, done, changes, starts, disturbed, torn>>

(* A slip: the state is saved while batches are on their way. *)
SaveStateEarly ==
  /\ script.pc = "send"
  /\ done' = script.offset + script.fetched
  /\ script' = [script EXCEPT !.pc = "chunk", !.offset = done', !.fetched = 0]
  /\ UNCHANGED <<rows, copy, changes, starts, disturbed, torn>>

SaveState ==
  /\ script.pc = "send" /\ script.batches = {}
  /\ done' = script.offset + script.fetched
  /\ script' = [script EXCEPT !.pc = "chunk", !.offset = done', !.fetched = 0]
  /\ UNCHANGED <<rows, copy, changes, starts, disturbed, torn>>

\* A batch that failed four times ends the script once the others are through;
\* a kill ends it at once.
Abort ==
  /\ script.pc # "off"
  /\ script' = Off
  /\ UNCHANGED <<rows, copy, done, changes, starts, disturbed, torn>>

EndScript ==
  /\ script.pc = "chunk" /\ script.offset >= script.total
  /\ script' = Off
  /\ UNCHANGED <<rows, copy, done, changes, starts, disturbed, torn>>

MigratorStep == FetchChunk \/ SendBatch \/ SaveState \/ EndScript

MigratorNext ==
  \/ \E k \in NewKeys : InsertRow(k)
  \/ \E i \in DOMAIN rows : DeleteRow(i) \/ ReplaceRow(i) \/ UpdateRow(i)
  \/ StartScript \/ Abort \/ MigratorStep

(* The rows up to the saved offset are in nedbd with their present values,    *)
(* through any aborts and restarts and with rows added meanwhile, unless the  *)
(* program touched one that was done with, or added one below an offset that  *)
(* had moved past the end of a table from which it had deleted, or a start    *)
(* counted documents that were not the first rows.                            *)
RowsDoneAreCopied ==
  ~disturbed /\ ~torn => \A i \in 1..Lesser(done, Len(rows)) : rows[i] \in copy
=============================================================================
