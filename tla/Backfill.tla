------------------------------ MODULE Backfill ------------------------------
(***************************************************************************)
(* The backfill of blocks into nedbd                                       *)
(* (backend/app/indexer/nedb_backfill.py): from the stored tip down to the *)
(* first block in batches, with a look at new blocks after each batch, and *)
(* a cursor kept in nedbd.  A block is the height it is for: that a        *)
(* written block can be orphaned later is left out, as nothing here looks  *)
(* at it again.                                                            *)
(***************************************************************************)
EXTENDS Integers

CONSTANTS
  FirstTip,         \* TIP_HEIGHT when the first run starts
  MaxTip,           \* bound: the highest it gets to
  BlocksPerBatch,   \* batch_size
  MaxRuns,          \* bound: starts of the task
  MaxFailures       \* bound: blocks that cannot be read or written, and cursor
                    \* saves and loads that fail

ASSUME BackfillAssumption ==
  /\ FirstTip \in Nat \ {0} /\ MaxTip \in Nat /\ MaxTip >= FirstTip
  /\ BlocksPerBatch \in Nat \ {0} /\ MaxRuns \in Nat /\ MaxFailures \in Nat

VARIABLES
  tip,      \* Keys.TIP_HEIGHT
  blocks,   \* heights in nedbd's blocks collection
  cursor,   \* the saved cursor, NoCursor before the first save
  task,     \* [pc, lowest, highest, current, bottom, next, newTip, wrote]
  stopping, \* the stop event
  runs, failures,
  missed,   \* history: heights that were tried and not written
  tips      \* history: tips a run without a cursor started from

backfill == <<tip, blocks, cursor, task, stopping, runs, failures, missed, tips>>

Heights  == 0..MaxTip
NoCursor == [lowest |-> -1, highest |-> -1]
Stopped  == [pc |-> "stopped", lowest |-> -1, highest |-> -1, current |-> -1,
             bottom |-> 0, next |-> 0, newTip |-> 0, wrote |-> FALSE]

BackfillInit ==
  /\ tip = FirstTip
  /\ blocks = {} /\ cursor = NoCursor
  /\ task = Stopped /\ stopping = FALSE
  /\ runs = 0 /\ failures = 0
  /\ missed = {} /\ tips = {}

Fails == failures < MaxFailures /\ failures' = failures + 1

TipRises ==
  /\ tip < MaxTip
  /\ tip' = tip + 1
  /\ UNCHANGED <<blocks, cursor, task, stopping, runs, failures, missed, tips>>

\* The range a run resumes from: that of the cursor, or the tip alone.
Resume(saved) ==
  LET from == IF saved.highest < 0 THEN [lowest |-> tip, highest |-> tip] ELSE saved
  IN /\ task' = [Stopped EXCEPT !.pc = "batch", !.lowest = from.lowest,
                                !.highest = from.highest, !.current = from.lowest - 1]
     /\ tips' = IF saved.highest < 0 THEN tips \cup {tip} ELSE tips

\* A cursor that cannot be read counts as none.
StartRun ==
  /\ task.pc = "stopped" /\ runs < MaxRuns
  /\ runs' = runs + 1
  /\ stopping' = FALSE
  /\ \/ Resume(cursor) /\ UNCHANGED failures
     \/ Resume(NoCursor) /\ Fails
  /\ UNCHANGED <<tip, blocks, cursor, missed>>

StopTask ==
  /\ task.pc # "stopped" /\ ~stopping
  /\ stopping' = TRUE
  /\ UNCHANGED <<tip, blocks, cursor, task, runs, failures, missed, tips>>

\* The process dies, or the task is cancelled after ten seconds.
KillTask ==
  /\ task.pc # "stopped"
  /\ task' = Stopped
  /\ UNCHANGED <<tip, blocks, cursor, stopping, runs, failures, missed, tips>>

BeginBatch ==
  /\ task.pc = "batch" /\ ~stopping /\ task.current >= 0
  /\ task' = [task EXCEPT !.pc = "down", !.next = task.current, !.wrote = FALSE,
                          !.bottom = IF task.current - BlocksPerBatch > -1
                                     THEN task.current - BlocksPerBatch ELSE -1]
  /\ UNCHANGED <<tip, blocks, cursor, stopping, runs, failures, missed, tips>>

(* A slip: a failing block is tried again at once, for ever. *)
BackwardWithRetry ==
  LET h == task.next IN
    /\ task.pc = "down" /\ h > task.bottom /\ ~stopping
    /\ \/ /\ blocks' = blocks \cup {h}
          /\ task' = [task EXCEPT !.lowest = h, !.next = h - 1, !.wrote = TRUE]
       \/ /\ blocks' = blocks \ {h}
          /\ task' = [task EXCEPT !.wrote = ~@]
    /\ UNCHANGED <<tip, cursor, stopping, runs, failures, missed, tips>>

\* A block is fetched from the cache, else from the node, and written to
\* nedbd; whichever of these fails, the height counts as done.
Backward ==
  LET h == task.next IN
    /\ task.pc = "down" /\ h > task.bottom /\ ~stopping
    /\ \/ /\ blocks' = blocks \cup {h}
          /\ task' = [task EXCEPT !.lowest = h, !.next = h - 1, !.wrote = TRUE]
          /\ UNCHANGED <<failures, missed>>
       \/ /\ Fails
          /\ missed' = missed \cup {h}
          /\ task' = [task EXCEPT !.lowest = h, !.next = h - 1]
          /\ UNCHANGED blocks
    /\ UNCHANGED <<tip, cursor, stopping, runs, tips>>

Saved == cursor' = [lowest |-> task.lowest, highest |-> task.highest]

(* A slip: the look for new blocks resumes after the tip it has just read. *)
EndBatchAtTip ==
  /\ task.pc = "down" /\ (task.next <= task.bottom \/ stopping)
  /\ \/ task.wrote /\ cursor' = [lowest |-> task.lowest, highest |-> tip]
        /\ UNCHANGED failures
     \/ task.wrote /\ Fails /\ UNCHANGED cursor
     \/ ~task.wrote /\ UNCHANGED <<cursor, failures>>
  /\ task' = [task EXCEPT !.pc = "up", !.current = task.lowest - 1,
                          !.next = task.highest + 1, !.newTip = tip]
  /\ UNCHANGED <<tip, blocks, stopping, runs, missed, tips>>

\* The cursor is saved if the batch wrote anything; a failed save is logged.
EndBatch ==
  /\ task.pc = "down" /\ (task.next <= task.bottom \/ stopping)
  /\ \/ task.wrote /\ Saved /\ UNCHANGED failures
     \/ task.wrote /\ Fails /\ UNCHANGED cursor
     \/ ~task.wrote /\ UNCHANGED <<cursor, failures>>
  /\ task' = [task EXCEPT !.pc = "up", !.current = task.lowest - 1,
                          !.next = task.highest + 1, !.newTip = tip]
  /\ UNCHANGED <<tip, blocks, stopping, runs, missed, tips>>

\* The new blocks up to the tip that was read.  One that fails is passed over
\* and the next that is written puts it behind the cursor.
Forward ==
  LET h == task.next IN
    /\ task.pc = "up" /\ h <= task.newTip /\ ~stopping
    /\ \/ /\ blocks' = blocks \cup {h}
          /\ task' = [task EXCEPT !.highest = h, !.next = h + 1]
          /\ UNCHANGED <<failures, missed>>
       \/ /\ Fails
          /\ missed' = missed \cup {h}
          /\ task' = [task EXCEPT !.next = h + 1]
          /\ UNCHANGED blocks
    /\ UNCHANGED <<tip, cursor, stopping, runs, tips>>

EndForward ==
  /\ task.pc = "up" /\ (task.next > task.newTip \/ stopping)
  /\ task' = [task EXCEPT !.pc = "batch"]
  /\ UNCHANGED <<tip, blocks, cursor, stopping, runs, failures, missed, tips>>

\* Below the first block, or stopped: the cursor is saved once more.
Finish ==
  /\ task.pc = "batch" /\ (stopping \/ task.current < 0)
  /\ task' = Stopped
  /\ \/ Saved /\ UNCHANGED failures
     \/ Fails /\ UNCHANGED cursor
  /\ UNCHANGED <<tip, blocks, stopping, runs, missed, tips>>

BackfillStep ==
  BeginBatch \/ Backward \/ EndBatch \/ Forward \/ EndForward \/ Finish

BackfillNext == TipRises \/ StartRun \/ StopTask \/ KillTask \/ BackfillStep

(* Between the ends of the cursor, in memory and saved, every block was       *)
(* written, was tried and failed, or is the tip a run without a cursor began  *)
(* at, which no pass writes: no crash, stop or failed save loses another.     *)
NothingSkippedUnseen ==
  /\ task.pc # "stopped" =>
       task.lowest..task.highest \subseteq blocks \cup missed \cup tips
  /\ cursor # NoCursor =>
       cursor.lowest..cursor.highest \subseteq blocks \cup missed \cup tips
=============================================================================
