# Vision: a verification development

Vision is a block explorer for the ITC chain: a FastAPI backend
(`backend/app`) that follows a node over JSON-RPC, keeps everything it derives
in one SQLite database, serves it over HTTP, SSE and WebSocket, and runs a
weekly reward program for mining pools. This directory holds TLA+ models of the
backend's own logic, the TLC configurations that check them, and proofs for the
TLA+ proof system. Paths below are relative to the repository; `app/` is
`backend/app/`.

## The system

### Parts, state, operations

| part | state it keeps | operations | where |
|---|---|---|---|
| ITC node (external) | the active chain | extends it, reorganizes it | called through `app/rpc` |
| block indexer, mempool and registry loops | kv keys `BLOCK_BY_HEIGHT`, `BLOCK_BY_HASH`, `RECENT_BLOCKS`, `INDEXER_LAST_HEIGHT`, `TIP_HEIGHT`, `TIP_HASH`, `INDEXER_STATUS` | a tick: poll, check for a reorganization, store a range, advance, publish; mempool summaries; pool tags | `app/indexer/main_loop.py` |
| address indexer | none of its own besides a copy of the pointer | wait, boot check, caught-up check, fetch a batch, apply it | `app/indexer/address_index.py` |
| address index tables | `utxos`, `utxo_undo`, `address_txs`, `address_index_blocks`, `last_height` | `apply_block`, `rollback_to`, each one transaction | `AddressIndexWriter` in `app/sqlite_store.py` |
| reward snapshots | `pool_reward_snapshots`, `pool_reward_snapshot_entries`, `pool_reward_blocks`, background tasks | create, scan, finalize, fail, set status, cascade, update entry, delete, clean up | `app/services/pool_rewards.py`, `app/routes/pool_rewards.py`, `app/sqlite_store.py` |
| pool registry | `mining_pools` with a partial unique index | create, update, apply for a grant | `app/routes/admin_pools.py`, `app/routes/pool_rewards.py` |
| event bus | a set of bounded queues | subscribe, unsubscribe, publish | `app/services/events.py` |
| streams | per connection a queue | snapshot, forward, leave | `app/routes/sse.py`, `ws.py` |
| webhooks | a set of subscriptions, the dispatcher's queue | add, remove, dispatch with retries | `app/routes/webhooks.py` |
| key-value store | `kv`, sorted sets, sets, with expiry | Redis-like operations, one commit each, under one write lock | `SQLiteStore` in `app/sqlite_store.py` |
| dual store, nedbd store | a second copy in nedbd | write to both, read nedbd first | `app/dual_store.py`, `app/nedb_store.py` |
| NEDB backfill | a cursor and the copied headers | backward and forward pass | `app/indexer/nedb_backfill.py` |
| migrator | a resume file | chunked copy of three tables | `backend/scripts/migrate_sqlite_to_nedb.py` |
| ElectrumX client | one connection, its read loop, pending futures | connect, call, read, clean up | `app/electrumx/client.py` |
| RPC client | one HTTP client | call, batch, reconnect | `app/rpc/client.py` |
| rate limiter | a counter per address and minute | raise, read back, give it a life | `app/middleware/rate_limit.py` |
| supply cache | one kv key, a lock | look, scan, fall back, keep | `app/routes/stats.py` |
| block and transaction API, price | caches | read, recompute, write | `app/routes`, `app/services` |
| web UI, TypeScript client | presentation only | | `web`, `sdk` |

### How they interact

Everything runs in one process on one asyncio event loop; an `await` is where
another task may run. The two indexers are tasks of that loop. They share no
variable, only the database: the block indexer publishes the tip and its phase,
the address indexer reads them and asks the node for the blocks itself. A
snapshot scan reads what both have written. Requests run next to all of them.

The database has two connections. On the shared one every statement commits on
its own (autocommit) and a lock keeps two write operations apart, but nothing
keeps a reader, or a crash, out of the middle of an operation of several
statements. The address index has a connection of its own, on which each block
and each rollback is one transaction.

### What is hard

* *Reorganizations during everything else.* The chain may move between any two
  calls of a tick, a batch or a scan, and a window of `REORG_DEPTH` heights is
  all that is ever compared.
* *Crashes and failed writes between two commits* of the block indexer, of a
  delete, or of a scan.
* *Two indexes on two forks*, and a reader of both.
* *An administrator and a background scan* working on the same snapshot.
* *Best-effort delivery*: full queues, posts that time out and arrive all the
  same, mirror writes that are lost or overtake each other, cursors that advance
  over failures.
* *Check, then act* across an await: the pool registry, the rate limiter's
  counter, the supply's age, the connection to ElectrumX.

`PROJECT.json` lists each of these as a hazard with its line, and the
properties that cover it.

### What makes each part correct

* address index tables: at every height up to the pointer the UTXO set is the
  one that was live there, and a rollback gives it back; history, undo log and
  hashes agree with it.
* address indexer: the copy of the pointer is in step unless it could not be read, a
  rollback goes to the common ancestor of what was read, the tables are those of the
  recorded chain, and in the end the recorded chain is the node's, unless the task
  died on boot.
* block indexer: no height below the pointer is missing, every listed hash has
  its block, the pointer advances over stored heights only, and in the end the
  stored chain and the tip keys are the node's.
* snapshots: no rows without a snapshot, totals that agree with the rows, every
  block of the range counted, no status overwritten, no draft left for ever but for
  a named cause.
* event bus, streams, webhooks: a queue has no gap and, while it is on the bus,
  no end before the last message; a client that hears nothing new knows the tip;
  a webhook hears each message it wants, in order, unless its attempts are used
  up; who leaves is taken off the bus.
* dual store, backfill, migrator: what is in nedbd is what is in SQLite, except
  where a named cause makes them part; a block or row counted as done was
  copied; the background work ends.
* pool registry: one active pool per payout address; a second application only
  by overlap. Rate limiter: no more than the limit of a minute. Clients: an
  answer is given to its own question. Supply: `/stats/supply` answers with no number
  older than its life.
  All of them: no request waits for ever.

## Modules

| module | what it is |
|---|---|
| `Transactions` | transactions as constants: what a txid creates and spends, who owns it |
| `UtxoHistory` | abstract: a stack of UTXO sets, pushed by a block and popped by a rollback |
| `AddressLedger` | `apply_block` and `rollback_to` over the five tables |
| `AddressLedgerProofs` | theorems about `AddressLedger` |
| `Chain` | the node: a chain that extends and reorganizes |
| `ChainProofs` | lemmas about hashes and heights, used for both indexers |
| `AddressIndexer` | the address indexer's loop, composed of `Chain` and `AddressLedger` |
| `AddressIndexerProofs` | theorems about `AddressIndexer` |
| `BlockIndexer` | the block indexer's loop, over `Chain`, one action per commit |
| `BlockIndexerProofs` | theorems about `BlockIndexer` |
| `SnapshotRewards` | snapshots, their scans, and the administrator |
| `SnapshotRewardsProofs` | theorems about `SnapshotRewards` |
| `EventBus` | the set of queues: subscribe, unsubscribe, publish, take |
| `Publishers` | what the block loop and the mempool loop announce, with the tip keys |
| `Streams` | SSE and WebSocket connections |
| `Webhooks` | subscriptions and their dispatcher |
| `Publications` | publishers, streams and webhooks around one bus |
| `PublicationsProofs` | theorems about `Publications` |
| `KeyValue` | the stores' operations as functions of their content |
| `DualStore` | writes to SQLite mirrored by tasks to nedbd, reads of both |
| `Backfill` | the copy of blocks to nedbd, with its cursor |
| `Migrator` | the copy of a table to nedbd, with its state file |
| `Mirror` | the three, one per behaviour |
| `MirrorProofs` | theorems about `Backfill`, `Migrator`, `DualStore` and their sum |
| `PoolRegistry` | creating, updating, applying, in their steps |
| `RateLimit` | a minute's counter under concurrent requests |
| `ElectrumClient` | calls, connections, read loops and cleanups |
| `RpcClient` | single calls and batches, reconnects |
| `SupplyCache` | the kept supply, its lock, the scan and its fallback |
| `Services` | the five, one per behaviour |
| `ServicesProofs` | theorems about each of the five |
| `MC...` | the instances that TLC checks |

**Hashes.** A block hash is the sequence of choices that leads from the genesis
block to its block, so equal hashes have equal ancestors, a chain can leave a
fork and come back to it, and the height of a hash is its length.

**Tables** are sets of rows, `INSERT OR REPLACE` is `Upsert` on the primary key.
The value of a row is known by the outpoint it was read from. Where the order of
a batch decides which of two rows with one key survives, any of them may.

**Control.** `pc` names the next commit or call of a task. In `BlockIndexer`
each database write is an action of its own, because it is a commit of its own;
in `AddressIndexer` a whole block is one action, because it is one transaction, and the
reorganization check is three, because it awaits the node, the recorded hashes and the
rollback. In `SnapshotRewards` the three `DELETE`s of a delete are three actions under the
write lock (`sweep`), and a scan's steps are the statements it awaits.

**Slips.** A definition with the comment "A slip" is a plausible mistake in the
operation that follows it. It is part of no behaviour; it stands there to show
that the property it is meant for would notice the mistake.

**Left out** throughout: amounts and their formatting, times and back-off,
status texts other than the phase, the difference between lite and full block
bodies, logging. In the indexers a JSON-RPC batch is one reading of the node's chain;
what the client makes of the node's answers is `RpcClient`.

**Sums.** `Mirror` and `Services` compose components that share no state of the
model. A product of their states would add nothing but states, so the variable
`part` chooses one of them for a behaviour and the others stay at rest.
`Publications` is a real composition: everything meets in the bus, and `audience`
only keeps connections and webhooks out of the same behaviour, since each
subscriber has a queue of its own.

**History variables** (`astray`, `adrift`, `missed`, `tips`, `stray`, `disturbed`, `torn`, `lapsed`, `overlaps`,
`lost`, `got`, `gaveUp`, ...) record causes: a property of best-effort code says
that only the named causes make a difference, and these remember that one
happened. No guard reads them. In `AddressIndexer`, `astray` has "misread" once the loop
goes on with a pointer it could not read again, and "shallow" once a rollback keeps a
hash that the node does not have at that moment. In `SnapshotRewards`, `adrift` has the
snapshots whose request broke before their scan was started, and those that were made a
draft again with no scan left.

### Correspondence

`PROJECT.json` maps every definition to its lines. In short: `AddressLedger!
ApplyBlock` and `RollbackTo` are the two methods of `AddressIndexWriter`;
`AddressIndexer!AskNode`, `CompareHashes` and `RollBack` are the awaits of
`_check_for_reorg`, which `Boot` ends on boot and `VerifyRecent` in the loop; `BootFails`
and `VerifyFails` are what an error in one of its awaits does there; `FetchBatch`,
`ProcessBlock` and `FinishBatch` are the stretches of `run_backfill_loop` between two
awaits that matter; `BlockIndexer!PollTip`,
`ReorgFound`, `DropHeight`, ... `SetTipHash` are `_block_loop`, `_reorg_check` and
`_fetch_and_store_range` in the order of their awaits; `SnapshotRewards!
Create` and `StartScan` are the request with the await between them; `CheckCoverage` to `Finalize` are `execute_snapshot` with `coinbase_reward_scan`
inlined, `ClearResults` and `MarkFailed` its handler.

* `Publishers!PollTip` to `Announce` are the awaits of a tick that the listeners can
  tell apart. How blocks are stored is `BlockIndexer`'s subject, so here a
  batch moves the index along and publishes its sync event (`SyncBatch`).
  `AnnounceFails` is the handler that loses an event, `Offline` the lost connection.
* `EventBus` has one step per operation, because the bus's lock is never held
  across an await. `Streams!Connect`, `SnapshotHeight`, `SnapshotHash`, `Forward`, `Leave`
  are the stretches of the generator in `sse.py` and of the handler in `ws.py`; only
  the first can be cancelled outside its `try` (`AbandonSnapshot`).
  `Webhooks!TakeMessage` reads the members, `PostSucceeds` and `PostFails` are one turn
  of the retry loop.
* `DualStore`: a write action is the SQLite write and `_fire` of the task. `Start` is
  the semaphore, `Query` or `Sweep` the read with which `NedbStore` begins some
  operations, `Apply` or `Fail` the end. `RaiseCount` and `ReadCount` are the two halves
  of `incr`. `DualGet`, `DualMembers`, `DualRanked` are the reads with their fallback.
* `Backfill`: `StartRun` loads the cursor, `BeginBatch` to `EndForward` are `_run`'s loop,
  `Backward` and `Forward` one height each, `KillTask` the crash.
  `Migrator`: `StartScript` with the verification, `FetchChunk`, `SendBatch`, `SaveState`,
  next to `InsertRow`, `DeleteRow`, `ReplaceRow`, `UpdateRow` of the program that goes on
  writing.
* `PoolRegistry`: `Begin...` reads the body and the pool, `CheckUnique` or `Apply` looks
  for duplicates, `Create`, `Update`, `Register` write under the partial index.
  `RateLimit`: the three store operations of the middleware, each of which may
  fail. `ElectrumClient`: `Ensure`, `Open`, `Send`, `Timeout`, `Cancel` of a call, the read
  loop with `Begin` and end of its cleanup, and the server's side. `RpcClient`:
  `Post`, `Respond`, the two halves of `reconnect`. `SupplyCache`: the two looks, the
  scan, the fallback, with a clock.

## What the runs show

Passing runs:

* `address_ledger`: three transactions, blocks of any of them, two hashes,
  heights up to 3, any rollbacks. The tables refine `UtxoHistory` and keep
  history, undo log and hashes in step.
* `address_indexer`: chains up to height 4, two reorganizations up to three deep at
  any await, a window of three, two faults (failed calls, failed blocks, crashes).
  A rollback goes by the answers that were read, although the node has moved since; the
  tables are those of the recorded chain for one reorganization and no cause in `astray`;
  in the end the index is at the tip and the window's hashes are the node's, unless a
  call failed on boot, which ends the task.
* `block_indexer`: chains up to height 3, a reorganization up to two deep, a
  window of three, and one trouble: a failed call, a failed write, or a crash
  between any two commits. No hole without the last two, no listed hash
  without its block whatever fails, and in the end the node's chain.
* `snapshots`: two snapshots of one range of two heights, two failing scans or
  requests, status requests for draft and rejected, deletes and cleanups at any time
  (`approved` and `paid` differ from `rejected` in keeping the range taken, as `generated`
  does, and are left to the proofs): no rows without a snapshot, totals that agree with the
  rows, every block of the range counted, no finished status overwritten.
* `snapshots_crash`: one snapshot with entry updates, requests for draft, generated
  and rejected, a reorganization, a failing scan or request, a failing handler and a
  crash: every draft ends, unless the process or the handler failed or the snapshot is
  in `adrift`.
* `publications`: a node that moves twice, once without gaining height, queues
  of two, an SSE stream and a WebSocket that come, lag and go, one failure; or a
  webhook with two attempts and a mempool summary. Queues are runs without a gap
  that end at the last message unless they were taken off the bus; a client
  that has read everything knows the last announced tip or a later one; a webhook
  hears what it wants, in order; a client that was told a tip and stays
  on the bus learns the node's height, although snapshots may fail; one that leaves
  is taken off the bus.
* `mirror`: three writes of any kind to one name, two mirrored at a time, each
  of which may fail or be killed; a backfill of four to six blocks in batches
  of two with two failures and two runs; a table of four rows in chunks of three
  and batches of two, three starts and two changes meanwhile. The copies part
  only where the model names the cause, what counts as done was copied, and all
  of the background work ends.
* `services`: two administrators and two applicants on one payout address; three
  requests of one client in two minutes under a limit of one; two calls over two
  ElectrumX connections that drop, with timeouts and cancellations; single calls
  and batches of three under two reconnects; two requests for a supply whose scan
  takes a unit of time and may fail. The registry has one active pool, the limit
  is kept, answers are given to their own questions, no supply is older than
  its life, and every request ends.

Runs that show a disagreement between the code and what it says of itself:

| run | what happens |
|---|---|
| `address_indexer_return` | the chain goes to another fork and comes back during catch-up: an output of the kept fork is lost |
| `block_indexer_hole` | a failed write between the three commits of a rollback leaves a hole that is never filled |
| `snapshots_reorg` | a scan over two indexes on different forks leaves blocks out without an error |
| `services_reconnect` | the cleanup of a lost ElectrumX connection forgets the one that replaced it, and another is opened beside it |

The findings in `PROJECT.json` quote the sentences these contradict.

Further behaviours that are in the models, or were met while reading the code
for them, and have no run of their own:

* A reorganization during catch-up may leave the address index's window before it is
  looked for: the hashes below it are never compared again, and `FollowsChain` promises
  those of the window only. In the block index a reorganization exactly `REORG_DEPTH`
  deep is repaired from the top while its bottom leaves the window: there `FollowsChain`
  fails when `ReorgDepth` is as small as the reorganization, and `block_indexer` has a
  wider window.
* The awaits of the reorganization check let the node move. With a second reorganization
  the rollback keeps or drops heights by answers that no longer hold: it keeps a height
  that agreed when it was asked for, or drops one that the node has come back to. The
  next check starts over.
* On boot the check and the reads of the pointer are outside any handler
  (`address_index.py:226-235`): one failing call of the store ends the address indexer
  until the process is started again. In the loop the handler goes on with the old copy
  of the pointer when it was the read of it that failed (`astray`); what it then fetches
  leaves a gap or is applied twice.
* A crash leaves a draft, with its range taken; a crash between the three `DELETE`s
  of a delete leaves a finished snapshot without its rows: `MaxCrashes = 1` in
  `SnapshotRewards.cfg` violates `TotalsMatch`.
* Of several outputs of one transaction to one address a single history row
  remains (`LastPerKey`); while catching up, blocks of a new fork are applied on
  top of the old one; entries written after an approval that overtakes the scan
  stay pending.
* The comment at `routes/pool_rewards.py:38-40` counts draft among the states that
  administrators cannot set, and the request accepts it: a finished snapshot that is made
  a draft again is ended by no scan, and cleanup deletes it. A request that fails or is
  cancelled between the insert of a draft and the start of its scan
  (`services/pool_rewards.py:132`) leaves a draft too. Both keep the range taken.
* A tip whose block cannot be fetched is never announced, since its height is
  stored by then; a tip whose height cannot be stored is announced twice. The
  height and the hash of an event come from two calls of the node. A
  reorganization that keeps the height is not announced at all.
* An event stream that is cancelled while its snapshot is sent stays on the bus
  until its queue is full. A full queue is dropped silently: the dispatcher of the
  webhooks then waits for ever.
* `incr` is mirrored as a `set` without the row's expiry, so a counter lives on in
  nedbd. An empty list from nedbd counts as an answer, although a comment
  (`nedb_store.py:139-140`) speaks of a fallback. The circuit breaker described at
  `dual_store.py:66-69` has no code. SQLite's `expire` gives an expired row a new life.
* The backfill says (`nedb_backfill.py:12-14`) that failed blocks are retried on the
  next pass, and none is: the cursor is past them. The tip a first run starts from is
  never written, and no forward pass runs once the backward one is complete.
* After a batch of a chunk failed, the migrator's verification takes the number
  of documents for an offset and passes over the rows that are missing (`torn`).
* An empty chunk moves the migrator's offset on by a whole chunk
  (`migrate_sqlite_to_nedb.py:222-224`): when rows are deleted from a table that is
  being copied, the offset may come to lie beyond its end, and a row added later
  below that offset is never copied. The proof of `RowsDoneAreCopied` found this: it
  does not go through unless `disturbed` counts an insertion below the place reached.
* The window of the address indexer may be shorter than what was indexed since the
  fork. A rollback then stops inside the abandoned fork, and what it brings back is
  the damaged version of a height ("shallow" in `astray`).
* `/blockchain/coins` and `/blockchain/utxo-set` (`routes/compat.py:388-440`) serve the
  supply row without a look at its age; `SupplyIsRecent` is about `/stats/supply`.
* `DualStore` has none of `entries_insert_batch`, `entries_list`,
  `entries_set_status_all`, `entry_get`, `entry_update`, `reward_blocks_insert_batch`,
  `reward_blocks_list`, `snapshot_finalize`, `snapshot_clear_results` and
  `snapshot_mark_failed`: with it as the store every scan fails at its first insert, its
  handler fails too, and the draft stays. Nothing in the repository installs it
  (`set_store_override` has no caller). `SnapshotRewards` is about SQLite alone.
* Both copies of `DualStore` start empty in the model. A nedbd put beside a filled SQLite
  answers a list with an empty one until the backfill or the migrator has been there.
* The block indexer's loop also ends when a read after the tick fails
  (`main_loop.py:234-237`), which is outside any handler. `BlockIndexer` reaches the dead
  task through the failing offline report only, and `Publishers` not at all: there one
  failure is spent on the lost connection, and the report's would be the second.
* A request slower than its counter's row counts as the first of a minute.
* A pool whose name is blank is refused with "Payout address already used", as any
  `IntegrityError` is taken for the index's (`admin_pools.py:105`).
* The supply of a fallback comes back from the cache marked as not stale, and when
  the node cannot be reached at all it is the supply of the genesis block.

### Bounds, and why they are enough

* `MaxChain`, `MaxReorgs`, `MaxReorgDepth` bound the node. What matters is the
  relation of the depth of a reorganization to the window and of the chain to
  the batch: chains of three or four blocks have two batches and a fork to come back
  to. The address indexer's window is as wide as the deepest reorganization and narrower
  than the chain, so its edge is met; the block indexer's is one wider, because its
  convergence fails at equality (above). Nothing is checked of a narrower one.
* `ReorgDepth`, `BatchSize` and `RecentKept` are settings (6, 200 or 50, and 200)
  scaled to the chain.
* `MaxFaults`, `MaxBadWrites`, `MaxCrashes` bound failures, and `MaxTroubles` all of
  them together; one or two meet every commit and call in turn. Liveness needs them finite: a node that
  always fails makes no progress.
* Two siblings per block make every fork a binary tree; more add nothing, as
  the code compares hashes for equality only.
* Two snapshots of one range are enough for the duplicate guard, the shared
  write lock and a cleanup of several at once. One range of two heights and two
  registered addresses gives totals, entries and rows that differ in number.
* A queue of two (64 in the code) is full while a stream is still in its snapshot
  or a webhook being retried; one subscriber of each kind is enough, as queues
  do not affect each other. Two new tips give an event after the snapshot and one
  that follows it, and the second has no new height. One mempool summary is enough
  to put a message no hook wants between two others.
* `MaxWrites = 3` on one name: three tasks, of which two run and one waits, and any
  of them may overtake, fail or be lost. More names would only repeat
  it, as nothing relates two names. A name is counted up once at a time;
  `RateLimit` has concurrent counts.
* `FirstTip`, `MaxTip`, `BlocksPerBatch`: two backward batches with a partial last one, and
  a tip that rises between and after them. `MaxRuns` and `MaxStarts` give a resumed run
  and one that resumes a resumed run. Four rows in chunks of three cut a second chunk that
  is shorter, in two batches the first.
* Two administrators and two applicants make every pair of a check and a write
  overlap; three pools are two applications and a creation. Three visits to a
  limit of one include the two that read the same count. Two calls over two
  connections have a late answer of one and a cleanup that meets the next; the leak
  needs a third call, in the run that looks for it.
* Supply times are units: the scan's timeout is one, the life of a number five, of a
  fallback one, the last time eight, so that rows are met fresh, old and expired.
* Heights, ids and counts are far from any machine limit; Python's integers have
  none, SQLite's are 64 bits.

### Fairness

`WF(Tick)`, `WF(Loop)`, `WF(BlockLoopTick)`: a task of the event loop that can
run is run; every iteration of the loops ends in an await, so none starves the
others. `SF(Scan)` for a snapshot's scan: it may find the write lock held
again and again, but `asyncio.Lock` wakes its waiters in order, so it gets it.
`WF(Sweep)`: who holds the lock goes on.

`WF(BlockLoop)`, `WF(Dispatching)` and `WF(Serving(c))` in `Publications`: tasks whose waits
have timeouts (RPC, HTTP posts, the ping of a stream). `WF` of the mirror
tasks, the backfill and the migrator: requests to nedbd have timeouts. `WF` of the
handlers in `Services`: store operations end, and calls to ElectrumX and the node
time out; nothing is assumed of the read loops, the server or a cleanup. The node, the administrator, failures
and crashes owe nothing.

`BackgroundWorkEnds` and `RequestsEnd` have the form `[]<>` of a state of rest: the
requests, writes and starts of a behaviour are bounded, so being at rest again
and again means that each of them has ended.

`CHECK_DEADLOCK FALSE` is set where the system may stop: the block indexer's
task ends when its offline report fails, an administrator may do nothing
more once all snapshot ids are used, and in `Publications`, `Mirror` and `Services` all
requests may be answered and all clients gone.

## What is proved

Every invariant and action property of the passing runs is a theorem, for every value
of the constants. The instances of the runs are not special: the proofs use the named
assumptions of the modules and what is said here, and no bound on failures, crashes,
requests or writes unless it is mentioned. An invariant is seldom inductive as it
stands; what is added to it, and why, is the subject of each paragraph.

### Address ledger

`AddressLedgerProofs`, for every set of transactions, addresses, hashes and every
height, under `TransactionAssumption` alone:

* `TypeCorrect`: `Spec => []TypeOK`.
* `HistoryAgrees`: `Spec => []HistoryCoversLedger`.
* `HashesRecorded`: `Spec => []HashPerHeight`.
* `LedgerRefinesHistory`: `Spec => RecoversEveryVersion`, that is, the tables
  implement `UtxoHistory` under the refinement mapping `unspent[n] = Restorable(n)`.

The inductive invariant is `TypeOK /\ Grounded /\ OneRowPerOutpoint`. `Grounded`
says that no row lies above the pointer, that an undo row is not older than what it
undoes, and ties rows to heights; `OneRowPerOutpoint` that an outpoint is either
live once or undoable once. Without them a rollback could revive an
output twice, or a block replace a row that a lower version still needs, and
the refinement fails although every single table is well typed. The proof of the
refinement takes a block to `Push` and a rollback to `PopTo`, each by showing
that `Restorable` below the new top is unchanged.

The same tables *without* "mined once" are what `address_indexer_return` shows
to go wrong: the assumption is the one the indexer's loop fails to establish.

### Address indexer

`AddressIndexerProofs`, for every chain, window, batch size and bound on failures:

* `IndexerTyped`: `Spec => []TypeOK`, and `PointerStaysInStep`:
  `Spec => []PointerInStep`. The invariant adds `BatchFollowsPointer`: what is left of
  a batch continues right above the database's pointer, and the task's copy is behind
  only once it has applied a block, so that `FinishBatch` may read it again or not; and
  `VerifyLowers`: during a check of the loop the copy is not below the database's
  pointer. It speaks of a task that has misread nothing; of any other one only the types
  are kept.
* `RollbacksFindAncestor`: `Spec => RollsBackToAncestor`. The property speaks of the
  answers that were read (`onChain`), for any number of reorganizations before, between
  and after the awaits of the check. `OneHashPerHeight` is what it needs, with the fact
  that nobody but this task writes the tables while a check is under way: without the
  first a height could hold two hashes, one of them right.
* `LedgerFollowsHashes`: `Spec => []UnbrokenLedger`, that is `LedgerMatchesHashes` while
  the node has reorganized once at most and nothing is `astray`; and
  `LongWindowKeepsLedger`: with `MaxReorgs <= 1` and `MaxChain < ReorgDepth`,
  `Spec => []("misread" \notin astray => LedgerMatchesHashes)`.

The last two are about the loop that does *not* keep to one chain: blocks of a new fork
are applied on rows of the old one until the check notices. The invariant (`ForkInv`)
says what survives. `VersionsKept`: for every height up to which the recorded hashes are
the node's, the version a rollback would restore is the UTXO set of that chain; of other
heights nothing is claimed. `HashesSeen`: every recorded or fetched hash is on the node's
chain or on the other side of its one fork, so a height never comes to agree with the
node by the node's moving. `BatchIsPath`: a batch is a piece of one chain that goes
through everything that agrees, so its blocks cannot create again what an agreeing
version holds; this is where `ChainedTransactions` (along a chain a transaction is mined
once and spends what exists, as the node's validation grants) is used. All conditions of
`UnbrokenLedger` are necessary, not convenient: with a second reorganization
`address_indexer_return` violates the property, a rollback that stops above the fork
restores a version of which nothing is known (TLC shows it once the payment of
`MCAddressIndexer` is mined at height 3 instead of 2 on the fork that starts with b), and
after a misread pointer a block may be applied on rows it has already changed (TLC shows
it in the run's instance). The last theorem shows that a window longer than the
chain is never "shallow", although the node may reorganize between its answers and the
rollback: what it answered below the lowest mismatch is still its own (`AnswersInv`),
since its one reorganization is behind it once a hash differs.

### Block indexer

`BlockIndexerProofs`, for every chain and reorganization, every window, batch
size and number of recent hashes, and every bound on failures:

* `TypeCorrect`: `Spec => []TypeOK`.
* `EveryListedHashHasBody`: `Spec => []BodyBehindHash`.
* `NoHoleWithoutFailedWrites`: `Spec => []UnbrokenNoHole`.
* `PointerStaysContiguous`: `Spec => PointerMovesOverStored`.

None of these is inductive alone; the invariant adds what a tick knows between its
commits. `ListedAtItsHeight`: the key of a height holds a hash of that height, so
the body that a rollback deletes is listed nowhere else. `StartsAbovePointer` and
`RangeIsContiguous`: a range is stored from just above the pointer, in order, and
`max_h` counts complete heights only, so the pointer may take its value.
`RollbackInProgress`: the height being dropped is at or below the pointer and has
lost its hash before the pointer moves. `OnlyHoleIsDoomed`: without failed writes
and crashes that height is the only hole there is. The proof has one step per
action; FetchRange rests on the cardinality of an interval of heights. That the
bounds on failures play no part in the proof is worth noting: `BodyBehindHash`
and `PointerMovesOverStored` survive any number of crashes.

### Snapshots

`SnapshotRewardsProofs`, for any number of snapshots, ranges, heights and recipients,
under `SnapshotAssumption` (ranges are non-empty sets of heights `1..n`):

* `SnapshotsTyped`: `Spec => []TypeOK`.
* `StatusesStand`: `Spec => AdminStatusStands`, whatever fails or crashes.
* `NothingLeftBehind`: `Spec => [](crashes = 0 => NoOrphanRows)`.
* `TotalsAgree`: `Spec => [](crashes = 0 => TotalsMatch)`.
* `RangesCovered`: with `MaxReorgs = 0`, `Spec => [](crashes = 0 => CoversRange)`.

`RowsInStep` says at each step of a scan, of its handler and of a delete which of
the snapshot's rows may be there: a delete that overtakes a scan has to find what
the scan wrote, and the handler has to clear what a scan wrote after it.
`Written` ties the rows to what the scan found, up to the totals; `EntriesMatch` leaves
the entries' status out, so that the administrator's updates keep it. For the last one,
`OneFork` and `Covered` follow a scan from its guard to its rewards: what the guard saw of
the address index stays, since the index moves up only. The hypotheses name what the
code does not survive: a crash inside a delete or a scan (`MaxCrashes = 1` violates
`TotalsMatch`, and a crashed delete leaves rows behind), and a reorganization
(`snapshots_reorg`).

### Publications

`PublicationsProofs`, for every number of subscribers, queue size, number of
attempts, course of the node and bound on failures, under `PublicationsAssumption` (the
dispatcher is not a client) and the assumptions of the parts:

* `PublicationsTyped`: `Spec => []TypeOK`.
* `ReadersMissNothing`: `Spec => []QueuesHaveNoGap`.
* `WebhooksInOrder`: `Spec => []DeliveriesInOrder`.
* `TakenReachesWebhooks`: `Spec => []TakenIsDelivered`.
* `ListenersKnowTip`: with `HeightsNeverFall`, `Spec => []ListenerKnowsTip`.

`QueuesHaveNoGap` is inductive with the types, as publishing reaches every queue at
once. Deliveries need `AtHand`: what a hook received of the message at hand are its last
attempts, no more than were made, and all else it received is older. `TakenIsDelivered`
is then kept by each step of the dispatcher: a hook leaves the members of a message only
by receiving it or by using up its attempts. `ListenersKnowTip` needs `Fresh`: as long as
no call and no write failed, the two tip keys never move down, a tick stores what it
announces before it announces it, and what a stream was told covers every event it has
taken, also while it is still in its snapshot (`Told`). `HeightsNeverFall` is an
assumption about the node, whose best chain may change without gaining height but not
lose any.

### Mirror

`MirrorProofs`:

* `NoBlockSkippedUnseen`: `Spec => []NothingSkippedUnseen`, for every height, batch size
  and bound on failing blocks, failing saves and kills.
* `DoneIsCopied`: `Spec => []RowsDoneAreCopied`, for every table, chunk, batch and
  change of the program.
* `CopiesAgree`: `Spec => []ReadsAgree`, for any number of names, writes, tasks and slots.
* `MirrorTyped`: `Spec => []TypeOK`.

`NothingSkippedUnseen` speaks of the cursor's range, in memory and as saved. The
invariant adds where the task is: `NextAdjoinsRange` says that the next height of a
backward pass is the one below the range, and that a forward pass has left nothing
untried between the range and its next height, so either may be taken into the
range. Nothing is needed of stops, kills and failed saves: the saved cursor is always
an earlier range.

For the migrator, a row before the place reached is in nedbd or in a batch on its way
(`RowsReachedAreSent`), batches are of the table (`ChunkInTable`), and the script is never
behind the saved offset (`OffsetsInOrder`). `KeysDiffer` is why a batch stored late
replaces no newer row; `MigratorAssumption` has distinct keys, as the table's primary key
grants.

For the dual store the invariant says of each name what nedbd *will* hold once the
name's one task is through (`NextKv`, `NextZset`, `NextSet` in `Mirrored`), and that a
query's answer still stands (`QueryStands`). `SoleIsAlone` is what makes a task that met
no other one harmless; a name that had two is in `stray`. `ReadsAgree` is the case of no
task. That types hold rests on `WithinSlots` (a task runs only in a free slot, so
their number is a cardinality) and `InChain`.

### Services

`ServicesProofs`, for any number of requests, callers, addresses and connections:

* `ActivePoolsStayApart`: `Spec => []OneActivePool`.
* `LaterApplicantsTurnedAway`: `Spec => []TwiceOnlyByOverlap`.
* `LimitHolds`: `Spec => []LimitIsKept`.
* `AnswersReachTheirCallers`: `Spec => []AnswersMatch`.
* `SupplyStaysRecent`: `Spec => []SupplyIsRecent`.
* `ServicesTyped`: `Spec => []TypeOK`.

The first rests on the partial index alone: `AdmittedRow` is the lemma that a row it
admits keeps active pools apart, and `WritesWholeRows` says that a request about to
insert has a value for every column and one about to update the id of a row there
is. The checks that precede the writes appear nowhere in the proof: they decide
who gets the error, and earlier. The second is about a status no index covers, and
there the check is all there is. `ApplicationsMet` adds that a pool still owned by
its applicant is pending, so that the check finds it, and that those who are about to
register an address have overlapped with each other and with all who have.

The limiter is an argument of counting: everyone who raised the counter of a minute is
in its count (`RaisedAreCounted`), so whoever reads back `n` is one of at most `n`
(`FewReadLittle`), although raising and reading are two steps; `CountsWereRaised` gives
the other half, that nobody is refused before more than the limit came.

For the ElectrumX client `QuestionsKnown` says that a question, asked or answered,
wherever it is on its way and on whichever connection, is that of the only call that may
still wait under its number. For the RPC client `NumbersApart` says the same of the ids
of batches, and `GotItsOwn` what was made of the answers.

For the supply, no row and no first look is later than the clock, and the number in a
row was made after the first look of the request that made it (`RowInStep`,
`RequestsInStep`, `ScanIsHeld`), so the age that is judged is no less than the number's.

### Only model-checked

* Liveness: `FollowsChain` of both indexers, `ListsNoOrphan`, `UnbrokenDraftEnds`,
  `ListenersLearnHeight`, `LeaversUnsubscribe`, `BackgroundWorkEnds`, `RequestsEnd`. They rest on
  fairness and `ENABLED`, which are out of the prover's reach.
* The counterexamples of the four runs that expect a violation.

No module of this development declares a RECURSIVE operator, and nothing above needs
induction over data.

## Not modelled

* *Block and transaction API*: it reads caches and keeps no state. Its one write, a
  block body with a life of 300 seconds over the indexer's permanent row, is a
  hazard without a property: with it in the model `BodyBehindHash` would fail, and
  nothing in the code would repair it.
* *Web UI and TypeScript client*: presentation and types.
* *Parts of modelled components*: amounts and the emission formula; the algorithms
  that project blocks from the mempool; the registry loop, which refreshes a
  cached list of tags; the cool-down of the addresses endpoint and the shutdown
  of the ElectrumX client; `snapshot_set_totals`, which nothing calls;
  configuration, formatting and logging.

## What is left to prove

1. The safety half of the liveness properties: that the measure each argument rests on
   (blocks still to fetch, attempts left, tasks under way) never grows without a cause.
2. That no rollback is "shallow" for a window narrower than the chain, from a bound on how
   far the loop may index before its next check.
