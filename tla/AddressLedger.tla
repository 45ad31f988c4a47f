--------------------------- MODULE AddressLedger ---------------------------
(***************************************************************************)
(* The address index's tables and the two transactions AddressIndexWriter  *)
(* runs on them (backend/app/sqlite_store.py).  Each is one BEGIN          *)
(* IMMEDIATE .. COMMIT under the write lock on a connection of its own, so *)
(* a crash or an error leaves the tables as they were: a failed call is a  *)
(* stuttering step here, and each successful call is one action.           *)
(*                                                                         *)
(* Tables are sets of rows; INSERT OR REPLACE is Upsert on the primary     *)
(* key.  The value of a row is known by the outpoint it was read from.     *)
(***************************************************************************)
EXTENDS Transactions, Integers

CONSTANTS
  Hash,        \* block hashes
  MaxHeight    \* bound: highest height a block is applied at

VARIABLES
  utxos,        \* rows [out, height], key out
  undo,         \* rows [at, out, orig], key (at, out): spent at at, created at orig
  addressTxs,   \* rows [addr, tx, dir, height, out], key (addr, tx, dir)
  indexBlocks,  \* rows [height, hash], key height
  lastHeight    \* the last_height pointer, -1 when absent

tables == <<utxos, undo, addressTxs, indexBlocks, lastHeight>>

Utxo    == [out : Creditable, height : Nat]
Undo    == [at : Nat, out : Creditable, orig : Nat]
History == [addr : Address, tx : Tx, dir : {"in", "out"}, height : Nat,
            out : Creditable]
Indexed == [height : Nat, hash : Hash]

TypeOK ==
  /\ utxos \subseteq Utxo
  /\ undo \subseteq Undo
  /\ addressTxs \subseteq History
  /\ indexBlocks \subseteq Indexed
  /\ lastHeight \in Int /\ lastHeight >= -1

Init ==
  /\ utxos = {}
  /\ undo = {}
  /\ addressTxs = {}
  /\ indexBlocks = {}
  /\ lastHeight = -1

-----------------------------------------------------------------------------
(* INSERT OR REPLACE of rows into a table, key being the names of the columns
   of its primary key. *)
SameKey(x, r, key) == \A f \in key : x[f] = r[f]

Upsert(table, rows, key) ==
  {r \in table : \A x \in rows : ~ SameKey(x, r, key)} \cup rows

UtxoKey    == {"out"}
UndoKey    == {"at", "out"}
HistoryKey == {"addr", "tx", "dir"}
IndexedKey == {"height"}

(* What is left of a batch of rows once the later ones have replaced the
   earlier ones of the same key.  The order is that of the outputs, or of the
   SELECT that resolved the inputs, so any one row of a key may be the last. *)
LastPerKey(rows, key) ==
  {s \in SUBSET rows :
     /\ \A r \in rows : \E x \in s : SameKey(x, r, key)
     /\ \A x, y \in s : SameKey(x, y, key) => x = y}

(* The history rows of transaction t, one per outpoint it moves. *)
Legs(t, dir, height, outs) ==
  {[addr |-> Owner[o], tx |-> t, dir |-> dir, height |-> height, out |-> o] :
     o \in outs}

(* apply_block: insert the outputs, resolve and delete the spent rows (an
   output spent in its own block included), log them for undo, write the
   history rows, record the hash and move the pointer. *)
ApplyBlock(height, hash, txs) ==
  LET created == {[out |-> o, height |-> height] : o \in CreatedBy(txs)}
      present == Upsert(utxos, created, UtxoKey)
      spent   == {r \in present : r.out \in SpentBy(txs)}
      inRows  == UNION {Legs(t, "in", height, Credited(t)) : t \in txs}
      outRows == UNION {Legs(t, "out", height, Inputs[t] \cap {r.out : r \in spent}) :
                          t \in txs}
  IN /\ utxos' = present \ spent
     /\ undo' = Upsert(undo,
                  {[at |-> height, out |-> r.out, orig |-> r.height] : r \in spent},
                  UndoKey)
     /\ \E rows \in LastPerKey(inRows \cup outRows, HistoryKey) :
          addressTxs' = Upsert(addressTxs, rows, HistoryKey)
     /\ indexBlocks' = Upsert(indexBlocks, {[height |-> height, hash |-> hash]},
                              IndexedKey)
     /\ lastHeight' = height

(* Slips: the undo log is not replayed, not pruned, or the hashes are kept. *)
RollbackWithoutUndo(n) ==
  /\ utxos' = {r \in utxos : r.height <= n}
  /\ undo' = {u \in undo : u.at <= n}
  /\ addressTxs' = {r \in addressTxs : r.height <= n}
  /\ indexBlocks' = {r \in indexBlocks : r.height <= n}
  /\ lastHeight' = n

RollbackKeepingUndo(n) ==
  /\ utxos' = {r \in utxos : r.height <= n} \cup
       {[out |-> u.out, height |-> u.orig] :
          u \in {u \in undo : u.at > n /\ u.orig <= n}}
  /\ undo' = undo
  /\ addressTxs' = {r \in addressTxs : r.height <= n}
  /\ indexBlocks' = {r \in indexBlocks : r.height <= n}
  /\ lastHeight' = n

RollbackKeepingHashes(n) ==
  /\ utxos' = {r \in utxos : r.height <= n} \cup
       {[out |-> u.out, height |-> u.orig] :
          u \in {u \in undo : u.at > n /\ u.orig <= n}}
  /\ undo' = {u \in undo : u.at <= n}
  /\ addressTxs' = {r \in addressTxs : r.height <= n}
  /\ indexBlocks' = indexBlocks
  /\ lastHeight' = n

(* rollback_to: drop the outputs of orphaned blocks, put back the older
   outputs they spent, prune everything above n and rewind the pointer. *)
RollbackTo(n) ==
  LET restored == {[out |-> u.out, height |-> u.orig] :
                     u \in {u \in undo : u.at > n /\ u.orig <= n}}
  IN /\ utxos' = Upsert({r \in utxos : r.height <= n}, restored, UtxoKey)
     /\ undo' = {u \in undo : u.at <= n}
     /\ addressTxs' = {r \in addressTxs : r.height <= n}
     /\ indexBlocks' = {r \in indexBlocks : r.height <= n}
     /\ lastHeight' = n

-----------------------------------------------------------------------------
(* The ledger on its own, fed with the blocks of one chain at a time: on a
   chain a transaction is mined once and an outpoint is spent once. *)
MinedOnce(txs) ==
  /\ \A o \in CreatedBy(txs) :
       /\ \A r \in utxos : r.out # o
       /\ \A u \in undo : u.out # o
  /\ \A r \in addressTxs : r.tx \notin txs
  /\ \A t, u \in txs : t # u => Inputs[t] \cap Inputs[u] = {}

Apply ==
  /\ lastHeight < MaxHeight
  /\ \E txs \in SUBSET Tx, hash \in Hash :
       MinedOnce(txs) /\ ApplyBlock(lastHeight + 1, hash, txs)

Rollback == \E n \in -1..(lastHeight - 1) : RollbackTo(n)

Next == Apply \/ Rollback

Spec == Init /\ [][Next]_tables

-----------------------------------------------------------------------------
(* The UTXO set a rollback to n would recover from the tables. *)
Restorable(n) ==
  {r \in utxos : r.height <= n} \cup
  {[out |-> u.out, height |-> u.orig] :
     u \in {u \in undo : u.at > n /\ u.orig <= n}}

Versions == INSTANCE UtxoHistory WITH
  top     <- lastHeight,
  unspent <- [n \in -1..lastHeight |-> Restorable(n)]

(* Whatever sequence of blocks and rollbacks is applied, the tables always
   hold, for every height up to the pointer, exactly the UTXO set that was
   live when that height was indexed, and rollback_to brings that set back:
   the "canonical post-rollback UTXO set is recovered exactly". *)
RecoversEveryVersion == Versions!Spec

(* The balance page and the history page agree: a row of utxos has its "in"
   history row, a row of utxo_undo its "in" and its "out" rows, each at the
   height the ledger gives.  apply_block and rollback_to keep the two tables
   in step. *)
HasIn(o, h) ==
  \E a \in addressTxs :
    /\ a.dir = "in" /\ a.height = h /\ a.addr = Owner[o]
    /\ a.tx \in Tx /\ o \in Outputs[a.tx]

HasOut(o, h) ==
  \E a \in addressTxs :
    /\ a.dir = "out" /\ a.height = h /\ a.addr = Owner[o]
    /\ a.tx \in Tx /\ o \in Inputs[a.tx]

HistoryCoversLedger ==
  /\ \A r \in utxos : HasIn(r.out, r.height)
  /\ \A u \in undo : HasIn(u.out, u.orig) /\ HasOut(u.out, u.at)

(* Every height up to the pointer has its recorded hash, and none above it
   has one: the reorg check has something to compare at each height. *)
HashPerHeight == {r.height : r \in indexBlocks} = 0..lastHeight
=============================================================================
