------------------------ MODULE AddressLedgerProofs ------------------------
(***************************************************************************)
(* Proofs about AddressLedger, for every set of transactions, outpoints,   *)
(* addresses and hashes and every bound on the height.                     *)
(***************************************************************************)
EXTENDS AddressLedger, TLAPS

(* Nothing in the tables is above the pointer, and nothing is spent before
   it was created. *)
Grounded ==
  /\ \A r \in utxos : r.height <= lastHeight
  /\ \A u \in undo : u.orig <= u.at /\ u.at <= lastHeight
  /\ \A a \in addressTxs : a.height <= lastHeight

(* An outpoint has one row in all: unspent or in the undo log. *)
OneRowPerOutpoint ==
  /\ \A r, s \in utxos : r.out = s.out => r = s
  /\ \A u, v \in undo : u.out = v.out => u = v
  /\ \A r \in utxos, u \in undo : r.out # u.out

IInv == TypeOK /\ Grounded /\ OneRowPerOutpoint

-----------------------------------------------------------------------------
(* The rows an application of txs adds and moves, read without the primary
   keys: on a chain no key is ever in the way. *)
NewRows(height, txs) == {[out |-> o, height |-> height] : o \in CreatedBy(txs)}

SpentRows(height, txs) ==
  {r \in utxos \cup NewRows(height, txs) : r.out \in SpentBy(txs)}

LEMMA CreatedType ==
  ASSUME NEW txs \in SUBSET Tx
  PROVE  CreatedBy(txs) \subseteq Creditable
BY DEF CreatedBy, Credited

(* apply_block of a block of the chain never replaces a utxos or an undo row. *)
LEMMA ApplyWithoutReplacing ==
  ASSUME IInv, NEW txs \in SUBSET Tx, NEW hash \in Hash,
         MinedOnce(txs), ApplyBlock(lastHeight + 1, hash, txs)
  PROVE  /\ utxos' = {r \in utxos \cup NewRows(lastHeight + 1, txs) :
                        r.out \notin SpentBy(txs)}
         /\ undo' = undo \cup
              {[at |-> lastHeight + 1, out |-> r.out, orig |-> r.height] :
                 r \in SpentRows(lastHeight + 1, txs)}
         /\ lastHeight' = lastHeight + 1
<1> DEFINE h == lastHeight + 1
           created == NewRows(h, txs)
           present == Upsert(utxos, created, UtxoKey)
           spent == {r \in present : r.out \in SpentBy(txs)}
           logged == {[at |-> h, out |-> r.out, orig |-> r.height] : r \in spent}
<1>1. \A r \in utxos, x \in created : r.out # x.out
  BY DEF MinedOnce, NewRows
<1>2. present = utxos \cup created
  BY <1>1 DEF Upsert, SameKey, UtxoKey
<1>3. spent = SpentRows(h, txs)
  BY <1>2 DEF SpentRows
<1>4. utxos' = present \ spent /\ undo' = Upsert(undo, logged, UndoKey)
      /\ lastHeight' = h
  BY DEF ApplyBlock, NewRows
<1>5. \A u \in undo : u.at # h
  BY DEF IInv, TypeOK, Undo, Grounded
<1>6. Upsert(undo, logged, UndoKey) = undo \cup logged
  <2>1. \A u \in undo, x \in logged : x.at # u.at
    BY <1>5
  <2>2. QED BY <2>1 DEF Upsert, SameKey, UndoKey
<1>7. present \ spent = {r \in utxos \cup created : r.out \notin SpentBy(txs)}
  BY <1>2
<1>8. QED BY <1>3, <1>4, <1>6, <1>7

(* The outputs rollback_to puts back replace none of those it keeps. *)
RestoredRows(n) ==
  {[out |-> u.out, height |-> u.orig] : u \in {u \in undo : u.at > n /\ u.orig <= n}}

LEMMA RollbackWithoutReplacing ==
  ASSUME IInv, NEW n \in -1..(lastHeight - 1), RollbackTo(n)
  PROVE  /\ utxos' = Restorable(n)
         /\ undo' = {u \in undo : u.at <= n}
         /\ lastHeight' = n
<1> DEFINE kept == {r \in utxos : r.height <= n}
<1>1. utxos' = Upsert(kept, RestoredRows(n), UtxoKey)
  BY DEF RollbackTo, RestoredRows
<1>2. \A r \in kept, x \in RestoredRows(n) : x.out # r.out
  BY DEF RestoredRows, IInv, OneRowPerOutpoint
<1>3. Upsert(kept, RestoredRows(n), UtxoKey) = kept \cup RestoredRows(n)
  BY <1>2 DEF Upsert, SameKey, UtxoKey
<1>4. QED BY <1>1, <1>3 DEF RollbackTo, Restorable, RestoredRows

-----------------------------------------------------------------------------
(* Type correctness: every row of every table keeps its shape. *)
LEMMA LegsType ==
  ASSUME NEW t \in Tx, NEW dir \in {"in", "out"}, NEW h \in Nat,
         NEW outs \in SUBSET Creditable
  PROVE  Legs(t, dir, h, outs) \subseteq History
BY TransactionAssumption DEF Legs, History, Creditable

(* What apply_block does to address_txs: it keeps rows and adds legs of the
   block's transactions, at the block's height. *)
LEMMA ApplyHistory ==
  ASSUME NEW h, NEW txs \in SUBSET Tx, NEW hash, ApplyBlock(h, hash, txs)
  PROVE  \A a \in addressTxs' :
           a \in addressTxs \/ (a.height = h /\ a.tx \in txs)
<1> DEFINE present == Upsert(utxos, {[out |-> o, height |-> h] :
                                       o \in CreatedBy(txs)}, UtxoKey)
           spent == {r \in present : r.out \in SpentBy(txs)}
           inRows == UNION {Legs(t, "in", h, Credited(t)) : t \in txs}
           outRows == UNION {Legs(t, "out", h, Inputs[t] \cap {r.out : r \in spent}) :
                               t \in txs}
<1>1. PICK rows \in LastPerKey(inRows \cup outRows, HistoryKey) :
        addressTxs' = Upsert(addressTxs, rows, HistoryKey)
  BY DEF ApplyBlock
<1>2. \A a \in inRows \cup outRows : a.height = h /\ a.tx \in txs
  BY DEF Legs
<1>3. rows \subseteq inRows \cup outRows
  BY DEF LastPerKey
<1>4. QED BY <1>1, <1>2, <1>3 DEF Upsert

LEMMA ApplyType ==
  ASSUME TypeOK, NEW txs \in SUBSET Tx, NEW hash \in Hash,
         ApplyBlock(lastHeight + 1, hash, txs)
  PROVE  TypeOK'
<1> DEFINE h == lastHeight + 1
           created == {[out |-> o, height |-> h] : o \in CreatedBy(txs)}
           present == Upsert(utxos, created, UtxoKey)
           spent == {r \in present : r.out \in SpentBy(txs)}
           logged == {[at |-> h, out |-> r.out, orig |-> r.height] : r \in spent}
           inRows == UNION {Legs(t, "in", h, Credited(t)) : t \in txs}
           outRows == UNION {Legs(t, "out", h, Inputs[t] \cap {r.out : r \in spent}) :
                               t \in txs}
<1>1. h \in Nat
  BY DEF TypeOK
<1>2. present \subseteq Utxo
  <2>1. created \subseteq Utxo
    BY <1>1, CreatedType DEF Utxo
  <2>2. QED BY <2>1 DEF TypeOK, Upsert
<1>3. spent \subseteq Utxo /\ {r.out : r \in spent} \subseteq Creditable
  BY <1>2 DEF Utxo
<1>4. logged \subseteq Undo
  <2>1. ASSUME NEW r \in spent
        PROVE  [at |-> h, out |-> r.out, orig |-> r.height] \in Undo
    <3>1. r.out \in Creditable /\ r.height \in Nat
      BY <1>3 DEF Utxo
    <3>2. QED BY <1>1, <3>1 DEF Undo
  <2>2. QED BY <2>1
<1>5. inRows \cup outRows \subseteq History
  <2>1. ASSUME NEW t \in txs
        PROVE  /\ Legs(t, "in", h, Credited(t)) \subseteq History
               /\ Legs(t, "out", h, Inputs[t] \cap {r.out : r \in spent})
                    \subseteq History
    <3>1. Credited(t) \in SUBSET Creditable
      BY DEF Credited
    <3>2. Inputs[t] \cap {r.out : r \in spent} \in SUBSET Creditable
      BY <1>3
    <3>3. QED BY <1>1, <3>1, <3>2, LegsType
  <2>2. QED BY <2>1
<1>6. utxos' \subseteq Utxo
  BY <1>2 DEF ApplyBlock
<1>7. undo' \subseteq Undo
  BY <1>4 DEF ApplyBlock, TypeOK, Upsert
<1>8. addressTxs' \subseteq History
  <2>1. PICK rows \in LastPerKey(inRows \cup outRows, HistoryKey) :
          addressTxs' = Upsert(addressTxs, rows, HistoryKey)
    BY DEF ApplyBlock
  <2>2. rows \subseteq History
    BY <1>5 DEF LastPerKey
  <2>3. QED BY <2>1, <2>2 DEF TypeOK, Upsert
<1>9. indexBlocks' \subseteq Indexed
  BY <1>1 DEF ApplyBlock, TypeOK, Upsert, Indexed
<1>10. lastHeight' \in Int /\ lastHeight' >= -1
  BY DEF ApplyBlock, TypeOK
<1>11. QED BY <1>6, <1>7, <1>8, <1>9, <1>10 DEF TypeOK

LEMMA RollbackType ==
  ASSUME TypeOK, NEW n \in -1..(lastHeight - 1), RollbackTo(n)
  PROVE  TypeOK'
<1>1. RestoredRows(n) \subseteq Utxo
  BY DEF RestoredRows, TypeOK, Undo, Utxo
<1>2. utxos' \subseteq Utxo
  BY <1>1 DEF RollbackTo, RestoredRows, Upsert, TypeOK
<1>3. QED BY <1>2 DEF RollbackTo, TypeOK

(* TypeOK holds in every reachable state: the rows apply_block builds and
   rollback_to restores always have the columns the readers expect, credited
   addresses only. *)
THEOREM TypeCorrect == Spec => []TypeOK
<1>1. Init => TypeOK
  BY DEF Init, TypeOK
<1>2. TypeOK /\ [Next]_tables => TypeOK'
  <2>1. TypeOK /\ Apply => TypeOK'
    BY ApplyType DEF Apply
  <2>2. TypeOK /\ Rollback => TypeOK'
    BY RollbackType DEF Rollback
  <2>3. TypeOK /\ UNCHANGED tables => TypeOK'
    BY DEF tables, TypeOK
  <2>4. QED BY <2>1, <2>2, <2>3 DEF Next
<1>3. QED BY <1>1, <1>2, PTL DEF Spec

-----------------------------------------------------------------------------
(* The inductive invariant. *)
LEMMA ApplyKeepsInvariant ==
  ASSUME IInv, NEW txs \in SUBSET Tx, NEW hash \in Hash,
         MinedOnce(txs), ApplyBlock(lastHeight + 1, hash, txs)
  PROVE  IInv'
<1> DEFINE h == lastHeight + 1
           logged == {[at |-> h, out |-> r.out, orig |-> r.height] :
                        r \in SpentRows(h, txs)}
<1>1. TypeOK'
  BY ApplyType DEF IInv
<1>2. /\ utxos' = {r \in utxos \cup NewRows(h, txs) : r.out \notin SpentBy(txs)}
      /\ undo' = undo \cup logged
      /\ lastHeight' = h
  BY ApplyWithoutReplacing
<1>3. \A r \in utxos \cup NewRows(h, txs) :
        r.height <= h /\ \A u \in undo : r.out # u.out
  BY DEF NewRows, IInv, TypeOK, Utxo, Grounded, OneRowPerOutpoint, MinedOnce
<1>4. \A r, s \in utxos \cup NewRows(h, txs) : r.out = s.out => r = s
  BY DEF NewRows, IInv, OneRowPerOutpoint, MinedOnce
<1>5. Grounded'
  <2>1. \A a \in addressTxs' : a.height <= h
    BY ApplyHistory DEF IInv, TypeOK, History, Grounded
  <2>2. \A u \in undo' : u.orig <= u.at /\ u.at <= h
    BY <1>2, <1>3 DEF SpentRows, IInv, TypeOK, Undo, Grounded
  <2>3. QED BY <1>2, <1>3, <2>1, <2>2 DEF Grounded
<1>6. OneRowPerOutpoint'
  <2>1. \A u, v \in undo' : u.out = v.out => u = v
    BY <1>2, <1>3, <1>4 DEF SpentRows, IInv, OneRowPerOutpoint
  <2>2. \A r \in utxos', u \in undo' : r.out # u.out
    BY <1>2, <1>3 DEF SpentRows
  <2>3. QED BY <1>2, <1>4, <2>1, <2>2 DEF OneRowPerOutpoint
<1>7. QED BY <1>1, <1>5, <1>6 DEF IInv

LEMMA RollbackKeepsInvariant ==
  ASSUME IInv, NEW n \in -1..(lastHeight - 1), RollbackTo(n)
  PROVE  IInv'
<1>1. TypeOK'
  BY RollbackType DEF IInv
<1>2. /\ utxos' = Restorable(n)
      /\ undo' = {u \in undo : u.at <= n}
      /\ lastHeight' = n
  BY RollbackWithoutReplacing
<1>3. Grounded'
  BY <1>2 DEF Restorable, Grounded, IInv, RollbackTo
<1>4. OneRowPerOutpoint'
  <2>1. \A r \in utxos' : \/ r \in utxos
                           \/ \E u \in undo : u.at > n /\ r.out = u.out /\ r.height = u.orig
    BY <1>2 DEF Restorable
  <2>2. \A r, s \in utxos' : r.out = s.out => r = s
    BY <1>2 DEF Restorable, OneRowPerOutpoint, IInv
  <2>3. \A u, v \in undo' : u.out = v.out => u = v
    BY <1>2 DEF OneRowPerOutpoint, IInv
  <2>4. \A r \in utxos', u \in undo' : r.out # u.out
    BY <1>2, <2>1 DEF OneRowPerOutpoint, IInv, TypeOK, Undo
  <2>5. QED BY <2>2, <2>3, <2>4 DEF OneRowPerOutpoint
<1>5. QED BY <1>1, <1>3, <1>4 DEF IInv

LEMMA InvariantInductive == Spec => []IInv
<1>1. Init => IInv
  BY DEF Init, IInv, TypeOK, Grounded, OneRowPerOutpoint
<1>2. IInv /\ [Next]_tables => IInv'
  <2>1. IInv /\ Apply => IInv'
    BY ApplyKeepsInvariant DEF Apply
  <2>2. IInv /\ Rollback => IInv'
    BY RollbackKeepsInvariant DEF Rollback
  <2>3. IInv /\ UNCHANGED tables => IInv'
    BY DEF tables, IInv, TypeOK, Grounded, OneRowPerOutpoint
  <2>4. QED BY <2>1, <2>2, <2>3 DEF Next
<1>3. QED BY <1>1, <1>2, PTL DEF Spec

-----------------------------------------------------------------------------
(* Refinement: what the tables would be rolled back to. *)
LEMMA TopVersion ==
  ASSUME IInv
  PROVE  Restorable(lastHeight) = utxos
BY DEF IInv, TypeOK, Utxo, Undo, Grounded, Restorable

(* A block leaves every older version as it was and adds its own. *)
LEMMA ApplyPushes ==
  ASSUME IInv, NEW txs \in SUBSET Tx, NEW hash \in Hash,
         MinedOnce(txs), ApplyBlock(lastHeight + 1, hash, txs)
  PROVE  /\ \A n \in -1..lastHeight : Restorable(n)' = Restorable(n)
         /\ \A n \in Int : n = lastHeight + 1 => Restorable(n)' =
              {r \in utxos \cup NewRows(n, txs) : r.out \notin SpentBy(txs)}
<1> DEFINE h == lastHeight + 1
           logged == {[at |-> h, out |-> r.out, orig |-> r.height] :
                        r \in SpentRows(h, txs)}
<1>1. /\ utxos' = {r \in utxos \cup NewRows(h, txs) : r.out \notin SpentBy(txs)}
      /\ undo' = undo \cup logged
      /\ lastHeight' = h
  BY ApplyWithoutReplacing
<1>2. IInv' /\ h \in Int
  BY ApplyKeepsInvariant DEF IInv, TypeOK
<1>3. ASSUME NEW n \in -1..lastHeight
      PROVE  Restorable(n)' = Restorable(n)
  <2> n < h /\ n \in Int
    BY DEF IInv, TypeOK
  <2> USE DEF Restorable
  <2>1. ASSUME NEW r \in Restorable(n)'
        PROVE  r \in Restorable(n)
    <3>1. CASE r \in utxos' /\ r.height <= n
      BY <1>1, <3>1 DEF NewRows
    <3>2. CASE \E u \in undo' : u.at > n /\ u.orig <= n
                               /\ r = [out |-> u.out, height |-> u.orig]
      <4>1. PICK u \in undo' : u.at > n /\ u.orig <= n
                              /\ r = [out |-> u.out, height |-> u.orig]
        BY <3>2
      <4>2. CASE u \in undo
        BY <4>1, <4>2
      <4>3. CASE u \in logged
        <5>1. PICK s \in SpentRows(h, txs) :
                u = [at |-> h, out |-> s.out, orig |-> s.height]
          BY <4>3
        <5>2. s \in utxos
          <6>1. s.height <= n
            BY <4>1, <5>1
          <6>2. \A x \in NewRows(h, txs) : x.height = h
            BY DEF NewRows
          <6>3. s \notin NewRows(h, txs)
            BY <1>2, <6>1, <6>2
          <6>4. QED BY <6>3 DEF SpentRows
        <5>3. r = [out |-> s.out, height |-> s.height]
          BY <4>1, <5>1
        <5>4. s = [out |-> s.out, height |-> s.height]
          BY <5>2 DEF IInv, TypeOK, Utxo
        <5>5. s.height <= n
          BY <4>1, <5>1
        <5>6. QED BY <5>2, <5>3, <5>4, <5>5
      <4>4. QED BY <1>1, <4>2, <4>3
    <3>3. QED BY <2>1, <3>1, <3>2
  <2>2. ASSUME NEW r \in Restorable(n)
        PROVE  r \in Restorable(n)'
    <3>1. CASE r \in utxos /\ r.height <= n /\ r.out \notin SpentBy(txs)
      BY <1>1, <3>1
    <3>2. CASE r \in utxos /\ r.height <= n /\ r.out \in SpentBy(txs)
      <4> DEFINE u == [at |-> h, out |-> r.out, orig |-> r.height]
      <4>1. u \in undo'
        BY <1>1, <3>2 DEF SpentRows
      <4>2. r = [out |-> u.out, height |-> u.orig]
        BY <3>2 DEF IInv, TypeOK, Utxo
      <4>3. u.at > n /\ u.orig <= n
        BY <3>2
      <4>4. QED BY <4>1, <4>2, <4>3
    <3>3. CASE \E u \in undo : u.at > n /\ u.orig <= n
                              /\ r = [out |-> u.out, height |-> u.orig]
      BY <1>1, <3>3
    <3>4. QED BY <2>2, <3>1, <3>2, <3>3
  <2>3. QED BY <2>1, <2>2
<1>4. ASSUME NEW n \in Int, n = h
      PROVE  Restorable(n)' = utxos'
  BY <1>1, <1>2, <1>4 DEF IInv, TypeOK, Utxo, Undo, Grounded, Restorable
<1>5. QED BY <1>1, <1>3, <1>4

(* A rollback leaves every version up to its target as it was. *)
LEMMA RollbackPops ==
  ASSUME IInv, NEW n \in -1..(lastHeight - 1), RollbackTo(n)
  PROVE  \A m \in -1..n : Restorable(m)' = Restorable(m)
<1>1. /\ utxos' = Restorable(n)
      /\ undo' = {u \in undo : u.at <= n}
  BY RollbackWithoutReplacing
<1>2. n \in Int
  BY DEF IInv, TypeOK
<1>3. ASSUME NEW m \in -1..n
      PROVE  Restorable(m)' = Restorable(m)
  <2> m <= n /\ m \in Int
    BY <1>2
  <2> USE DEF Restorable
  <2>1. \A u \in undo : u.at \in Int /\ u.orig \in Int /\ u.orig <= u.at
    BY DEF IInv, TypeOK, Undo, Grounded
  <2>2. \A r \in utxos : r.height \in Int
    BY DEF IInv, TypeOK, Utxo
  <2>3. ASSUME NEW r \in Restorable(m)'
        PROVE  r \in Restorable(m)
    <3>1. CASE r \in utxos' /\ r.height <= m
      <4>1. CASE r \in utxos
        BY <3>1, <4>1
      <4>2. CASE \E u \in undo : u.at > n /\ u.orig <= n
                                /\ r = [out |-> u.out, height |-> u.orig]
        BY <1>2, <2>1, <3>1, <4>2
      <4>3. QED BY <1>1, <3>1, <4>1, <4>2
    <3>2. CASE \E u \in undo' : u.at > m /\ u.orig <= m
                               /\ r = [out |-> u.out, height |-> u.orig]
      BY <1>1, <3>2
    <3>3. QED BY <2>3, <3>1, <3>2
  <2>4. ASSUME NEW r \in Restorable(m)
        PROVE  r \in Restorable(m)'
    <3>1. CASE r \in utxos /\ r.height <= m
      BY <1>1, <1>2, <2>2, <3>1
    <3>2. CASE \E u \in undo : u.at > m /\ u.orig <= m
                              /\ r = [out |-> u.out, height |-> u.orig]
      <4>1. PICK u \in undo : u.at > m /\ u.orig <= m
                             /\ r = [out |-> u.out, height |-> u.orig]
        BY <3>2
      <4>2. CASE u.at <= n
        BY <1>1, <4>1, <4>2
      <4>3. CASE u.at > n
        <5>1. u.orig <= n
          BY <1>2, <2>1, <4>1
        <5>2. r \in utxos'
          BY <1>1, <4>1, <4>3, <5>1
        <5>3. r.height <= m
          BY <4>1
        <5>4. QED BY <5>2, <5>3
      <4>4. QED BY <1>2, <2>1, <4>2, <4>3
    <3>3. QED BY <2>4, <3>1, <3>2
  <2>5. QED BY <2>3, <2>4
<1>4. QED BY <1>3

(* The two modules read the same transactions. *)
LEMMA SameTransactions ==
  ASSUME NEW txs
  PROVE  Versions!CreatedBy(txs) = CreatedBy(txs) /\ Versions!SpentBy(txs) = SpentBy(txs)
BY DEF Versions!CreatedBy, CreatedBy, Versions!Credited, Credited,
       Versions!Creditable, Creditable, Versions!SpentBy, SpentBy

LEMMA PushStep ==
  ASSUME IInv, Apply
  PROVE  Versions!Next
<1>1. PICK txs \in SUBSET Tx, hash \in Hash :
        MinedOnce(txs) /\ ApplyBlock(lastHeight + 1, hash, txs)
  BY DEF Apply
<1>2. lastHeight' = lastHeight + 1 /\ lastHeight \in Int /\ lastHeight >= -1
  BY <1>1, ApplyWithoutReplacing DEF IInv, TypeOK
<1>3. Versions!NeverSeen(txs)
  <2>1. ASSUME NEW n \in -1..lastHeight, NEW r \in Restorable(n)
        PROVE  r.out \notin CreatedBy(txs)
    BY <1>1 DEF Restorable, MinedOnce
  <2>2. QED BY <2>1, SameTransactions DEF Versions!NeverSeen
<1>4. /\ \A n \in -1..lastHeight : Restorable(n)' = Restorable(n)
      /\ \A n \in Int : n = lastHeight + 1 => Restorable(n)' =
           {r \in Restorable(lastHeight) \cup NewRows(n, txs) : r.out \notin SpentBy(txs)}
  BY <1>1, ApplyPushes, TopVersion
<1>5. Versions!Push(txs)
  <2> DEFINE h == lastHeight + 1
             old == [n \in -1..lastHeight |-> Restorable(n)]
             pushed == {r \in old[lastHeight] \cup
                               {[out |-> o, height |-> h] : o \in Versions!CreatedBy(txs)} :
                          r.out \notin Versions!SpentBy(txs)}
  <2>1. old[lastHeight] = Restorable(lastHeight)
    BY <1>2
  <2>2. ASSUME NEW n \in Int, n = h
        PROVE  Restorable(n)' = pushed
    <3>1. Restorable(n)' = {r \in Restorable(lastHeight) \cup NewRows(n, txs) :
                              r.out \notin SpentBy(txs)}
      BY <1>4, <2>2
    <3>2. Versions!CreatedBy(txs) = CreatedBy(txs) /\ Versions!SpentBy(txs) = SpentBy(txs)
      BY SameTransactions
    <3>3. pushed = {r \in Restorable(lastHeight) \cup NewRows(n, txs) :
                      r.out \notin SpentBy(txs)}
      BY <2>1, <2>2, <3>2 DEF NewRows
    <3>4. QED BY <3>1, <3>3
  <2>3. ASSUME NEW n \in -1..h
        PROVE  Restorable(n)' = IF n = h THEN pushed ELSE old[n]
    <3>1. CASE n = h
      <4>1. n \in Int
        BY <1>2
      <4>2. QED BY <2>2, <3>1, <4>1
    <3>2. CASE n # h
      <4>1. n \in -1..lastHeight
        BY <1>2, <3>2
      <4>2. QED BY <1>4, <3>2, <4>1
    <3>3. QED BY <3>1, <3>2
  <2>4. [n \in -1..lastHeight' |-> Restorable(n)'] =
          [n \in -1..h |-> IF n = h THEN pushed ELSE old[n]]
    <3> HIDE DEF pushed, old
    <3> QED BY <1>2, <2>3
  <2>5. QED BY <1>2, <1>3, <2>4 DEF Versions!Push
<1>6. QED BY <1>5 DEF Versions!Next

LEMMA PopStep ==
  ASSUME IInv, Rollback
  PROVE  Versions!Next
<1>1. PICK n \in -1..(lastHeight - 1) : RollbackTo(n)
  BY DEF Rollback
<1>2. lastHeight' = n
  BY <1>1 DEF RollbackTo
<1>3. \A m \in -1..n : Restorable(m)' = Restorable(m)
  BY <1>1, RollbackPops
<1>4. Versions!PopTo(n)
  BY <1>2, <1>3 DEF Versions!PopTo, IInv, TypeOK
<1>5. QED BY <1>4 DEF Versions!Next

(* The ledger implements the stack of UTXO sets: whatever is applied and
   rolled back, each rollback recovers exactly the set that was live when its
   height was indexed. *)
THEOREM LedgerRefinesHistory == Spec => RecoversEveryVersion
<1>1. Init => Versions!Init
  BY DEF Init, Versions!Init, Restorable
<1>2. IInv /\ [Next]_tables => [Versions!Next]_Versions!vars
  <2>1. IInv /\ Apply => Versions!Next
    BY PushStep
  <2>2. IInv /\ Rollback => Versions!Next
    BY PopStep
  <2>3. UNCHANGED tables => UNCHANGED Versions!vars
    BY DEF tables, Versions!vars, Restorable
  <2>4. QED BY <2>1, <2>2, <2>3 DEF Next
<1>3. QED BY <1>1, <1>2, InvariantInductive, PTL
             DEF Spec, RecoversEveryVersion, Versions!Spec

-----------------------------------------------------------------------------
(* The balance side and the history side stay in step. *)
LEMMA ApplyAddsLegs ==
  ASSUME IInv, NEW h \in Nat, h = lastHeight + 1,
         NEW txs \in SUBSET Tx, NEW hash \in Hash,
         MinedOnce(txs), ApplyBlock(h, hash, txs)
  PROVE  /\ addressTxs \subseteq addressTxs'
         /\ \A r \in NewRows(h, txs) : HasIn(r.out, h)'
         /\ \A r \in SpentRows(h, txs) : HasOut(r.out, h)'
<1> DEFINE present == Upsert(utxos, {[out |-> o, height |-> h] :
                                       o \in CreatedBy(txs)}, UtxoKey)
           spent == {r \in present : r.out \in SpentBy(txs)}
           inRows == UNION {Legs(t, "in", h, Credited(t)) : t \in txs}
           outRows == UNION {Legs(t, "out", h, Inputs[t] \cap {r.out : r \in spent}) :
                               t \in txs}
           legs == inRows \cup outRows
<1>1. PICK rows \in LastPerKey(inRows \cup outRows, HistoryKey) :
        addressTxs' = Upsert(addressTxs, rows, HistoryKey)
  BY DEF ApplyBlock
<1>2. \A a \in legs : a.height = h /\ a.tx \in txs
  BY DEF Legs
<1>3. rows \subseteq legs /\ rows \subseteq addressTxs'
  BY <1>1 DEF LastPerKey, Upsert
<1>4. ASSUME NEW a \in legs
      PROVE  \E x \in addressTxs' :
               x.addr = a.addr /\ x.tx = a.tx /\ x.dir = a.dir /\ x.height = h
  <2>1. PICK x \in rows : SameKey(x, a, HistoryKey)
    BY DEF LastPerKey
  <2>2. QED BY <1>2, <1>3, <2>1 DEF SameKey, HistoryKey
<1>5. addressTxs \subseteq addressTxs'
  <2>1. \A a \in addressTxs, x \in rows : x.tx # a.tx
    BY <1>2, <1>3 DEF MinedOnce
  <2>2. QED BY <1>1, <2>1 DEF Upsert, SameKey, HistoryKey
<1>6. ASSUME NEW r \in NewRows(h, txs)
      PROVE  HasIn(r.out, h)'
  <2>1. PICK t \in txs : r.out \in Credited(t)
    BY DEF NewRows, CreatedBy
  <2> DEFINE a == [addr |-> Owner[r.out], tx |-> t, dir |-> "in",
                   height |-> h, out |-> r.out]
  <2>2. a \in legs
    <3>1. a \in Legs(t, "in", h, Credited(t))
      BY <2>1 DEF Legs
    <3>2. QED BY <3>1
  <2>3. PICK x \in addressTxs' :
          x.addr = a.addr /\ x.tx = a.tx /\ x.dir = a.dir /\ x.height = h
    BY <1>4, <2>2
  <2>4. QED BY <2>1, <2>3 DEF HasIn, Credited
<1>7. ASSUME NEW r \in SpentRows(h, txs)
      PROVE  HasOut(r.out, h)'
  <2>1. present = utxos \cup NewRows(h, txs)
    <3>1. \A q \in utxos, x \in NewRows(h, txs) : q.out # x.out
      BY DEF MinedOnce, NewRows
    <3>2. QED BY <3>1 DEF Upsert, SameKey, UtxoKey, NewRows
  <2>2. r \in spent
    BY <2>1 DEF SpentRows
  <2>3. PICK t \in txs : r.out \in Inputs[t]
    BY DEF SpentRows, SpentBy
  <2> DEFINE a == [addr |-> Owner[r.out], tx |-> t, dir |-> "out",
                   height |-> h, out |-> r.out]
  <2>4. a \in legs
    <3>1. r.out \in Inputs[t] \cap {q.out : q \in spent}
      BY <2>2, <2>3
    <3>2. a \in Legs(t, "out", h, Inputs[t] \cap {q.out : q \in spent})
      BY <3>1 DEF Legs
    <3>3. QED BY <3>2
  <2>5. PICK x \in addressTxs' :
          x.addr = a.addr /\ x.tx = a.tx /\ x.dir = a.dir /\ x.height = h
    BY <1>4, <2>4
  <2>6. QED BY <2>3, <2>5 DEF HasOut
<1>8. QED BY <1>5, <1>6, <1>7

LEMMA ApplyKeepsHistory ==
  ASSUME IInv, HistoryCoversLedger, Apply
  PROVE  HistoryCoversLedger'
<1>1. PICK txs \in SUBSET Tx, hash \in Hash :
        MinedOnce(txs) /\ ApplyBlock(lastHeight + 1, hash, txs)
  BY DEF Apply
<1>2. PICK h \in Nat : h = lastHeight + 1
  BY DEF IInv, TypeOK
<1>3. /\ addressTxs \subseteq addressTxs'
      /\ \A r \in NewRows(h, txs) : HasIn(r.out, h)'
      /\ \A r \in SpentRows(h, txs) : HasOut(r.out, h)'
  BY <1>1, <1>2, ApplyAddsLegs
<1>4. \A o, k : HasIn(o, k) => HasIn(o, k)'
  BY <1>3 DEF HasIn
<1>5. \A o, k : HasOut(o, k) => HasOut(o, k)'
  BY <1>3 DEF HasOut
<1>6. \A r \in utxos \cup NewRows(h, txs) : HasIn(r.out, r.height)'
  BY <1>3, <1>4 DEF NewRows, HistoryCoversLedger
<1>7. /\ utxos' = {r \in utxos \cup NewRows(h, txs) : r.out \notin SpentBy(txs)}
      /\ undo' = undo \cup {[at |-> h, out |-> r.out, orig |-> r.height] :
                              r \in SpentRows(h, txs)}
  BY <1>1, <1>2, ApplyWithoutReplacing
<1>8. ASSUME NEW u \in undo'
      PROVE  HasIn(u.out, u.orig)' /\ HasOut(u.out, u.at)'
  <2>1. CASE u \in undo
    BY <1>4, <1>5, <2>1 DEF HistoryCoversLedger
  <2>2. CASE \E r \in SpentRows(h, txs) :
               u = [at |-> h, out |-> r.out, orig |-> r.height]
    <3>1. PICK r \in SpentRows(h, txs) :
            u = [at |-> h, out |-> r.out, orig |-> r.height]
      BY <2>2
    <3>2. HasIn(r.out, r.height)' /\ HasOut(r.out, h)'
      BY <1>3, <1>6 DEF SpentRows
    <3>3. QED BY <3>1, <3>2
  <2>3. QED BY <1>7, <2>1, <2>2
<1>9. QED BY <1>6, <1>7, <1>8 DEF HistoryCoversLedger

LEMMA RollbackKeepsHistory ==
  ASSUME IInv, HistoryCoversLedger, Rollback
  PROVE  HistoryCoversLedger'
<1>1. PICK n \in -1..(lastHeight - 1) : RollbackTo(n)
  BY DEF Rollback
<1>2. /\ utxos' = Restorable(n)
      /\ undo' = {u \in undo : u.at <= n}
      /\ addressTxs' = {a \in addressTxs : a.height <= n}
  BY <1>1, RollbackWithoutReplacing DEF RollbackTo
<1>3. \A o, k : HasIn(o, k) /\ k <= n => HasIn(o, k)'
  BY <1>2 DEF HasIn
<1>4. \A o, k : HasOut(o, k) /\ k <= n => HasOut(o, k)'
  BY <1>2 DEF HasOut
<1>5. ASSUME NEW r \in utxos'
      PROVE  HasIn(r.out, r.height)'
  BY <1>2, <1>3 DEF Restorable, HistoryCoversLedger
<1>6. ASSUME NEW u \in undo'
      PROVE  HasIn(u.out, u.orig)' /\ HasOut(u.out, u.at)'
  <2>1. u \in undo /\ u.at <= n /\ u.orig <= u.at
    BY <1>2 DEF IInv, Grounded
  <2>2. u.orig <= n
    BY <2>1 DEF IInv, TypeOK, Undo
  <2>3. QED BY <1>3, <1>4, <2>1, <2>2 DEF HistoryCoversLedger
<1>7. QED BY <1>5, <1>6 DEF HistoryCoversLedger

(* Every unspent output has its "in" row at its height and every logged spend
   its "in" and "out" rows, through any run of blocks and rollbacks: the
   balance page and the history page describe the same ledger. *)
THEOREM HistoryAgrees == Spec => []HistoryCoversLedger
<1>1. Init => HistoryCoversLedger
  BY DEF Init, HistoryCoversLedger
<1>2. IInv /\ HistoryCoversLedger /\ [Next]_tables => HistoryCoversLedger'
  <2>1. CASE UNCHANGED tables
    BY <2>1 DEF tables, HistoryCoversLedger, HasIn, HasOut
  <2>2. QED BY <2>1, ApplyKeepsHistory, RollbackKeepsHistory DEF Next
<1>3. QED BY <1>1, <1>2, InvariantInductive, PTL DEF Spec

-----------------------------------------------------------------------------
(* Every height up to the pointer keeps a recorded hash for the reorg check,
   and a rollback leaves none above its target. *)
THEOREM HashesRecorded == Spec => []HashPerHeight
<1>1. Init => HashPerHeight
  BY DEF Init, HashPerHeight
<1>2. IInv /\ HashPerHeight /\ [Next]_tables => HashPerHeight'
  <2> SUFFICES ASSUME IInv, HashPerHeight, [Next]_tables
               PROVE  HashPerHeight'
    OBVIOUS
  <2>1. lastHeight \in Int /\ lastHeight >= -1
    BY DEF IInv, TypeOK
  <2>2. CASE Apply
    <3>1. PICK hash \in Hash : \E txs \in SUBSET Tx :
            ApplyBlock(lastHeight + 1, hash, txs)
      BY <2>2 DEF Apply
    <3> DEFINE new == [height |-> lastHeight + 1, hash |-> hash]
    <3>2. indexBlocks' = Upsert(indexBlocks, {new}, IndexedKey)
          /\ lastHeight' = lastHeight + 1
      BY <3>1 DEF ApplyBlock
    <3>3. \A r \in indexBlocks : r.height # lastHeight + 1
      BY <2>1 DEF HashPerHeight
    <3>4. indexBlocks' = indexBlocks \cup {new}
      BY <3>2, <3>3 DEF Upsert, SameKey, IndexedKey
    <3>5. {r.height : r \in indexBlocks'} =
            {r.height : r \in indexBlocks} \cup {new.height}
      BY <3>4
    <3>6. (0..lastHeight) \cup {lastHeight + 1} = 0..(lastHeight + 1)
      BY <2>1
    <3>7. {r.height : r \in indexBlocks'} = 0..(lastHeight + 1)
      BY <3>5, <3>6 DEF HashPerHeight
    <3>8. QED BY <3>2, <3>7 DEF HashPerHeight
  <2>3. CASE Rollback
    <3>1. PICK n \in -1..(lastHeight - 1) : RollbackTo(n)
      BY <2>3 DEF Rollback
    <3>2. indexBlocks' = {r \in indexBlocks : r.height <= n} /\ lastHeight' = n
      BY <3>1 DEF RollbackTo
    <3>3. {r.height : r \in indexBlocks'} =
            {k \in {r.height : r \in indexBlocks} : k <= n}
      BY <3>2
    <3>4. {k \in 0..lastHeight : k <= n} = 0..n
      BY <2>1
    <3>5. {r.height : r \in indexBlocks'} = 0..n
      BY <3>3, <3>4 DEF HashPerHeight
    <3>6. QED BY <3>2, <3>5 DEF HashPerHeight
  <2>4. CASE UNCHANGED tables
    BY <2>4 DEF tables, HashPerHeight
  <2>5. QED BY <2>2, <2>3, <2>4 DEF Next
<1>3. QED BY <1>1, <1>2, InvariantInductive, PTL DEF Spec
=============================================================================
