---------------------------- MODULE UtxoHistory ----------------------------
(***************************************************************************)
(* What the address ledger promises: a stack of UTXO sets, one per indexed *)
(* height.  A block pushes a version, a rollback pops back to an earlier   *)
(* one, and no version below the top ever changes.  Version -1 is the      *)
(* empty ledger before the genesis block.                                  *)
(***************************************************************************)
EXTENDS Transactions, Integers

VARIABLES
  top,      \* highest indexed height, -1 when nothing is indexed
  unspent   \* unspent[n]: the rows [out, height] unspent right after block n

vars == <<top, unspent>>

Init ==
  /\ top = -1
  /\ unspent = [n \in {-1} |-> {}]

(* An outpoint is created once on a chain. *)
NeverSeen(txs) ==
  \A n \in -1..top : \A r \in unspent[n] : r.out \notin CreatedBy(txs)

Push(txs) ==
  /\ NeverSeen(txs)
  /\ top' = top + 1
  /\ unspent' = [n \in -1..(top + 1) |->
       IF n = top + 1
         THEN {r \in unspent[top] \cup
                     {[out |-> o, height |-> top + 1] : o \in CreatedBy(txs)} :
                 r.out \notin SpentBy(txs)}
         ELSE unspent[n]]

PopTo(n) ==
  /\ top' = n
  /\ unspent' = [m \in -1..n |-> unspent[m]]

Next ==
  \/ \E txs \in SUBSET Tx : Push(txs)
  \/ \E n \in -1..(top - 1) : PopTo(n)

Spec == Init /\ [][Next]_vars
=============================================================================
