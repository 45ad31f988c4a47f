---------------------------- MODULE Transactions ----------------------------
(***************************************************************************)
(* Transactions as the address index sees them.  A transaction is known by *)
(* its txid, so what it spends and what it creates are constants of the    *)
(* txid: the same transaction mined on two forks creates the same          *)
(* outpoints.  Amounts and script details are left out; an output with no  *)
(* address, or with no positive value, is owned by NoAddress.              *)
(***************************************************************************)
CONSTANTS
  Tx,         \* transactions
  Outpoint,   \* (txid, vout) pairs
  Address,    \* addresses the index credits
  NoAddress,  \* owner of an OP_RETURN, non-standard or zero-valued output
  Outputs,    \* Outputs[t]: the outpoints t creates
  Inputs,     \* Inputs[t]: the outpoints t spends (none for a coinbase)
  Owner       \* Owner[o]: the address credited by o

ASSUME TransactionAssumption ==
  /\ Outputs \in [Tx -> SUBSET Outpoint]
  /\ Inputs \in [Tx -> SUBSET Outpoint]
  /\ Owner \in [Outpoint -> Address \cup {NoAddress}]
  /\ NoAddress \notin Address
  \* an outpoint names the transaction that creates it
  /\ \A t, u \in Tx : t # u => Outputs[t] \cap Outputs[u] = {}

(* The outpoints process_block turns into rows: _vout_address finds an
   address and the value is positive. *)
Creditable  == {o \in Outpoint : Owner[o] # NoAddress}
Credited(t) == Outputs[t] \cap Creditable

(* A slip: outputs without an address are not skipped. *)
CreatedByAny(txs) == UNION {Outputs[t] : t \in txs}

CreatedBy(txs) == UNION {Credited(t) : t \in txs}
SpentBy(txs)   == UNION {Inputs[t] : t \in txs}
=============================================================================
