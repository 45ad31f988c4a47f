-------------------------- MODULE MCAddressLedger --------------------------
(* A small instance of the ledger: a mint paying Alice and Bob, a payment
   from Alice to Bob with change nobody can be credited for, and a sweep of
   both of Bob's outputs. *)
EXTENDS AddressLedger

MCTx       == {"mint", "pay", "sweep"}
MCOutpoint == {"mint0", "mint1", "pay0", "pay1", "sweep0"}
MCAddress  == {"alice", "bob"}

MCOutputs == [mint  |-> {"mint0", "mint1"},
              pay   |-> {"pay0", "pay1"},
              sweep |-> {"sweep0"}]
MCInputs  == [mint  |-> {},
              pay   |-> {"mint0"},
              sweep |-> {"mint1", "pay0"}]
MCOwner   == [mint0 |-> "alice", mint1 |-> "bob", pay0 |-> "bob",
              pay1 |-> "nobody", sweep0 |-> "alice"]
=============================================================================
