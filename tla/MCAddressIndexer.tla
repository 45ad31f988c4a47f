-------------------------- MODULE MCAddressIndexer --------------------------
(* A chain of two-way choices.  The genesis block mints an output; the
   payment that spends it is mined at height 1 on the forks that start with
   a and at height 2 on those that start with b; a sweep of the payment
   follows at height 3. *)
EXTENDS AddressIndexer

MCTx       == {"mint", "pay", "sweep"}
MCOutpoint == {"mint0", "mint1", "pay0", "pay1", "sweep0"}
MCAddress  == {"alice", "bob"}

MCOutputs == [mint  |-> {"mint0", "mint1"},
              pay   |-> {"pay0", "pay1"},
              sweep |-> {"sweep0"}]
MCInputs  == [mint  |-> {},
              pay   |-> {"mint0"},
              sweep |-> {"pay0"}]
MCOwner   == [mint0 |-> "alice", mint1 |-> "bob", pay0 |-> "bob",
              pay1 |-> "nobody", sweep0 |-> "alice"]

MCBlockTxs(hash) ==
  CASE hash = <<>>                              -> {"mint"}
    [] hash = <<"a">>                           -> {"pay"}
    [] Len(hash) = 2 /\ hash[1] = "b"           -> {"pay"}
    [] Len(hash) = 3 /\ hash[3] = "a"           -> {"sweep"}
    [] OTHER                                    -> {}
=============================================================================
