------------------------- MODULE MCSnapshotRewards -------------------------
(* Two heights; every coinbase pays a registered miner, that of the second     *)
(* height a registered node operator and an unregistered address too.          *)
EXTENDS SnapshotRewards, TLC

MCHeight     == 1..2
MCRange      == {1..2}
MCRecipients == [c \in MCHeight \X {0, 1} |->
                   IF c[1] = 1 THEN {"miner"} ELSE {"miner", "operator", "stranger"}]
MCRegistered == {"miner", "operator"}

Symmetry == Permutations(Snapshot)
=============================================================================
