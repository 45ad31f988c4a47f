--------------------------- MODULE MCBlockIndexer ---------------------------
(* The cfg files give every constant its value.  Sibling blocks are told apart
   by model values that nothing else distinguishes, so permuting them is a
   symmetry of the specification; only runs without liveness use it. *)
EXTENDS BlockIndexer, TLC

Siblings == Permutations(Tag)
=============================================================================
