------------------------------- MODULE Chain -------------------------------
(***************************************************************************)
(* The ITC node, as the indexers see it through getblockcount,             *)
(* getblockhash, getblock and getbestblockhash.  The active chain is the   *)
(* sequence of choices that leads from the genesis block to the tip, and a *)
(* block hash is the prefix that leads to its block: equal hashes have     *)
(* equal ancestors, and the chain may leave a fork and come back to it.    *)
(* The node keeps the blocks of abandoned forks, so a body is found by its *)
(* hash whatever the chain has done since.                                 *)
(***************************************************************************)
EXTENDS Integers, Sequences

CONSTANTS
  Tag,          \* what tells sibling blocks apart
  MaxChain,     \* bound: height of the highest block
  MaxReorgs,    \* bound: reorganizations in a behaviour
  MaxReorgDepth \* deepest reorganization, in blocks abandoned

ASSUME ChainAssumption ==
  MaxChain \in Nat /\ MaxReorgs \in Nat /\ MaxReorgDepth \in Nat

VARIABLES
  chain,   \* the active chain; its length is the height of the tip
  reorgs   \* reorganizations so far

node == <<chain, reorgs>>

BlockHash == UNION {[1..n -> Tag] : n \in 0..MaxChain}

TipHeight == Len(chain)
TipHash   == chain
HashAt(h) == SubSeq(chain, 1, h)

ChainInit == chain = <<>> /\ reorgs = 0

(* A block is mined on the tip. *)
Extend ==
  /\ TipHeight < MaxChain
  /\ \E t \in Tag : chain' = Append(chain, t)
  /\ UNCHANGED reorgs

(* The node moves to a longer fork, abandoning the last d blocks. *)
Reorg ==
  /\ reorgs < MaxReorgs
  /\ reorgs' = reorgs + 1
  /\ \E d \in 1..MaxReorgDepth :
       /\ d <= TipHeight /\ TipHeight < MaxChain
       /\ \E fork \in [1..(d + 1) -> Tag] :
            /\ fork[1] # chain[TipHeight - d + 1]
            /\ chain' = HashAt(TipHeight - d) \o fork
=============================================================================
