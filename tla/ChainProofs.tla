---------------------------- MODULE ChainProofs ----------------------------
(***************************************************************************)
(* Lemmas about the node's chain, for every chain and every reorganization *)
(* of it: what a hash is, what getblockhash returns, and that the node     *)
(* keeps to its bound.  The proofs about both indexers use them.           *)
(***************************************************************************)
EXTENDS Chain, SequenceTheorems, TLAPS

(* A hash is a sequence of at most MaxChain choices. *)
LEMMA HashIsPath ==
  BlockHash = {s \in Seq(Tag) : Len(s) <= MaxChain}
<1>1. \A s \in BlockHash : s \in Seq(Tag) /\ Len(s) <= MaxChain
  BY ChainAssumption DEF BlockHash
<1>2. \A s \in Seq(Tag) : Len(s) <= MaxChain => s \in BlockHash
  BY ChainAssumption DEF BlockHash
<1>3. QED BY <1>1, <1>2

LEMMA HashHeight ==
  ASSUME NEW b \in BlockHash
  PROVE  Len(b) \in 0..MaxChain /\ Len(b) \in Nat
BY HashIsPath, ChainAssumption

(* What getblockhash returns for a height the chain has. *)
LEMMA HashAtHeight ==
  ASSUME chain \in BlockHash, NEW h \in 0..TipHeight
  PROVE  HashAt(h) \in BlockHash /\ Len(HashAt(h)) = h
<1>1. chain \in Seq(Tag) /\ Len(chain) <= MaxChain
  BY HashIsPath
<1>2. HashAt(h) \in Seq(Tag) /\ Len(HashAt(h)) = h
  BY <1>1 DEF HashAt, TipHeight
<1>3. QED BY <1>1, <1>2, HashIsPath, ChainAssumption DEF TipHeight

(* The chain stays within its bound. *)
LEMMA NodeKeepsChain ==
  ASSUME chain \in BlockHash, Extend \/ Reorg
  PROVE  chain' \in BlockHash
<1>1. chain \in Seq(Tag) /\ Len(chain) <= MaxChain
  BY HashIsPath
<1>2. CASE Extend
  <2>1. PICK t \in Tag : chain' = Append(chain, t)
    BY <1>2 DEF Extend
  <2>2. chain' \in Seq(Tag) /\ Len(chain') = Len(chain) + 1
    BY <1>1, <2>1
  <2>3. QED BY <1>1, <1>2, <2>2, HashIsPath, ChainAssumption DEF Extend, TipHeight
<1>3. CASE Reorg
  <2>1. PICK d \in 1..MaxReorgDepth :
          /\ d <= TipHeight /\ TipHeight < MaxChain
          /\ \E fork \in [1..(d + 1) -> Tag] : chain' = HashAt(TipHeight - d) \o fork
    BY <1>3 DEF Reorg
  <2>2. PICK fork \in [1..(d + 1) -> Tag] : chain' = HashAt(TipHeight - d) \o fork
    BY <2>1
  <2>3. fork \in Seq(Tag) /\ Len(fork) = d + 1
    BY ChainAssumption
  <2>4. TipHeight - d \in 0..TipHeight
    BY <1>1, <2>1, ChainAssumption DEF TipHeight
  <2>5. HashAt(TipHeight - d) \in Seq(Tag) /\ Len(HashAt(TipHeight - d)) = TipHeight - d
    BY <2>4, HashAtHeight, HashIsPath
  <2>6. chain' \in Seq(Tag) /\ Len(chain') = TipHeight + 1
    <3>1. chain' \in Seq(Tag) /\ Len(chain') = TipHeight - d + (d + 1)
      <4> DEFINE kept == HashAt(TipHeight - d)
      <4>1. kept \in Seq(Tag) /\ Len(kept) = TipHeight - d
        BY <2>5
      <4>2. chain' = kept \o fork
        BY <2>2
      <4> HIDE DEF kept
      <4>3. kept \o fork \in Seq(Tag) /\ Len(kept \o fork) = Len(kept) + Len(fork)
        BY <4>1, <2>3, ConcatProperties
      <4>4. QED BY <4>1, <4>2, <4>3, <2>3
    <3>2. TipHeight \in Nat /\ d \in Nat
      BY <1>1, ChainAssumption DEF TipHeight
    <3>3. QED BY <3>1, <3>2
  <2>7. QED BY <1>1, <2>1, <2>6, HashIsPath, ChainAssumption DEF TipHeight
<1>4. QED BY <1>2, <1>3
=============================================================================
