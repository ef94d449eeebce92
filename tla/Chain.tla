-------------------------------- MODULE Chain --------------------------------
(***************************************************************************)
(* The part of the TON blockchain that the indexer and the storage walk    *)
(* through: masterchain blocks and the shard blocks each of them commits.  *)
(* It is external, and a constant.                                         *)
(***************************************************************************)
EXTENDS Integers

CONSTANTS
    MaxSeqno,     \* seqno of the last masterchain block of the chain
    Shard,        \* ids of the shard blocks
    Tops,         \* Tops[m]: shard tops registered by masterchain block m
    Parents,      \* Parents[b]: one id, two for the block after a merge
    CommittedAt,  \* CommittedAt[b]: first master block whose tops cover b
    StartLt       \* StartLt[b]: start logical time of a block

Master == 0..MaxSeqno       \* a masterchain block is named by its seqno
Block  == Shard \cup Master

(***************************************************************************)
(* What TON guarantees about the chain and the code relies on: walking     *)
(* back from the tops of m ends exactly at the tops of m - 1, the two      *)
(* blocks after a split share a parent that was a top before them, logical *)
(* time grows along the chain and a master block is younger than the shard *)
(* blocks it commits: its tops, and the blocks they descend from that no   *)
(* master block before it committed.                                       *)
(***************************************************************************)
ASSUME ChainAssumption ==
    /\ MaxSeqno \in Nat
    /\ Shard \cap Master = {}
    /\ Tops \in [Master -> SUBSET Shard]
    /\ Parents \in [Shard -> SUBSET Shard]
    /\ CommittedAt \in [Shard -> Master]
    /\ StartLt \in [Block -> Nat]
    /\ \A m \in Master : \A t \in Tops[m] :
          /\ CommittedAt[t] <= m
          /\ CommittedAt[t] < m => t \in Tops[m - 1]
    /\ \A b \in Shard :
          /\ StartLt[b] < StartLt[CommittedAt[b]]
          /\ \A p \in Parents[b] :
                /\ StartLt[p] < StartLt[b]
                /\ CommittedAt[p] <= CommittedAt[b]
                /\ CommittedAt[p] < CommittedAt[b]
                      => p \in Tops[CommittedAt[b] - 1]
                /\ CommittedAt[p] = CommittedAt[b]
                      => \A c \in Shard : p \in Parents[c] => c = b
          /\ \/ b \in Tops[CommittedAt[b]]
             \/ \E c \in Shard :
                   b \in Parents[c] /\ CommittedAt[c] = CommittedAt[b]

\* The masterchain block a block was committed by.
Commit(b) == IF b \in Shard THEN CommittedAt[b] ELSE b
=============================================================================
