------------------------------ MODULE ShardDiff ------------------------------
(***************************************************************************)
(* pkg/litestorage/litestorage.go: GetBlockIDsForMasterchain, the second   *)
(* way in this program to tell which blocks a masterchain block commits    *)
(* (the first is Indexer).  It walks from the shard tops of the block back *)
(* to those of the one before, and knows that it is there by the shard of  *)
(* a block: of one shard it then takes the seqnos in between.              *)
(*                                                                         *)
(* The lite server is external: every call may fail.                       *)
(***************************************************************************)
EXTENDS Chain

CONSTANTS
    ShardOf,  \* ShardOf[b]: the shard of a shard block
    SeqnoOf   \* SeqnoOf[b]: its number in it

(***************************************************************************)
(* What TON guarantees about shards and findMissedBlocks relies on: shard  *)
(* and seqno are the id of a block, the tops of a masterchain block are of *)
(* different shards, and a shard that one had a top of has only grown, one *)
(* block after the other, if the next one commits blocks of it: it may     *)
(* split or merge once between two masterchain blocks, not there and back. *)
(***************************************************************************)
ASSUME ShardAssumption ==
    /\ SeqnoOf \in [Shard -> Nat]
    /\ "master" \notin {ShardOf[b] : b \in Shard}
    /\ \A b, c \in Shard :
          ShardOf[b] = ShardOf[c] /\ SeqnoOf[b] = SeqnoOf[c] => b = c
    /\ \A m \in Master : \A p, q \in Tops[m] : ShardOf[p] = ShardOf[q] => p = q
    /\ \A b \in Shard :
          (/\ CommittedAt[b] > 0
           /\ \E p \in Tops[CommittedAt[b] - 1] : ShardOf[p] = ShardOf[b]) =>
              \E q \in Shard : /\ Parents[b] = {q}
                              /\ ShardOf[q] = ShardOf[b]
                              /\ SeqnoOf[b] = SeqnoOf[q] + 1

VARIABLE diff   \* a request, at diff.pc

\* todo: ids findMissedBlocks has still to be called for; result: blocks, as
\* shard and seqno; failed: a call failed (history).
DiffInit == diff = [pc |-> "idle", master |-> 0, todo |-> {}, result |-> {}, failed |-> FALSE]

DiffAt(pc) == diff.pc = pc
DiffSet(fields) == diff' = [f \in DOMAIN diff |->
    IF f \in DOMAIN fields THEN fields[f] ELSE diff[f]]
CallFails == DiffSet([pc |-> "error", failed |-> TRUE])

Id(shard, seqno) == [shard |-> shard, seqno |-> seqno]
IdOf(b) == Id(ShardOf[b], SeqnoOf[b])

AskBlocks(m) == DiffAt("idle") /\ DiffSet([pc |-> "tops", master |-> m])

\* The shards of the block and of the one before it, which wraps around for 0.
GetTops ==
    /\ DiffAt("tops")
    /\ \/ CallFails
       \/ IF diff.master = 0
          THEN DiffSet([pc |-> "error"])
          ELSE DiffSet([pc |-> "walk", todo |-> Tops[diff.master],
                    result |-> {Id("master", diff.master)}])

TopBefore(b) == {p \in Tops[diff.master - 1] : ShardOf[p] = ShardOf[b]}

\* Mutant: the top of the block before is counted in.
SinceTop(p, b) == {Id(ShardOf[b], s) : s \in SeqnoOf[p]..SeqnoOf[b]}
AfterTop(p, b) == {Id(ShardOf[b], s) : s \in SeqnoOf[p] + 1..SeqnoOf[b]}

\* findMissedBlocks of b.  It recurs on the parents in their order and takes a
\* block once for each way to it, which the maps of the callers undo.
FindMissedBlocks(b) ==
    /\ DiffAt("walk") /\ b \in diff.todo
    /\ IF TopBefore(b) # {}
       THEN \E p \in TopBefore(b) :
               DiffSet([todo |-> diff.todo \ {b}, result |-> diff.result \cup AfterTop(p, b)])
       ELSE \/ CallFails
            \/ DiffSet([todo |-> (diff.todo \ {b}) \cup Parents[b],
                    result |-> diff.result \cup {IdOf(b)}])

DiffReturns == DiffAt("walk") /\ diff.todo = {} /\ DiffSet([pc |-> "done"])

GetBlockIDs == GetTops \/ DiffReturns \/ \E b \in Shard : FindMissedBlocks(b)

DiffNext == GetBlockIDs \/ \E m \in 0..MaxSeqno : AskBlocks(m)

DiffSpec == DiffInit /\ [][DiffNext]_diff

-----------------------------------------------------------------------------
(* Properties *)

(***************************************************************************)
(* Through splits, merges and idle shards the answer has the blocks the    *)
(* masterchain block commits, those the indexer delivers with it, and no   *)
(* others; it fails only if a call does or there is no block before; and   *)
(* the length the code makes its slice of, a difference of two uint32, is  *)
(* never below zero.                                                       *)
(***************************************************************************)
DiffIsTheChunk ==
    /\ DiffAt("done") => diff.result = {Id("master", diff.master)} \cup
          {IdOf(b) : b \in {c \in Shard : CommittedAt[c] = diff.master}}
    /\ DiffAt("error") => diff.failed \/ diff.master = 0
    /\ DiffAt("walk") => \A b \in diff.todo : \A p \in TopBefore(b) : SeqnoOf[p] <= SeqnoOf[b]

\* A request is on its way.
Walking == diff.pc \notin {"idle", "done", "error"}
=============================================================================
