---------------------------- MODULE IndexerProofs ----------------------------
(***************************************************************************)
(* Proofs about Indexer, for every chain that satisfies ChainAssumption,   *)
(* every number of channels and every number of faults: the stream of      *)
(* blocks it sends is the same for all subscribers (ChannelsAgree), has no *)
(* block twice (ExactlyOnce), is in order (StreamOrdered) and has no gap   *)
(* (NoneMissing).                                                          *)
(*                                                                         *)
(* The last subscriber is one block behind the others while a block is     *)
(* being sent, so that what it has is what everybody has; of this stream   *)
(* StreamInv says that each block fits those before it.  That the next one *)
(* will is due to the chunk under construction: ResolveInv while it grows, *)
(* PickInv while it is sent.                                               *)
(*                                                                         *)
(* That nothing is missing follows from the order, for a masterchain block *)
(* that was sent, by induction along the chain: from the block down to its *)
(* tops, and from each block down to its parents (ClosedIsWhole).          *)
(***************************************************************************)
EXTENDS Indexer, WellFoundedInduction, TLAPS

-----------------------------------------------------------------------------
(* Types. *)

\* The numbers among the constants.
LEMMA Numbers ==
    /\ MaxSeqno \in Nat /\ MaxFaults \in Nat
    /\ NumChannels \in Nat /\ NumChannels > 0
    /\ SeqnoRange \in Nat /\ SeqnoRange > MaxSeqno + 1
  BY ChainAssumption, BoundsAssumption

\* The sets and functions among the constants.
LEMMA Sets ==
    /\ Tops \in [Master -> SUBSET Shard]
    /\ Master \subseteq Block /\ Shard \subseteq Block
  BY ChainAssumption DEF Block

(***************************************************************************)
(* TypeOK alone is not inductive: the chunk under construction exists only *)
(* because the node had applied its masterchain block.                     *)
(***************************************************************************)
Building == pc \in {"resolve", "pick", "send"}
TypeInv ==
    /\ TypeOK
    /\ Building => masterID + 1 <= head

LEMMA InitTypeInv == Init => TypeInv
<1> SUFFICES ASSUME Init PROVE TypeInv
  OBVIOUS
<1>1. 0 \in Master /\ 0 \in 0..MaxFaults /\ 1 \in Channel
  BY Numbers DEF Master, Channel
<1>2. 0 \in Block
  BY <1>1, Sets
<1>3. Empty \in [Shard -> Nat] /\ NoBlocks \in [Block -> Nat]
  BY DEF Empty, NoBlocks
<1>4. received \in [Channel -> Seq(Block)]
  BY DEF Init
<1>5. QED
  BY <1>1, <1>2, <1>3, <1>4 DEF Init, TypeInv, TypeOK, Building

\* Every variable keeps its type: in particular the seqnos the indexer asks
\* for stay within the chain although initChunk's seqno - 1 wraps around.
LEMMA NextTypeInv == TypeInv /\ [Next]_vars => TypeInv'
<1> SUFFICES ASSUME TypeInv, [Next]_vars PROVE TypeInv'
  OBVIOUS
<1>t. /\ head \in Nat /\ head <= MaxSeqno
      /\ masterID \in Nat /\ masterID <= MaxSeqno
      /\ last \in Nat /\ last <= MaxSeqno
      /\ faults \in 0..MaxFaults /\ ch \in Nat
  BY Numbers DEF TypeInv, TypeOK, Master, Channel
<1>f. Fault => faults' \in 0..MaxFaults
  BY <1>t, Numbers DEF Fault
<1>m. masterID + 1 <= head => masterID + 1 \in Master
  BY <1>t, Numbers DEF Master
<1> USE DEF TypeInv, Building, TypeOK, envVars, anchorVars, chunkVars,
            buildVars, sendVars
<1>1. CASE NodeApplies
  <2>1. head' = head + 1 /\ head < MaxSeqno
    BY <1>1 DEF NodeApplies
  <2>2. head' \in Master /\ (masterID + 1 <= head => masterID + 1 <= head')
    BY <2>1, <1>t, Numbers DEF Master
  <2>3. UNCHANGED <<faults, pc, anchorVars, chunkVars, buildVars, lost,
                    sendVars, received>>
    BY <1>1 DEF NodeApplies
  <2>4. QED
    BY <2>2, <2>3
<1>2. CASE GetMasterchainInfo
  <2>1. \/ last' = head /\ UNCHANGED faults
        \/ (\E s \in 0..head : s < head /\ last' = s) /\ Fault
    BY <1>2 DEF GetMasterchainInfo
  <2>2. last' \in Master
    BY <2>1, <1>t, Numbers DEF Master
  <2>3. faults' \in 0..MaxFaults
    BY <2>1, <1>t, <1>f
  <2>4. pc' = "initChunk" /\ UNCHANGED <<head, anchor, chunkVars, buildVars,
                                          lost, sendVars, received>>
    BY <1>2 DEF GetMasterchainInfo
  <2>5. QED
    BY <2>2, <2>3, <2>4
<1>3. CASE InitChunk
  <2>1. InitSeqno \in Master
    <3>1. InitSeqno \in Nat /\ InitSeqno <= head
      BY <1>3, <1>t, Numbers DEF InitChunk, InitSeqno
    <3>2. QED
      BY <3>1, <1>t, Numbers DEF Master
  <2>2. {InitSeqno} \cup Tops[InitSeqno] \in SUBSET Block
    BY <2>1, Sets
  <2>3. QED
    BY <1>3, <2>1, <2>2 DEF InitChunk
<1>4. CASE InitChunkFails
  <2>1. UNCHANGED faults \/ Fault
    BY <1>4 DEF InitChunkFails
  <2>2. faults' \in 0..MaxFaults
    BY <2>1, <1>t, <1>f
  <2>3. pc' = "info" /\ UNCHANGED <<head, anchorVars, chunkVars, buildVars,
                                     lost, sendVars, received>>
    BY <1>4 DEF InitChunkFails
  <2>4. QED
    BY <2>2, <2>3
<1>5. CASE LookupNextMaster
  <2>1. Tops[masterID + 1] \in SUBSET Shard
    BY <1>5, <1>m, Sets DEF LookupNextMaster
  <2>2. queue' \in [Shard -> Nat] /\ chunkBlocks' \in [Block -> Nat]
    BY <1>5 DEF LookupNextMaster, NoBlocks
  <2>3. QED
    BY <1>5, <2>1, <2>2 DEF LookupNextMaster
<1>6. ASSUME NEW b \in Shard, ResolveKnown(b) PROVE TypeInv'
  <2>1. queue[b] \in Nat /\ queue[b] > 0
    BY <1>6 DEF ResolveKnown
  <2>2. queue' \in [Shard -> Nat]
    BY <1>6, <2>1 DEF ResolveKnown
  <2>3. QED
    BY <1>6, <2>2 DEF ResolveKnown
<1>7. ASSUME NEW b \in Shard, ResolveFetched(b) PROVE TypeInv'
  <2>1. queue' \in [Shard -> Nat]
    <3>1. \A q \in Shard :
            /\ (IF q = b THEN queue[q] - 1 ELSE queue[q]) \in Nat
            /\ (IF q \in MissingParents(b) THEN 1 ELSE 0) \in Nat
      BY <1>7 DEF ResolveFetched
    <3>2. \A q \in Shard :
            (IF q = b THEN queue[q] - 1 ELSE queue[q])
              + (IF q \in MissingParents(b) THEN 1 ELSE 0) \in Nat
      <4>1. \A m, n \in Nat : m + n \in Nat
        OBVIOUS
      <4>2. QED
        BY ONLY <3>1, <4>1
    <3>3. queue' = [q \in Shard |->
            (IF q = b THEN queue[q] - 1 ELSE queue[q])
              + (IF q \in MissingParents(b) THEN 1 ELSE 0)]
      BY <1>7 DEF ResolveFetched
    <3>4. QED
      BY ONLY <3>2, <3>3
  <2>2. chunkBlocks' = [chunkBlocks EXCEPT ![b] = @ + 1] /\ b \in Block
    BY <1>7, Sets DEF ResolveFetched
  <2>3. chunkBlocks' \in [Block -> Nat]
    BY <2>2
  <2>4. UNCHANGED <<envVars, pc, anchorVars, chunkVars, curIds, skipped, lost,
                    sendVars, received>>
    BY <1>7 DEF ResolveFetched
  <2>5. QED
    BY <2>1, <2>3, <2>4
<1>8. ASSUME NEW b \in Shard, ResolveNotInDb(b) PROVE TypeInv'
  <2>1. queue[b] \in Nat /\ queue[b] > 0 /\ Fault
    BY <1>8 DEF ResolveNotInDb
  <2>2. queue' \in [Shard -> Nat] /\ faults' \in 0..MaxFaults
    BY <1>8, <2>1, <1>f DEF ResolveNotInDb
  <2>3. skipped' = skipped \cup {b}
        /\ UNCHANGED <<head, pc, anchorVars, chunkVars, curIds, chunkBlocks,
                       lost, sendVars, received>>
    BY <1>8 DEF ResolveNotInDb
  <2>4. QED
    BY <2>2, <2>3
<1>9. CASE ResolveFails
  <2>1. Fault /\ pc' = "lookup"
        /\ UNCHANGED <<head, anchorVars, chunkVars, buildVars, lost, sendVars,
                       received>>
    BY <1>9 DEF ResolveFails
  <2>2. QED
    BY <2>1, <1>f
<1>10. CASE ChunkComplete
  <2>1. masterID + 1 \in Block
    BY <1>10, <1>m, Sets DEF ChunkComplete
  <2>2. chunkBlocks' \in [Block -> Nat]
    BY <1>10, <2>1 DEF ChunkComplete
  <2>3. pc = "resolve" /\ pc' = "pick" /\ lost' = lost \cup skipped
        /\ UNCHANGED <<envVars, anchorVars, chunkVars, curIds, queue, skipped,
                       sendVars, received>>
    BY <1>10 DEF ChunkComplete
  <2>4. QED
    BY <2>2, <2>3
<1>11. ASSUME NEW b \in Block, PickBlock(b) PROVE TypeInv'
  <2>1. chunkBlocks[b] > 0 /\ chunkBlocks' = [chunkBlocks EXCEPT ![b] = @ - 1]
    BY <1>11 DEF PickBlock
  <2>2. chunkBlocks' \in [Block -> Nat]
    BY <2>1
  <2>3. 1 \in Channel
    BY Numbers DEF Channel
  <2>4. pc = "pick" /\ pc' = "send" /\ cur' = b /\ ch' = 1
        /\ UNCHANGED <<envVars, anchorVars, chunkVars, curIds, queue, skipped,
                       lost, received>>
    BY <1>11 DEF PickBlock
  <2>5. QED
    BY <2>2, <2>3, <2>4
<1>12. CASE NextChunk
  <2>1. masterID + 1 \in Master
    BY <1>12, <1>m DEF NextChunk
  <2>2. curIds \in SUBSET Block
    BY Sets
  <2>3. QED
    BY <1>12, <2>1, <2>2 DEF NextChunk
<1>13. CASE Send
  <2>1. received' = [received EXCEPT ![ch] = Append(@, cur)]
    BY <1>13 DEF Send
  <2>2. received' \in [Channel -> Seq(Block)]
    BY <2>1
  <2>3. ch' = ch \/ (ch # NumChannels /\ ch' = ch + 1)
    BY <1>13 DEF Send
  <2>4. ch' \in Channel
    BY ONLY <2>3, Numbers, ch \in Channel DEF Channel
  <2>5. pc = "send" /\ pc' \in {"pick", "send"}
        /\ UNCHANGED <<envVars, anchorVars, chunkVars, buildVars, lost, cur>>
    BY <1>13 DEF Send
  <2>6. QED
    BY <2>2, <2>4, <2>5
<1>14. CASE UNCHANGED vars
  BY <1>14 DEF vars
<1>15. QED
  BY <1>1, <1>2, <1>3, <1>4, <1>5, <1>6, <1>7, <1>8, <1>9, <1>10, <1>11,
     <1>12, <1>13, <1>14
  DEF Next, Internal, Resolve

\* The indexer never leaves the chain, whatever fails and however it wraps around.
THEOREM TypeCorrect == Spec => []TypeOK
<1>1. TypeInv => TypeOK
  BY DEF TypeInv
<1>2. QED
  BY InitTypeInv, NextTypeInv, <1>1, PTL DEF Spec

-----------------------------------------------------------------------------
(* The stream. *)

Stream == received[NumChannels]
Sent == {Stream[i] : i \in DOMAIN Stream}

\* Everybody has the stream, and some the block at hand as well.
SameInv ==
    \A c \in Channel :
        received[c] = IF pc = "send" /\ c < ch THEN Append(Stream, cur) ELSE Stream

\* What the properties say of a block and those before it.
Fits(b, before) ==
    /\ b \notin before
    /\ b \in Shard => Parents[b] \subseteq before \cup lost \cup Base
    /\ b \in Master => Tops[b] \subseteq before \cup lost \cup Base
    /\ Commit(b) > anchor
    /\ Commit(b) - 1 > anchor => Commit(b) - 1 \in before
    /\ \A x \in before : Commit(x) <= Commit(b)
    /\ \A k \in before : k \in Master => k < Commit(b)

StreamInv ==
    /\ \A i \in DOMAIN Stream : Fits(Stream[i], {Stream[j] : j \in 1..(i - 1)})
    /\ pc = "send" => Fits(cur, Sent)

\* Taken out of their chunks: sent to all or being sent.
Out == Sent \cup (IF pc = "send" THEN {cur} ELSE {})
Settled == Out \cup lost \cup Base

Anchored == pc \notin {"info", "initChunk"}

\* The chunks that are complete.
ChunkInv ==
    /\ ~Anchored => Sent = {}
    /\ Anchored =>
          /\ anchor <= masterID
          /\ ids \cap Shard = Tops[masterID]
          /\ Tops[masterID] \subseteq Settled
          /\ \A m \in Master : anchor < m /\ m <= masterID => m \in Out
          /\ \A x \in Out : Commit(x) > anchor
    /\ Building => curIds = Tops[masterID + 1]

\* The chunk that grows: each block is of this chunk and there once; of a block
\* that was fetched the parents are known, waiting, fetched or not there, and
\* only a fetched block leads to one that is not a top.
ResolveInv ==
    pc = "resolve" =>
        /\ \A b \in Master : chunkBlocks[b] = 0
        /\ \A b \in Shard :
              /\ queue[b] + chunkBlocks[b] <= 1
              /\ queue[b] > 0 => b \in ids \/ CommittedAt[b] = masterID + 1
              /\ chunkBlocks[b] > 0 => CommittedAt[b] = masterID + 1
              /\ chunkBlocks[b] > 0 => \A p \in Parents[b] :
                    p \in ids \/ queue[p] > 0 \/ chunkBlocks[p] > 0 \/ p \in skipped
              /\ queue[b] + chunkBlocks[b] > 0 /\ b \notin curIds =>
                    \E c \in Shard : b \in Parents[c] /\ chunkBlocks[c] > 0
        /\ \A b \in curIds :
              b \in ids \/ queue[b] > 0 \/ chunkBlocks[b] > 0 \/ b \in skipped
        /\ \A x \in Out : Commit(x) <= masterID

\* The chunk that is sent: what a block has to come after is sent or still there,
\* and the masterchain block is the last to go.
PickInv ==
    pc \in {"pick", "send"} =>
        /\ \A b \in Block :
              /\ chunkBlocks[b] <= 1
              /\ chunkBlocks[b] > 0 => Commit(b) = masterID + 1
        /\ \A b \in Shard : chunkBlocks[b] > 0 =>
              \A p \in Parents[b] : chunkBlocks[p] > 0 \/ p \in Settled
        /\ \A b \in curIds : chunkBlocks[b] > 0 \/ b \in Settled
        /\ \A x \in Out :
              Commit(x) <= masterID \/ (Commit(x) = masterID + 1 /\ chunkBlocks[x] = 0)
        /\ \/ chunkBlocks[masterID + 1] > 0
           \/ masterID + 1 \in Out /\ \A b \in Shard : chunkBlocks[b] = 0

LookupInv == pc = "lookup" => \A x \in Out : Commit(x) <= masterID

OrderInv ==
    /\ TypeInv /\ SameInv /\ StreamInv
    /\ ChunkInv /\ LookupInv /\ ResolveInv /\ PickInv

-----------------------------------------------------------------------------
(* The chain. *)

\* Blocks of a chain are committed by one of its masterchain blocks.
LEMMA CommitType ==
    ASSUME NEW b \in Block
    PROVE  /\ Commit(b) \in Master
           /\ b \in Master => Commit(b) = b
           /\ b \in Shard => Commit(b) = CommittedAt[b]
BY ChainAssumption DEF Commit, Block

\* A top was committed by the block that registers it, or was a top before.
LEMMA TopFacts ==
    ASSUME NEW m \in Master, NEW t \in Tops[m]
    PROVE  /\ t \in Shard
           /\ CommittedAt[t] \in Nat /\ CommittedAt[t] <= m
           /\ CommittedAt[t] < m => t \in Tops[m - 1]
           /\ StartLt[t] < StartLt[CommittedAt[t]]
BY ChainAssumption DEF Master

LEMMA ParentFacts ==
    ASSUME NEW b \in Shard, NEW p \in Parents[b]
    PROVE  /\ p \in Shard
           /\ StartLt[p] \in Nat /\ StartLt[b] \in Nat /\ StartLt[p] < StartLt[b]
           /\ CommittedAt[p] \in Nat /\ CommittedAt[b] \in Nat
           /\ CommittedAt[p] <= CommittedAt[b]
           /\ CommittedAt[p] < CommittedAt[b] => p \in Tops[CommittedAt[b] - 1]
           /\ CommittedAt[p] = CommittedAt[b] => \A c \in Shard : p \in Parents[c] => c = b
BY ChainAssumption DEF Master, Block

LEMMA LtFacts ==
    /\ \A b \in Block : StartLt[b] \in Nat
    /\ \A b \in Shard : StartLt[b] < StartLt[CommittedAt[b]]
BY ChainAssumption

\* Where f is a number it has a least value.
LEMMA Least ==
    ASSUME NEW S, S # {}, NEW f, \A x \in S : f[x] \in Nat
    PROVE  \E x \in S : \A y \in S : f[x] <= f[y]
<1> DEFINE R == OpToRel(<, Nat)
           T == {f[x] : x \in S}
<1>1. T \subseteq Nat /\ T # {}
    OBVIOUS
<1>2. \A i, j \in Nat : <<i, j>> \in R <=> i < j
    BY DEF OpToRel
<1>3. \E i \in T : \A j \in T : <<j, i>> \notin R
    <2>1. IsWellFoundedOn(R, Nat)
        BY NatLessThanWellFounded
    <2> HIDE DEF R, T
    <2> QED
        BY <1>1, <2>1, WFMin
<1>4. PICK x \in S : \A y \in S : ~(f[y] < f[x])
    BY <1>1, <1>2, <1>3
<1> QED
    BY <1>4

\* Of some shard blocks one is the youngest.
LEMMA Youngest ==
    ASSUME NEW S \in SUBSET Shard, S # {}, NEW n \in Nat, \A b \in S : StartLt[b] < n
    PROVE  \E b \in S : \A d \in S : StartLt[d] <= StartLt[b]
<1> DEFINE f == [b \in S |-> n - StartLt[b]]
<1>1. \A b \in S : StartLt[b] \in Nat /\ f[b] \in Nat
    BY LtFacts, Sets
<1>2. PICK b \in S : \A d \in S : f[b] <= f[d]
    <2> HIDE DEF f
    <2> QED
        BY <1>1, Least
<1>3. ASSUME NEW d \in S PROVE StartLt[d] <= StartLt[b]
    <2>1. n - StartLt[b] <= n - StartLt[d]
        BY <1>2
    <2>2. StartLt[b] \in Nat /\ StartLt[d] \in Nat
        BY <1>1
    <2> QED
        BY <2>1, <2>2
<1> QED
    BY <1>3

\* A set that has the tops of m and, with a block, its parents, as far as m
\* committed them, has all blocks m committed: of the others none is youngest, since
\* it would be a top, or a parent of one that is not missing.
LEMMA ClosedIsWhole ==
    ASSUME NEW m \in Master, NEW S,
           \A t \in Tops[m] : CommittedAt[t] = m => t \in S,
           \A c \in Shard : \A p \in Parents[c] :
              c \in S /\ CommittedAt[c] = m /\ CommittedAt[p] = m => p \in S
    PROVE  \A b \in Shard : CommittedAt[b] = m => b \in S
<1> DEFINE Missing == {b \in Shard : CommittedAt[b] = m /\ b \notin S}
<1>1. SUFFICES ASSUME Missing # {} PROVE FALSE
    OBVIOUS
<1>2. StartLt[m] \in Nat /\ \A b \in Missing : StartLt[b] < StartLt[m]
    BY LtFacts, Sets
<1>3. PICK b \in Missing : \A d \in Missing : StartLt[d] <= StartLt[b]
    <2>1. Missing \in SUBSET Shard
        OBVIOUS
    <2> HIDE DEF Missing
    <2> QED
        BY <1>1, <1>2, <2>1, Youngest
<1>4. PICK d \in Shard : b \in Parents[d] /\ CommittedAt[d] = m
    BY <1>3, ChainAssumption
<1>5. d \in Missing
    BY <1>3, <1>4
<1>6. ~(StartLt[b] < StartLt[d])
    <2>1. StartLt[b] \in Nat /\ StartLt[d] \in Nat
        BY LtFacts, Sets
    <2> QED
        BY <1>3, <1>5, <2>1
<1> QED
    BY <1>4, <1>6, ParentFacts

LEMMA LastChannel == NumChannels \in Channel /\ 1 \in Channel
BY Numbers DEF Channel

\* What the types say of the stream.
LEMMA StreamType ==
    ASSUME TypeInv
    PROVE  /\ Stream \in Seq(Block) /\ Sent \subseteq Block /\ Out \subseteq Block
           /\ cur \in Block /\ ch \in Channel
           /\ masterID \in Master /\ anchor \in Master
<1>1. Stream \in Seq(Block)
    BY LastChannel DEF TypeInv, TypeOK, Stream
<1>2. Sent \subseteq Block
    BY <1>1 DEF Sent
<1> QED
    BY <1>1, <1>2 DEF TypeInv, TypeOK, Out

-----------------------------------------------------------------------------
(* Steps that send nothing. *)

\* With more of lost, what fits still fits.
LEMMA FitsStays ==
    ASSUME NEW b, NEW before, Fits(b, before), lost \subseteq lost', anchor' = anchor
    PROVE  Fits(b, before)'
BY DEF Fits, Base, Commit

LEMMA QuietStep ==
    ASSUME OrderInv, received' = received, pc # "send", pc' # "send",
           lost \subseteq lost', anchor' = anchor
    PROVE  /\ Stream' = Stream /\ Sent' = Sent /\ Out = Sent /\ Out' = Sent
           /\ Base' = Base /\ Settled \subseteq Settled'
           /\ SameInv' /\ StreamInv'
<1>1. Stream' = Stream /\ Sent' = Sent
    BY DEF Stream, Sent
<1>2. Out = Sent /\ Out' = Sent
    BY <1>1 DEF Out
<1>3. Base' = Base
    BY DEF Base
<1>4. Settled \subseteq Settled'
    BY <1>2, <1>3 DEF Settled
<1>5. SameInv'
    BY <1>1 DEF OrderInv, SameInv
<1>6. StreamInv'
    <2>1. ASSUME NEW i \in DOMAIN Stream
          PROVE  Fits(Stream[i], {Stream[j] : j \in 1..(i - 1)})'
        <3>1. Fits(Stream[i], {Stream[j] : j \in 1..(i - 1)})
            BY DEF OrderInv, StreamInv
        <3>2. /\ Stream'[i] = Stream[i]
              /\ {Stream'[j] : j \in 1..(i - 1)} = {Stream[j] : j \in 1..(i - 1)}
            BY <1>1
        <3> QED
            BY <3>1, <3>2 DEF Fits, Base, Commit
    <2> QED
        BY <1>1, <2>1 DEF StreamInv
<1> QED
    BY <1>1, <1>2, <1>3, <1>4, <1>5, <1>6

\* Nothing but the node and the bounds changes.
LEMMA IdleStep ==
    ASSUME OrderInv, TypeInv',
           UNCHANGED <<pc, anchorVars, chunkVars, buildVars, lost, sendVars, received>>
    PROVE  OrderInv'
<1> USE DEF anchorVars, chunkVars, buildVars, sendVars
<1>1. Stream' = Stream /\ Sent' = Sent /\ Out' = Out /\ Base' = Base /\ Settled' = Settled
    BY DEF Stream, Sent, Out, Base, Settled
<1>2. SameInv'
    BY <1>1 DEF OrderInv, SameInv
<1>3. StreamInv'
    BY <1>1 DEF OrderInv, StreamInv, Fits, Commit
<1>4. ChunkInv'
    BY <1>1 DEF OrderInv, ChunkInv, Anchored, Building, Commit
<1>5. LookupInv'
    BY <1>1 DEF OrderInv, LookupInv, Commit
<1>6. ResolveInv'
    BY <1>1 DEF OrderInv, ResolveInv, Commit
<1>7. PickInv'
    BY <1>1 DEF OrderInv, PickInv, Commit
<1> QED
    BY <1>2, <1>3, <1>4, <1>5, <1>6, <1>7 DEF OrderInv

\* Before the first chunk there is neither anything sent nor anything to send.
LEMMA AnchorStep ==
    ASSUME OrderInv, TypeInv', pc \in {"info", "initChunk"}, pc' \in {"info", "initChunk"},
           UNCHANGED <<anchor, chunkVars, buildVars, lost, sendVars, received>>
    PROVE  OrderInv'
<1>1. Sent' = Sent /\ SameInv' /\ StreamInv'
    BY QuietStep
<1>2. ChunkInv' /\ LookupInv' /\ ResolveInv' /\ PickInv'
    BY <1>1 DEF OrderInv, ChunkInv, LookupInv, ResolveInv, PickInv, Anchored, Building
<1> QED
    BY <1>1, <1>2 DEF OrderInv

LEMMA InitChunkStep == ASSUME OrderInv, TypeInv', InitChunk PROVE OrderInv'
<1>1. /\ pc = "initChunk" /\ pc' = "lookup"
      /\ anchor' = InitSeqno /\ masterID' = InitSeqno
      /\ ids' = {InitSeqno} \cup Tops[InitSeqno]
      /\ received' = received
    BY DEF InitChunk
<1>2. InitSeqno \in Master
    BY <1>1 DEF TypeInv, TypeOK
<1>3. Stream' = Stream /\ Sent' = Sent /\ Sent = {} /\ Out' = {}
    BY <1>1 DEF Stream, Sent, Out, OrderInv, ChunkInv, Anchored
<1>4. SameInv'
    BY <1>1, <1>3 DEF OrderInv, SameInv
<1>5. StreamInv'
    BY <1>1, <1>3 DEF StreamInv, Sent
<1>6. ids' \cap Shard = Tops[masterID']
    BY <1>1, <1>2, ChainAssumption
<1>7. Tops[masterID'] \subseteq Base'
    BY <1>1, <1>2, TopFacts DEF Base
<1>8. ChunkInv'
    <2>1. \A m \in Master : ~(anchor' < m /\ m <= masterID')
        BY <1>1, <1>2, Numbers DEF Master
    <2>2. anchor' <= masterID'
        BY <1>1, <1>2, Numbers DEF Master
    <2> QED
        BY <1>1, <1>3, <1>6, <1>7, <2>1, <2>2 DEF ChunkInv, Building, Settled
<1>9. LookupInv' /\ ResolveInv' /\ PickInv'
    BY <1>1, <1>3 DEF LookupInv, ResolveInv, PickInv
<1> QED
    BY <1>4, <1>5, <1>8, <1>9 DEF OrderInv

-----------------------------------------------------------------------------
(* The chunk under construction. *)

\* Its masterchain block.
LEMMA NextMaster ==
    ASSUME TypeInv, Building
    PROVE  /\ masterID \in Nat
           /\ masterID + 1 \in Master /\ masterID + 1 \in Block /\ masterID + 1 \notin Shard
<1>1. masterID + 1 \in Master /\ masterID \in Nat
    BY Numbers DEF TypeInv, TypeOK, Master
<1> QED
    BY <1>1, Sets, ChainAssumption

\* The complete chunks stay as they are while nothing is sent.
LEMMA ChunkStays ==
    ASSUME OrderInv, received' = received, pc # "send", pc' # "send", lost \subseteq lost',
           Anchored, Anchored', UNCHANGED <<anchor, masterID, ids>>,
           Building' => curIds' = Tops[masterID + 1]
    PROVE  ChunkInv'
<1>1. /\ Out = Sent /\ Out' = Sent /\ Settled \subseteq Settled'
    BY QuietStep
<1> QED
    BY <1>1 DEF OrderInv, ChunkInv, Commit

LEMMA LookupStep == ASSUME OrderInv, TypeInv', LookupNextMaster PROVE OrderInv'
<1>1. /\ pc = "lookup" /\ pc' = "resolve"
      /\ masterID + 1 <= head
      /\ curIds' = Tops[masterID + 1]
      /\ queue' = [b \in Shard |-> IF b \in Tops[masterID + 1] THEN 1 ELSE 0]
      /\ chunkBlocks' = NoBlocks
      /\ UNCHANGED <<anchor, masterID, ids, lost, received>>
    BY DEF LookupNextMaster, anchorVars, chunkVars
<1>2. Out = Sent /\ Out' = Sent /\ SameInv' /\ StreamInv'
    BY <1>1, QuietStep
<1>3. ChunkInv'
    BY <1>1, ChunkStays DEF Anchored, Building
<1>4. masterID + 1 \in Master /\ masterID \in Master
    BY <1>1, Numbers DEF OrderInv, TypeInv, TypeOK, Master
<1>5. ResolveInv'
    <2>1. \A b \in Block : chunkBlocks'[b] = 0
        BY <1>1 DEF NoBlocks
    <2>2. \A b \in Master : chunkBlocks'[b] = 0
        BY <2>1, Sets
    <2>3. ASSUME NEW b \in Shard
          PROVE  /\ chunkBlocks'[b] = 0
                 /\ queue'[b] = IF b \in Tops[masterID + 1] THEN 1 ELSE 0
        BY <1>1, <2>1, Sets
    <2>4. ASSUME NEW b \in Tops[masterID + 1]
          PROVE  b \in Shard /\ (b \in ids \/ CommittedAt[b] = masterID + 1)
        <3>1. ids \cap Shard = Tops[masterID]
            BY <1>1 DEF OrderInv, ChunkInv, Anchored
        <3>2. masterID \in Nat
            BY <1>4 DEF Master
        <3>3. /\ b \in Shard /\ CommittedAt[b] \in Nat /\ CommittedAt[b] <= masterID + 1
              /\ CommittedAt[b] < masterID + 1 => b \in Tops[(masterID + 1) - 1]
            BY <1>4, TopFacts
        <3>4. (masterID + 1) - 1 = masterID
            BY <3>2
        <3> QED
            BY <3>1, <3>2, <3>3, <3>4
    <2>5. \A x \in Out' : Commit(x)' <= masterID'
        BY <1>1, <1>2 DEF OrderInv, LookupInv, Commit
    <2> QED
        BY <1>1, <2>2, <2>3, <2>4, <2>5 DEF ResolveInv
<1>6. LookupInv' /\ PickInv'
    BY <1>1 DEF LookupInv, PickInv
<1> QED
    BY <1>2, <1>3, <1>5, <1>6 DEF OrderInv

LEMMA KnownStep ==
    ASSUME OrderInv, TypeInv', NEW b \in Shard, ResolveKnown(b) PROVE OrderInv'
<1>1. /\ pc = "resolve" /\ pc' = "resolve" /\ b \in ids
      /\ queue' = [queue EXCEPT ![b] = @ - 1] /\ queue[b] > 0
      /\ UNCHANGED <<anchor, masterID, ids, curIds, chunkBlocks, skipped, lost, received>>
    BY DEF ResolveKnown, anchorVars, chunkVars
<1>2. Out = Sent /\ Out' = Sent /\ SameInv' /\ StreamInv'
    BY <1>1, QuietStep
<1>3. ChunkInv'
    BY <1>1, ChunkStays DEF OrderInv, ChunkInv, Anchored, Building
<1>4. ResolveInv'
    <2>1. queue \in [Shard -> Nat] /\ \A q \in Shard : chunkBlocks[q] \in Nat
        BY Sets DEF OrderInv, TypeInv, TypeOK
    <2>2. \A q \in Shard :
            /\ queue'[q] <= queue[q] /\ queue'[q] \in Nat
            /\ q # b => queue'[q] = queue[q]
        BY <1>1, <2>1
    <2>3. ResolveInv
        BY DEF OrderInv
    <2>4. curIds \subseteq Shard
        BY DEF OrderInv, TypeInv, TypeOK
    <2>5. \A q \in Shard : Parents[q] \subseteq Shard
        BY ParentFacts
    <2> QED
        BY <1>1, <1>2, <2>1, <2>2, <2>3, <2>4, <2>5 DEF ResolveInv, Commit
<1>5. LookupInv' /\ PickInv'
    BY <1>1 DEF LookupInv, PickInv
<1> QED
    BY <1>2, <1>3, <1>4, <1>5 DEF OrderInv

LEMMA NotInDbStep ==
    ASSUME OrderInv, TypeInv', NEW b \in Shard, ResolveNotInDb(b) PROVE OrderInv'
<1>1. /\ pc = "resolve" /\ pc' = "resolve"
      /\ queue' = [queue EXCEPT ![b] = @ - 1] /\ queue[b] > 0
      /\ skipped' = skipped \cup {b}
      /\ UNCHANGED <<anchor, masterID, ids, curIds, chunkBlocks, lost, received>>
    BY DEF ResolveNotInDb, anchorVars, chunkVars
<1>2. Out = Sent /\ Out' = Sent /\ SameInv' /\ StreamInv'
    BY <1>1, QuietStep
<1>3. ChunkInv'
    BY <1>1, ChunkStays DEF OrderInv, ChunkInv, Anchored, Building
<1>4. ResolveInv'
    <2>1. queue \in [Shard -> Nat] /\ \A q \in Shard : chunkBlocks[q] \in Nat
        BY Sets DEF OrderInv, TypeInv, TypeOK
    <2>2. \A q \in Shard :
            /\ queue'[q] <= queue[q] /\ queue'[q] \in Nat
            /\ q # b => queue'[q] = queue[q]
        BY <1>1, <2>1
    <2>3. ResolveInv
        BY DEF OrderInv
    <2>4. curIds \subseteq Shard
        BY DEF OrderInv, TypeInv, TypeOK
    <2>5. \A q \in Shard : Parents[q] \subseteq Shard
        BY ParentFacts
    <2> QED
        BY <1>1, <1>2, <2>1, <2>2, <2>3, <2>4, <2>5 DEF ResolveInv, Commit
<1>5. LookupInv' /\ PickInv'
    BY <1>1 DEF LookupInv, PickInv
<1> QED
    BY <1>2, <1>3, <1>4, <1>5 DEF OrderInv

\* A parent still missing is of this chunk and has not been asked for: in a chunk
\* a block is the parent of one block only.
LEMMA MissingIsNew ==
    ASSUME OrderInv, pc = "resolve", NEW b \in Shard, queue[b] > 0, b \notin ids,
           NEW p \in MissingParents(b)
    PROVE  /\ p \in Shard /\ p # b /\ p \notin ids /\ p \notin curIds
           /\ CommittedAt[p] = masterID + 1
           /\ queue[p] = 0 /\ chunkBlocks[p] = 0
<1>1. p \in Parents[b] /\ p \notin ids /\ p \notin curIds
    BY DEF MissingParents
<1>2. /\ queue[b] \in Nat /\ chunkBlocks[b] \in Nat
      /\ queue[p] \in Nat /\ chunkBlocks[p] \in Nat /\ masterID \in Nat
    BY <1>1, ParentFacts, Sets DEF OrderInv, TypeInv, TypeOK, Master
<1>3. CommittedAt[b] = masterID + 1 /\ chunkBlocks[b] = 0
    BY <1>2 DEF OrderInv, ResolveInv
<1>4. p \in Shard /\ p # b
    BY <1>1, ParentFacts
<1>5. CommittedAt[p] = masterID + 1
    <2>1. ids \cap Shard = Tops[masterID]
        BY DEF OrderInv, ChunkInv, Anchored
    <2>2. (masterID + 1) - 1 = masterID
        BY <1>2
    <2>3. /\ CommittedAt[p] \in Nat /\ CommittedAt[p] <= masterID + 1
          /\ CommittedAt[p] < masterID + 1 => p \in Tops[(masterID + 1) - 1]
        BY <1>1, <1>3, ParentFacts
    <2> QED
        BY <1>1, <1>2, <1>4, <2>1, <2>2, <2>3
<1>6. ~\E c \in Shard : p \in Parents[c] /\ chunkBlocks[c] > 0
    BY <1>1, <1>3, <1>5, ParentFacts
<1>7. ~(queue[p] + chunkBlocks[p] > 0)
    BY <1>1, <1>4, <1>6 DEF OrderInv, ResolveInv
<1> QED
    BY <1>1, <1>2, <1>4, <1>5, <1>7

LEMMA FetchedStep ==
    ASSUME OrderInv, TypeInv', NEW b \in Shard, ResolveFetched(b) PROVE OrderInv'
<1>1. /\ pc = "resolve" /\ pc' = "resolve" /\ queue[b] > 0 /\ b \notin ids
      /\ queue' = [q \in Shard |->
            (IF q = b THEN queue[q] - 1 ELSE queue[q])
              + (IF q \in MissingParents(b) THEN 1 ELSE 0)]
      /\ chunkBlocks' = [chunkBlocks EXCEPT ![b] = @ + 1]
      /\ UNCHANGED <<anchor, masterID, ids, curIds, skipped, lost, received>>
    BY DEF ResolveFetched, anchorVars, chunkVars
<1>2. Out = Sent /\ Out' = Sent /\ SameInv' /\ StreamInv'
    BY <1>1, QuietStep
<1>3. ChunkInv'
    BY <1>1, ChunkStays DEF OrderInv, ChunkInv, Anchored, Building
<1>4. ResolveInv'
    <2> DEFINE Missing == MissingParents(b)
    <2>1. /\ queue \in [Shard -> Nat] /\ chunkBlocks \in [Block -> Nat]
          /\ \A q \in Shard : chunkBlocks[q] \in Nat /\ queue[q] \in Nat
          /\ curIds \subseteq Shard
        BY Sets DEF OrderInv, TypeInv, TypeOK
    <2>2. ResolveInv
        BY DEF OrderInv
    <2>3. queue[b] = 1 /\ chunkBlocks[b] = 0 /\ CommittedAt[b] = masterID + 1
        BY <1>1, <2>1, <2>2 DEF ResolveInv
    <2>4. \A p \in Missing :
            /\ p \in Shard /\ p # b /\ p \notin ids /\ p \notin curIds
            /\ CommittedAt[p] = masterID + 1 /\ queue[p] = 0 /\ chunkBlocks[p] = 0
        BY <1>1, MissingIsNew
    <2>5. \A p \in Parents[b] : p \in Missing \/ p \in ids \/ p \in curIds
        BY DEF MissingParents
    <2>6. \A p \in Missing : p \in Parents[b]
        BY DEF MissingParents
    <2>7. b \in Block /\ Shard \subseteq Block /\ Master \subseteq Block /\ b \notin Master
        BY Sets, ChainAssumption
    <2>8. queue'[b] = 0 /\ chunkBlocks'[b] = 1
        <3>1. b \notin Missing
            BY <2>4
        <3> QED
            BY <1>1, <2>1, <2>3, <2>7, <3>1
    <2>9. \A q \in Missing : queue'[q] = 1 /\ chunkBlocks'[q] = 0
        BY <1>1, <2>1, <2>4, <2>7
    <2>10. \A q \in Shard : q # b /\ q \notin Missing =>
              queue'[q] = queue[q] /\ chunkBlocks'[q] = chunkBlocks[q]
        BY <1>1, <2>1, <2>7
    <2>11. \A m \in Master : chunkBlocks'[m] = chunkBlocks[m]
        BY <1>1, <2>1, <2>7
    <2> HIDE DEF Missing
    \* What was waiting or fetched is so still, b having changed sides.
    <2>12. \A q \in Shard : queue[q] > 0 \/ chunkBlocks[q] > 0 =>
              queue'[q] > 0 \/ chunkBlocks'[q] > 0
        BY <2>3, <2>4, <2>8, <2>9, <2>10
    <2>13. \A q \in Shard : chunkBlocks[q] > 0 => chunkBlocks'[q] > 0
        BY <2>3, <2>4, <2>8, <2>9, <2>10
    <2>14. \A m \in Master : chunkBlocks'[m] = 0
        BY <1>1, <2>2, <2>11 DEF ResolveInv
    <2>15. \A t \in curIds :
              t \in ids \/ queue'[t] > 0 \/ chunkBlocks'[t] > 0 \/ t \in skipped
        BY <1>1, <2>1, <2>2, <2>12 DEF ResolveInv
    <2>16. ASSUME NEW q \in Shard
           PROVE  /\ queue'[q] + chunkBlocks'[q] <= 1
                  /\ queue'[q] > 0 => q \in ids \/ CommittedAt[q] = masterID + 1
                  /\ chunkBlocks'[q] > 0 => CommittedAt[q] = masterID + 1
                  /\ queue'[q] + chunkBlocks'[q] > 0 /\ q \notin curIds =>
                        \E c \in Shard : q \in Parents[c] /\ chunkBlocks'[c] > 0
        <3>1. CASE q = b
            <4>1. queue[q] + chunkBlocks[q] > 0
                BY <2>3, <3>1
            <4>2. q \notin curIds => \E c \in Shard : q \in Parents[c] /\ chunkBlocks[c] > 0
                BY <1>1, <2>2, <4>1 DEF ResolveInv
            <4> QED
                BY <2>3, <2>8, <2>13, <3>1, <4>2
        <3>2. CASE q \in Missing
            BY <2>4, <2>6, <2>8, <2>9, <3>2
        <3>3. CASE q # b /\ q \notin Missing
            BY <1>1, <2>2, <2>10, <2>13, <3>3 DEF ResolveInv
        <3> QED
            BY <3>1, <3>2, <3>3
    <2>17. ASSUME NEW q \in Shard, chunkBlocks'[q] > 0, NEW p \in Parents[q]
           PROVE  p \in ids \/ queue'[p] > 0 \/ chunkBlocks'[p] > 0 \/ p \in skipped
        <3>1. p \in Shard
            BY ParentFacts
        <3>2. CASE q = b
            BY <2>5, <2>9, <2>15, <3>2
        <3>3. CASE q # b
            <4>1. chunkBlocks[q] > 0
                BY <2>9, <2>10, <2>17, <3>3
            <4> QED
                BY <1>1, <2>2, <2>12, <3>1, <4>1 DEF ResolveInv
        <3> QED
            BY <3>2, <3>3
    <2>18. \A x \in Out' : Commit(x)' <= masterID'
        BY <1>1, <1>2, <2>2 DEF ResolveInv, Commit
    <2> QED
        BY <1>1, <2>14, <2>15, <2>16, <2>17, <2>18 DEF ResolveInv
<1>5. LookupInv' /\ PickInv'
    BY <1>1 DEF LookupInv, PickInv
<1> QED
    BY <1>2, <1>3, <1>4, <1>5 DEF OrderInv

\* A chunk with an error is forgotten: nothing of it was sent.
LEMMA FailsStep == ASSUME OrderInv, TypeInv', ResolveFails PROVE OrderInv'
<1>1. /\ pc = "resolve" /\ pc' = "lookup"
      /\ UNCHANGED <<anchor, masterID, ids, lost, received>>
    BY DEF ResolveFails, anchorVars, chunkVars
<1>2. Out = Sent /\ Out' = Sent /\ SameInv' /\ StreamInv'
    BY <1>1, QuietStep
<1>3. ChunkInv'
    BY <1>1, ChunkStays DEF Anchored, Building
<1>4. LookupInv'
    BY <1>1, <1>2 DEF OrderInv, ResolveInv, LookupInv, Commit
<1>5. ResolveInv' /\ PickInv'
    BY <1>1 DEF ResolveInv, PickInv
<1> QED
    BY <1>2, <1>3, <1>4, <1>5 DEF OrderInv

LEMMA CompleteStep == ASSUME OrderInv, TypeInv', ChunkComplete PROVE OrderInv'
<1>1. /\ pc = "resolve" /\ pc' = "pick"
      /\ queue = Empty
      /\ chunkBlocks' = [chunkBlocks EXCEPT ![masterID + 1] = @ + 1]
      /\ lost' = lost \cup skipped
      /\ UNCHANGED <<anchor, masterID, ids, curIds, received>>
    BY DEF ChunkComplete, anchorVars, chunkVars
<1>2. /\ Out = Sent /\ Out' = Sent /\ SameInv' /\ StreamInv' /\ Settled \subseteq Settled'
    BY <1>1, QuietStep
<1>3. ChunkInv'
    BY <1>1, ChunkStays DEF OrderInv, ChunkInv, Anchored, Building
<1>4. PickInv'
    <2>1. /\ chunkBlocks \in [Block -> Nat] /\ masterID \in Nat
          /\ curIds \subseteq Shard
        BY Numbers DEF OrderInv, TypeInv, TypeOK, Master
    <2>2. masterID + 1 \in Master /\ masterID + 1 \in Block /\ masterID + 1 \notin Shard
        BY <1>1, NextMaster DEF OrderInv, Building
    <2>3. /\ chunkBlocks'[masterID + 1] = 1
          /\ \A m \in Master : m # masterID + 1 => chunkBlocks'[m] = 0
          /\ \A b \in Shard : chunkBlocks'[b] = chunkBlocks[b] /\ chunkBlocks[b] \in Nat
        BY <1>1, <2>1, <2>2, Sets DEF OrderInv, ResolveInv
    <2>4. \A b \in Shard : queue[b] = 0
        BY <1>1 DEF Empty
    <2>5. ResolveInv
        BY DEF OrderInv
    <2>6. \A b \in Shard : chunkBlocks'[b] <= 1 /\
              (chunkBlocks'[b] > 0 => CommittedAt[b] = masterID + 1)
        BY <1>1, <2>3, <2>4, <2>5 DEF ResolveInv
    <2>7. \A b \in Shard : b \in ids => b \in Settled'
        BY <1>1, <1>2 DEF OrderInv, ChunkInv, Anchored
    <2>8. skipped \subseteq Settled'
        BY <1>1 DEF Settled
    <2>9. ASSUME NEW b \in Shard, chunkBlocks'[b] > 0, NEW p \in Parents[b]
          PROVE  chunkBlocks'[p] > 0 \/ p \in Settled'
        <3>1. p \in Shard
            BY ParentFacts
        <3>2. p \in ids \/ chunkBlocks[p] > 0 \/ p \in skipped
            BY <1>1, <2>3, <2>4, <2>5, <2>9, <3>1 DEF ResolveInv
        <3> QED
            BY <2>3, <2>7, <2>8, <3>1, <3>2
    <2>10. ASSUME NEW t \in curIds
           PROVE  chunkBlocks'[t] > 0 \/ t \in Settled'
        <3>1. t \in Shard
            BY <2>1
        <3>2. t \in ids \/ chunkBlocks[t] > 0 \/ t \in skipped
            BY <1>1, <2>4, <2>5, <3>1 DEF ResolveInv
        <3> QED
            BY <2>3, <2>7, <2>8, <3>1, <3>2
    <2>11. \A b \in Block : /\ chunkBlocks'[b] <= 1
                            /\ chunkBlocks'[b] > 0 => Commit(b)' = masterID + 1
        <3> SUFFICES ASSUME NEW b \in Block
                     PROVE  /\ chunkBlocks'[b] <= 1
                            /\ chunkBlocks'[b] > 0 => Commit(b) = masterID + 1
            BY DEF Commit
        <3>1. b \in Shard \/ b \in Master
            BY DEF Block
        <3> QED
            BY <2>3, <2>6, <3>1, CommitType
    <2>12. \A x \in Out' : Commit(x)' <= masterID
        BY <1>1, <1>2, <2>5 DEF ResolveInv, Commit
    <2> QED
        BY <1>1, <2>3, <2>9, <2>10, <2>11, <2>12 DEF PickInv
<1>5. LookupInv' /\ ResolveInv'
    BY <1>1 DEF LookupInv, ResolveInv
<1> QED
    BY <1>2, <1>3, <1>4, <1>5 DEF OrderInv

-----------------------------------------------------------------------------
(* The chunk is sent. *)

\* The youngest block left fits what is sent.
LEMMA PickedFits ==
    ASSUME OrderInv, NEW b \in Block, PickBlock(b)
    PROVE  Fits(b, Sent)
<1>1. /\ pc = "pick" /\ chunkBlocks[b] > 0
      /\ \A o \in Block : chunkBlocks[o] > 0 => StartLt[b] <= StartLt[o]
    BY DEF PickBlock
<1>2. PickInv /\ ChunkInv /\ Out = Sent
    BY <1>1 DEF OrderInv, Out
<1>3. /\ masterID \in Nat /\ anchor \in Nat
      /\ masterID + 1 \in Master /\ masterID + 1 \notin Shard /\ masterID \in Master
      /\ curIds = Tops[masterID + 1]
    BY <1>1, <1>2, NextMaster, Numbers DEF OrderInv, ChunkInv, Building, TypeInv, TypeOK, Master
<1>4. Commit(b) = masterID + 1
    BY <1>1, <1>2 DEF PickInv
<1>5. \A x \in Sent : /\ Commit(x) \in Nat
                      /\ Commit(x) <= masterID \/ (Commit(x) = masterID + 1 /\ chunkBlocks[x] = 0)
    <2>1. \A x \in Sent : Commit(x) \in Nat
        BY StreamType, CommitType DEF OrderInv, Master
    <2> QED
        BY <1>1, <1>2, <2>1 DEF PickInv
<1>6. b \notin Sent
    BY <1>1, <1>3, <1>4, <1>5
<1>7. b \in Shard => Parents[b] \subseteq Sent \cup lost \cup Base
    <2> SUFFICES ASSUME b \in Shard, NEW p \in Parents[b] PROVE p \in Sent \cup lost \cup Base
        OBVIOUS
    <2>1. ~(chunkBlocks[p] > 0)
        BY <1>1, ParentFacts, Sets
    <2> QED
        BY <1>1, <1>2, <2>1 DEF PickInv, Settled
<1>8. b \in Master => Tops[b] \subseteq Sent \cup lost \cup Base
    <2> SUFFICES ASSUME b \in Master, NEW t \in Tops[b] PROVE t \in Sent \cup lost \cup Base
        OBVIOUS
    <2>1. b = masterID + 1
        BY <1>4, CommitType
    <2>2. t \in Shard /\ t \in Block
        BY TopFacts, Sets
    <2>3. ~(chunkBlocks[t] > 0)
        <3> SUFFICES ASSUME chunkBlocks[t] > 0 PROVE FALSE
            OBVIOUS
        <3>1. CommittedAt[t] = b
            BY <1>1, <1>2, <2>1, <2>2, CommitType DEF PickInv
        <3>2. StartLt[t] < StartLt[b] /\ StartLt[t] \in Nat /\ StartLt[b] \in Nat
            BY <2>2, <3>1, LtFacts
        <3> QED
            BY <1>1, <2>2, <3>2
    <2> QED
        BY <1>1, <1>2, <1>3, <2>1, <2>3 DEF PickInv, Settled
<1>9. Commit(b) > anchor /\ (Commit(b) - 1 > anchor => Commit(b) - 1 \in Sent)
    <2>1. anchor <= masterID /\ (anchor < masterID => masterID \in Sent)
        BY <1>1, <1>2, <1>3 DEF ChunkInv, Anchored
    <2> QED
        BY <1>3, <1>4, <2>1
<1>10. \A x \in Sent : Commit(x) <= Commit(b)
    BY <1>3, <1>4, <1>5
<1>11. \A k \in Sent : k \in Master => k < Commit(b)
    <2> SUFFICES ASSUME NEW k \in Sent, k \in Master PROVE k < masterID + 1
        BY <1>4
    <2>1. Commit(k) = k
        BY StreamType, CommitType DEF OrderInv
    <2>2. k # masterID + 1
        <3> SUFFICES ASSUME k = masterID + 1 PROVE FALSE
            OBVIOUS
        <3>1. chunkBlocks[masterID + 1] = 0
            BY <1>3, <1>5, <2>1
        <3>2. \A s \in Shard : chunkBlocks[s] = 0
            BY <1>1, <1>2, <3>1 DEF PickInv
        <3>3. b \in Master /\ b # masterID + 1
            BY <1>1, <3>1, <3>2 DEF Block
        <3> QED
            BY <1>4, <3>3, CommitType
    <2> QED
        BY <1>3, <1>5, <2>1, <2>2
<1> QED
    BY <1>6, <1>7, <1>8, <1>9, <1>10, <1>11 DEF Fits

LEMMA PickStep ==
    ASSUME OrderInv, TypeInv', NEW b \in Block, PickBlock(b) PROVE OrderInv'
<1>1. /\ pc = "pick" /\ pc' = "send" /\ cur' = b /\ ch' = 1 /\ chunkBlocks[b] > 0
      /\ \A o \in Block : chunkBlocks[o] > 0 => StartLt[b] <= StartLt[o]
      /\ chunkBlocks' = [chunkBlocks EXCEPT ![b] = @ - 1]
      /\ UNCHANGED <<anchor, masterID, ids, curIds, lost, received>>
    BY DEF PickBlock, anchorVars, chunkVars
<1>2. /\ Stream' = Stream /\ Sent' = Sent /\ Out = Sent /\ Out' = Sent \cup {b}
      /\ Base' = Base /\ Settled' = Settled \cup {b}
    BY <1>1 DEF Stream, Sent, Out, Base, Settled
<1>3. SameInv'
    <2>1. \A c \in Channel : ~(c < ch')
        BY <1>1, Numbers DEF Channel
    <2> QED
        BY <1>1, <1>2, <2>1 DEF OrderInv, SameInv
<1>4. StreamInv'
    <2>1. Fits(b, Sent)
        BY PickedFits
    <2> QED
        BY <1>1, <1>2, <2>1 DEF OrderInv, StreamInv, Fits, Commit
<1>5. Commit(b) = masterID + 1 /\ masterID \in Nat /\ anchor \in Nat /\ anchor <= masterID
    BY <1>1, Numbers
    DEF OrderInv, PickInv, ChunkInv, Anchored, TypeInv, TypeOK, Master
<1>6. ChunkInv'
    BY <1>1, <1>2, <1>5 DEF OrderInv, ChunkInv, Anchored, Building, Commit
<1>7. PickInv'
    <2>1. /\ chunkBlocks \in [Block -> Nat] /\ chunkBlocks[b] = 1 /\ chunkBlocks'[b] = 0
          /\ \A o \in Block : o # b => chunkBlocks'[o] = chunkBlocks[o]
        BY <1>1 DEF OrderInv, TypeInv, TypeOK, PickInv
    <2>2. PickInv
        BY DEF OrderInv
    <2>3. /\ Shard \subseteq Block /\ curIds \subseteq Block /\ Out \subseteq Block
          /\ masterID + 1 \in Block /\ masterID + 1 \in Master
        BY <1>1, Sets, StreamType, NextMaster DEF OrderInv, TypeInv, TypeOK, Building
    <2>4. \A o \in Block : /\ chunkBlocks'[o] <= 1
                           /\ chunkBlocks'[o] > 0 => Commit(o) = masterID + 1
        BY <1>1, <2>1, <2>2 DEF PickInv
    <2>5. \A o \in Block : chunkBlocks[o] > 0 \/ o \in Settled =>
                              chunkBlocks'[o] > 0 \/ o \in Settled'
        BY <1>2, <2>1
    <2>6. ASSUME NEW s \in Shard, chunkBlocks'[s] > 0, NEW p \in Parents[s]
          PROVE  chunkBlocks'[p] > 0 \/ p \in Settled'
        <3>1. p \in Block /\ s \in Block
            BY <2>3, ParentFacts
        <3>2. chunkBlocks[s] > 0
            BY <2>1, <2>6, <3>1
        <3> QED
            BY <1>1, <2>2, <2>5, <3>1, <3>2 DEF PickInv
    <2>7. \A t \in curIds : chunkBlocks'[t] > 0 \/ t \in Settled'
        BY <1>1, <2>2, <2>3, <2>5 DEF PickInv
    <2>8. \A x \in Out' :
              Commit(x) <= masterID \/ (Commit(x) = masterID + 1 /\ chunkBlocks'[x] = 0)
        <3> SUFFICES ASSUME NEW x \in Out'
                     PROVE Commit(x) <= masterID \/ (Commit(x) = masterID + 1 /\ chunkBlocks'[x] = 0)
            OBVIOUS
        <3>1. CASE x = b
            BY <1>5, <2>1, <3>1
        <3>2. CASE x # b
            BY <1>1, <1>2, <2>1, <2>2, <2>3, <3>2 DEF PickInv
        <3> QED
            BY <3>1, <3>2
    <2>9. \/ chunkBlocks'[masterID + 1] > 0
          \/ masterID + 1 \in Out' /\ \A s \in Shard : chunkBlocks'[s] = 0
        <3>1. CASE b = masterID + 1
            \* It is the youngest of its chunk.
            <4> SUFFICES ASSUME NEW s \in Shard, chunkBlocks'[s] # 0 PROVE FALSE
                BY <1>2, <3>1
            <4>1. s \in Block /\ chunkBlocks[s] > 0
                BY <2>1, <2>3
            <4>2. CommittedAt[s] = b
                BY <1>1, <2>2, <3>1, <4>1, CommitType DEF PickInv
            <4>3. StartLt[s] < StartLt[b] /\ StartLt[s] \in Nat /\ StartLt[b] \in Nat
                BY <4>1, <4>2, LtFacts
            <4> QED
                BY <1>1, <4>1, <4>3
        <3>2. CASE b # masterID + 1
            <4>1. chunkBlocks[masterID + 1] > 0
                <5> SUFFICES ASSUME ~(chunkBlocks[masterID + 1] > 0) PROVE FALSE
                    OBVIOUS
                <5>1. b \in Master
                    BY <1>1, <2>2 DEF PickInv, Block
                <5> QED
                    BY <1>5, <3>2, <5>1, CommitType
            <4> QED
                BY <2>1, <2>3, <3>2, <4>1
        <3> QED
            BY <3>1, <3>2
    <2> QED
        BY <1>1, <2>4, <2>6, <2>7, <2>8, <2>9 DEF PickInv, Commit
<1>8. LookupInv' /\ ResolveInv'
    BY <1>1 DEF LookupInv, ResolveInv
<1> QED
    BY <1>3, <1>4, <1>6, <1>7, <1>8 DEF OrderInv

\* The chunk becomes the last complete one.
LEMMA NextChunkStep == ASSUME OrderInv, TypeInv', NextChunk PROVE OrderInv'
<1>1. /\ pc = "pick" /\ pc' = "lookup" /\ chunkBlocks = NoBlocks
      /\ masterID' = masterID + 1 /\ ids' = curIds
      /\ UNCHANGED <<anchor, lost, received>>
    BY DEF NextChunk, anchorVars
<1>2. /\ Out = Sent /\ Out' = Sent /\ SameInv' /\ StreamInv' /\ Settled \subseteq Settled'
    BY <1>1, QuietStep
<1>3. /\ masterID \in Nat /\ anchor \in Nat /\ anchor <= masterID
      /\ masterID + 1 \in Block /\ masterID + 1 \in Master
      /\ curIds = Tops[masterID + 1] /\ curIds \subseteq Shard
    BY <1>1, NextMaster, Numbers
    DEF OrderInv, ChunkInv, Anchored, Building, TypeInv, TypeOK, Master
<1>4. \A b \in Block : chunkBlocks[b] = 0
    BY <1>1 DEF NoBlocks
<1>5. PickInv
    BY DEF OrderInv
<1>6. masterID + 1 \in Out
    BY <1>1, <1>3, <1>4, <1>5 DEF PickInv
<1>7. Tops[masterID'] \subseteq Settled'
    BY <1>1, <1>2, <1>3, <1>4, <1>5, Sets DEF PickInv
<1>8. \A m \in Master : anchor < m /\ m <= masterID + 1 => m \in Out
    <2> SUFFICES ASSUME NEW m \in Master, anchor < m, m <= masterID + 1 PROVE m \in Out
        OBVIOUS
    <2>1. m \in Nat
        BY DEF Master
    <2>2. m <= masterID \/ m = masterID + 1
        BY <1>3, <2>1
    <2> QED
        BY <1>1, <1>6, <2>2 DEF OrderInv, ChunkInv, Anchored
<1>9. ChunkInv'
    <2>1. ids' \cap Shard = Tops[masterID']
        BY <1>1, <1>3
    <2>2. anchor' <= masterID'
        BY <1>1, <1>3
    <2>3. \A x \in Out' : Commit(x)' > anchor'
        BY <1>1, <1>2 DEF OrderInv, ChunkInv, Anchored, Commit
    <2> QED
        BY <1>1, <1>2, <1>7, <1>8, <2>1, <2>2, <2>3 DEF ChunkInv, Anchored, Building
<1>10. LookupInv'
    <2> SUFFICES ASSUME NEW x \in Sent PROVE Commit(x) <= masterID + 1
        BY <1>1, <1>2 DEF LookupInv, Commit
    <2>1. Commit(x) \in Nat
        BY StreamType, CommitType DEF OrderInv, Master
    <2> QED
        BY <1>1, <1>2, <1>3, <1>5, <2>1 DEF PickInv
<1>11. ResolveInv' /\ PickInv'
    BY <1>1 DEF ResolveInv, PickInv
<1> QED
    BY <1>2, <1>9, <1>10, <1>11 DEF OrderInv

LEMMA SendStep == ASSUME OrderInv, TypeInv', Send PROVE OrderInv'
<1>1. /\ pc = "send" /\ pc' \in {"pick", "send"}
      /\ received' = [received EXCEPT ![ch] = Append(@, cur)]
      /\ IF ch = NumChannels THEN pc' = "pick" /\ ch' = ch ELSE ch' = ch + 1 /\ pc' = "send"
      /\ UNCHANGED <<anchor, masterID, ids, curIds, chunkBlocks, lost, cur>>
    BY DEF Send, anchorVars, chunkVars, buildVars
<1>2. /\ Stream \in Seq(Block) /\ cur \in Block
      /\ ch \in Channel /\ NumChannels \in Channel /\ received \in [Channel -> Seq(Block)]
    BY StreamType, LastChannel DEF OrderInv, TypeInv, TypeOK
<1>3. \A c \in Channel : c \in Nat /\ c <= NumChannels
    BY Numbers DEF Channel
<1>4. received[ch] = Stream
    BY <1>2, <1>3 DEF OrderInv, SameInv
<1>5. Stream' = IF ch = NumChannels THEN Append(Stream, cur) ELSE Stream
    BY <1>1, <1>2, <1>4 DEF Stream
<1>6. SameInv'
    <2> SUFFICES ASSUME NEW c \in Channel
                 PROVE  received'[c] = IF pc' = "send" /\ c < ch' THEN Append(Stream', cur)
                                       ELSE Stream'
        BY <1>1 DEF SameInv
    <2>1. received[c] = IF c < ch THEN Append(Stream, cur) ELSE Stream
        BY <1>1 DEF OrderInv, SameInv
    <2>2. received'[c] = IF c = ch THEN Append(Stream, cur) ELSE received[c]
        BY <1>1, <1>2, <1>4
    <2> QED
        BY <1>1, <1>2, <1>3, <1>5, <2>1, <2>2
<1>7. Out' = Out /\ Out = Sent \cup {cur}
    <2>1. Out = Sent \cup {cur}
        BY <1>1 DEF Out
    <2>2. CASE ch = NumChannels
        <3>1. Sent' = Sent \cup {cur}
            <4>1. /\ DOMAIN Stream' = 1..(Len(Stream) + 1) /\ DOMAIN Stream = 1..Len(Stream)
                  /\ Len(Stream) \in Nat
                  /\ \A j \in 1..Len(Stream) : Stream'[j] = Stream[j]
                  /\ Stream'[Len(Stream) + 1] = cur
                BY <1>2, <1>5, <2>2
            <4>2. ASSUME NEW x \in Sent' PROVE x \in Sent \cup {cur}
                <5>1. PICK j \in 1..(Len(Stream) + 1) : x = Stream'[j]
                    BY <4>1 DEF Sent
                <5> QED
                    BY <4>1, <5>1 DEF Sent
            <4>3. ASSUME NEW x \in Sent \cup {cur} PROVE x \in Sent'
                BY <4>1 DEF Sent
            <4> QED
                BY <4>2, <4>3
        <3> QED
            BY <1>1, <2>1, <2>2, <3>1 DEF Out
    <2>3. CASE ch # NumChannels
        BY <1>1, <1>5, <2>1, <2>3 DEF Out, Sent
    <2> QED
        BY <2>1, <2>2, <2>3
<1>8. Base' = Base /\ Settled' = Settled
    BY <1>1, <1>7 DEF Base, Settled
<1>9. StreamInv'
    <2>1. /\ Fits(cur, Sent)
          /\ \A i \in DOMAIN Stream : Fits(Stream[i], {Stream[j] : j \in 1..(i - 1)})
        BY <1>1 DEF OrderInv, StreamInv
    <2>2. \A b, before : Fits(b, before) => Fits(b, before)'
        BY <1>1, <1>8 DEF Fits, Commit
    <2>3. CASE ch = NumChannels
        <3> SUFFICES ASSUME NEW i \in DOMAIN Stream'
                     PROVE  Fits(Stream'[i], {Stream'[j] : j \in 1..(i - 1)})
            BY <1>1, <2>3 DEF StreamInv, Fits, Commit, Base
        <3> DEFINE before == {Stream'[j] : j \in 1..(i - 1)}
        <3>1. /\ Stream' = Append(Stream, cur) /\ Len(Stream) \in Nat
              /\ DOMAIN Stream = 1..Len(Stream) /\ i \in 1..(Len(Stream) + 1)
            BY <1>2, <1>5, <2>3
        <3>2. \A j \in 1..Len(Stream) : Stream'[j] = Stream[j]
            BY <1>2, <3>1
        <3>3. before = {Stream[j] : j \in 1..(i - 1)}
            BY <3>1, <3>2
        <3> HIDE DEF before
        <3>4. ASSUME i \in 1..Len(Stream) PROVE Fits(Stream'[i], before)
            BY <2>1, <3>1, <3>2, <3>3, <3>4
        <3>5. ASSUME i = Len(Stream) + 1 PROVE Fits(Stream'[i], before)
            <4>1. Stream'[i] = cur /\ i - 1 = Len(Stream)
                BY <1>2, <3>1, <3>5
            <4>2. {Stream[j] : j \in 1..(i - 1)} = Sent
                BY <3>1, <4>1 DEF Sent
            <4>3. before = Sent
                BY <3>3, <4>2
            <4> QED
                BY <2>1, <4>1, <4>3
        <3>6. Fits(Stream'[i], before)
            BY <3>1, <3>4, <3>5
        <3> QED
            BY <3>6 DEF before
    <2>4. CASE ch # NumChannels
        <3>1. Stream' = Stream /\ Sent' = Sent
            BY <1>5, <2>4 DEF Sent
        <3> QED
            BY <1>1, <1>8, <2>1, <3>1 DEF StreamInv, Fits, Commit
    <2> QED
        BY <2>3, <2>4
<1>10. ChunkInv' /\ PickInv'
    BY <1>1, <1>7, <1>8 DEF OrderInv, ChunkInv, PickInv, Anchored, Building, Commit
<1>11. LookupInv' /\ ResolveInv'
    BY <1>1 DEF LookupInv, ResolveInv
<1> QED
    BY <1>6, <1>9, <1>10, <1>11 DEF OrderInv

-----------------------------------------------------------------------------
(* All steps, and what follows. *)

LEMMA InitOrderInv == Init => OrderInv
<1> SUFFICES ASSUME Init PROVE OrderInv
    OBVIOUS
<1>1. TypeInv
    BY InitTypeInv
<1>2. /\ pc = "info" /\ Stream = <<>>
      /\ \A c \in Channel : received[c] = <<>>
    BY LastChannel DEF Init, Stream
<1>3. Sent = {}
    BY <1>2 DEF Sent
<1>4. SameInv /\ StreamInv
    BY <1>2 DEF SameInv, StreamInv
<1>5. ChunkInv /\ LookupInv /\ ResolveInv /\ PickInv
    BY <1>2, <1>3 DEF ChunkInv, LookupInv, ResolveInv, PickInv, Anchored, Building
<1> QED
    BY <1>1, <1>4, <1>5 DEF OrderInv

LEMMA NextOrderInv == OrderInv /\ [Next]_vars => OrderInv'
<1> SUFFICES ASSUME OrderInv, [Next]_vars PROVE OrderInv'
    OBVIOUS
<1>t. TypeInv'
    BY NextTypeInv DEF OrderInv
<1>1. CASE NodeApplies
    BY <1>1, <1>t, IdleStep DEF NodeApplies
<1>2. CASE GetMasterchainInfo
    BY <1>2, <1>t, AnchorStep DEF GetMasterchainInfo
<1>3. CASE InitChunk
    BY <1>3, <1>t, InitChunkStep
<1>4. CASE InitChunkFails
    BY <1>4, <1>t, AnchorStep DEF InitChunkFails, anchorVars
<1>5. CASE LookupNextMaster
    BY <1>5, <1>t, LookupStep
<1>6. ASSUME NEW b \in Shard, Resolve(b) PROVE OrderInv'
    BY <1>6, <1>t, KnownStep, FetchedStep, NotInDbStep DEF Resolve
<1>7. CASE ResolveFails
    BY <1>7, <1>t, FailsStep
<1>8. CASE ChunkComplete
    BY <1>8, <1>t, CompleteStep
<1>9. ASSUME NEW b \in Block, PickBlock(b) PROVE OrderInv'
    BY <1>9, <1>t, PickStep
<1>10. CASE NextChunk
    BY <1>10, <1>t, NextChunkStep
<1>11. CASE Send
    BY <1>11, <1>t, SendStep
<1>12. CASE UNCHANGED vars
    BY <1>12, <1>t, IdleStep DEF vars, anchorVars, chunkVars, buildVars, sendVars
<1> QED
    BY <1>1, <1>2, <1>3, <1>4, <1>5, <1>6, <1>7, <1>8, <1>9, <1>10, <1>11, <1>12
    DEF Next, Internal

\* What is sent fits what was sent before, and the chunk under construction will
\* fit too: the indexer's walk, its retries and its sorting taken together.
THEOREM OrderInvariant == Spec => []OrderInv
BY InitOrderInv, NextOrderInv, PTL DEF Spec

\* What any subscriber has got fits, block by block.
LEMMA ReceivedFits ==
    ASSUME OrderInv, NEW c \in Channel, NEW i \in DOMAIN received[c]
    PROVE  Fits(received[c][i], Before(c, i))
<1>1. Stream \in Seq(Block) /\ cur \in Block
    BY StreamType DEF OrderInv
<1>2. \A j \in DOMAIN Stream : Fits(Stream[j], {Stream[k] : k \in 1..(j - 1)})
    BY DEF OrderInv, StreamInv
<1>3. CASE ~(pc = "send" /\ c < ch)
    <2>1. received[c] = Stream
        BY <1>3 DEF OrderInv, SameInv
    <2> QED
        BY <1>2, <2>1 DEF Before
<1>4. CASE pc = "send" /\ c < ch
    <2>1. received[c] = Append(Stream, cur) /\ Fits(cur, Sent)
        BY <1>4 DEF OrderInv, SameInv, StreamInv
    <2>2. /\ Len(Stream) \in Nat /\ DOMAIN Stream = 1..Len(Stream)
          /\ i \in 1..(Len(Stream) + 1)
          /\ \A j \in 1..Len(Stream) : received[c][j] = Stream[j]
          /\ received[c][Len(Stream) + 1] = cur
        BY <1>1, <2>1
    <2>3. Before(c, i) = {Stream[k] : k \in 1..(i - 1)}
        BY <2>2 DEF Before
    <2>4. ASSUME i \in 1..Len(Stream) PROVE Fits(received[c][i], Before(c, i))
        BY <1>2, <2>2, <2>3, <2>4
    <2>5. ASSUME i = Len(Stream) + 1 PROVE Fits(received[c][i], Before(c, i))
        <3>1. Before(c, i) = Sent
            BY <2>2, <2>3, <2>5 DEF Sent
        <3> QED
            BY <2>1, <2>2, <2>5, <3>1
    <2> QED
        BY <2>2, <2>4, <2>5
<1> QED
    BY <1>3, <1>4

\* No subscriber gets a block twice: litestorage.run and the others look for no
\* duplicates.
THEOREM SentOnce == Spec => []ExactlyOnce
<1>1. OrderInv => ExactlyOnce
    BY ReceivedFits DEF ExactlyOnce, Fits
<1> QED
    BY OrderInvariant, <1>1, PTL

\* To every subscriber a block comes after its parents, a masterchain block after
\* all it commits, and chunk after chunk, whatever failed on the way.
THEOREM SentInOrder == Spec => []StreamOrdered
<1>1. OrderInv => ParentsFirst
    BY ReceivedFits DEF ParentsFirst, Fits
<1>2. OrderInv => TopsBeforeMaster
    BY ReceivedFits DEF TopsBeforeMaster, Fits
<1>3. OrderInv => ChunksInOrder
    BY ReceivedFits DEF ChunksInOrder, Fits
<1> QED
    BY OrderInvariant, <1>1, <1>2, <1>3, PTL DEF StreamOrdered

\* All subscribers see one stream, at most the block being sent apart.
THEOREM SentToAll == Spec => []ChannelsAgree
<1>1. OrderInv => ChannelsAgree
    <2> SUFFICES ASSUME OrderInv, NEW c \in Channel, NEW d \in Channel, c < d
                 PROVE  /\ Len(received[d]) <= Len(received[c])
                        /\ Len(received[c]) <= Len(received[d]) + 1
                        /\ \A i \in DOMAIN received[d] : received[d][i] = received[c][i]
        BY DEF ChannelsAgree
    <2>1. Stream \in Seq(Block) /\ cur \in Block /\ ch \in Nat /\ c \in Nat /\ d \in Nat
        BY StreamType DEF OrderInv, Channel
    <2>2. /\ received[c] = IF pc = "send" /\ c < ch THEN Append(Stream, cur) ELSE Stream
          /\ received[d] = IF pc = "send" /\ d < ch THEN Append(Stream, cur) ELSE Stream
        BY DEF OrderInv, SameInv
    <2>3. /\ Len(Append(Stream, cur)) = Len(Stream) + 1 /\ Len(Stream) \in Nat
          /\ \A i \in DOMAIN Stream : Append(Stream, cur)[i] = Stream[i]
        BY <2>1
    <2>4. d < ch => c < ch
        BY <2>1
    <2> QED
        BY <2>2, <2>3, <2>4
<1> QED
    BY OrderInvariant, <1>1, PTL

-----------------------------------------------------------------------------
(* No gaps. *)

Got(c) == {received[c][i] : i \in DOMAIN received[c]}

\* A subscriber that got a masterchain block has every shard block it committed,
\* however long the walk to it was and whatever was tried again.
NoneMissing ==
    lost = {} =>
        \A c \in Channel : \A b \in Shard :
            CommittedAt[b] > anchor /\ CommittedAt[b] \in Got(c) => b \in Got(c)

\* An order like that leaves no gap: what a masterchain block committed comes before
\* it, the tops by TopsBeforeMaster and the others by ParentsFirst.
LEMMA OrderLeavesNoGap == TypeOK /\ StreamOrdered => NoneMissing
<1> SUFFICES ASSUME TypeOK, StreamOrdered, lost = {}, NEW c \in Channel,
                    NEW m \in Master, m > anchor, m \in Got(c)
             PROVE  \A b \in Shard : CommittedAt[b] = m => b \in Got(c)
    BY ChainAssumption DEF NoneMissing
<1>1. \A b \in Shard : CommittedAt[b] = m => b \notin Base
    <2>1. anchor \in Nat /\ m \in Nat
        BY DEF TypeOK, Master
    <2> QED
        BY <2>1 DEF Base
<1>2. ASSUME NEW i \in DOMAIN received[c] PROVE Before(c, i) \subseteq Got(c)
    <2>1. DOMAIN received[c] = 1..Len(received[c]) /\ Len(received[c]) \in Nat
        BY DEF TypeOK
    <2>2. 1..(i - 1) \subseteq DOMAIN received[c]
        BY <1>2, <2>1
    <2> QED
        BY <2>2 DEF Before, Got
<1>3. Tops[m] \subseteq Got(c) \cup Base
    <2>1. PICK i \in DOMAIN received[c] : received[c][i] = m
        BY DEF Got
    <2>2. Tops[m] \subseteq Before(c, i) \cup lost \cup Base
        BY <2>1 DEF StreamOrdered, TopsBeforeMaster
    <2> QED
        BY <1>2, <2>2
<1>4. ASSUME NEW d \in Shard, d \in Got(c)
      PROVE  Parents[d] \subseteq Got(c) \cup Base
    <2>1. PICK i \in DOMAIN received[c] : received[c][i] = d
        BY <1>4 DEF Got
    <2>2. Parents[d] \subseteq Before(c, i) \cup lost \cup Base
        BY <1>4, <2>1 DEF StreamOrdered, ParentsFirst
    <2> QED
        BY <1>2, <2>2
<1>5. \A t \in Tops[m] : CommittedAt[t] = m => t \in Got(c)
    BY <1>1, <1>3, TopFacts
<1>6. \A d \in Shard : \A p \in Parents[d] :
          d \in Got(c) /\ CommittedAt[d] = m /\ CommittedAt[p] = m => p \in Got(c)
    BY <1>1, <1>4, ParentFacts
<1> QED
    BY <1>5, <1>6, ClosedIsWhole

\* However the walk is cut into retries, no block that a masterchain block
\* committed is left out of what a subscriber gets.
THEOREM NoneIsMissing == Spec => [](TypeOK /\ NoneMissing)
BY TypeCorrect, SentInOrder, OrderLeavesNoGap, PTL
=============================================================================
