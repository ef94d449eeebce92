------------------------------- MODULE Indexer -------------------------------
(***************************************************************************)
(* pkg/blockchain/indexer: the goroutine that follows the masterchain and  *)
(* hands every new block, shard blocks included, to the subscribers.       *)
(*                                                                         *)
(* Run first anchors itself one block behind the tip (initChunk), then     *)
(* resolves one masterchain block after another (next): it walks from the  *)
(* shard tops the master block registers back to the tops of the previous  *)
(* chunk, and sends the blocks it met, ordered by StartLt, to each channel *)
(* in turn.  Any error throws the half-built chunk away and starts it      *)
(* again; a shard block the node answers "not in db" for is skipped.       *)
(*                                                                         *)
(* The chain and the lite server are external: the chain is Chain's,       *)
(* of which the node has applied the masterchain blocks 0..head; a call    *)
(* answers, or fails while the budget MaxFaults lasts.                     *)
(***************************************************************************)
EXTENDS Chain, Naturals, Sequences

CONSTANTS
    NumChannels,  \* subscribers of Run, in the order it was given them
    SeqnoRange,   \* size of the type of a seqno: 2^32, smaller for TLC
    MaxFaults     \* bound: failed or "not in db" answers of the lite server

ASSUME BoundsAssumption ==
    /\ NumChannels \in Nat \ {0}
    /\ SeqnoRange \in Nat /\ SeqnoRange > MaxSeqno + 1
    /\ MaxFaults \in Nat

VARIABLES
    head,        \* environment: newest master block applied by the node
    faults,      \* environment: faults so far
    pc,          \* control point of Run
    last,        \* info.Last.Seqno of the anchoring attempt
    anchor,      \* seqno of the init chunk; its blocks are never sent
    masterID,    \* chunk.masterID.Seqno of the last complete chunk
    ids,         \* chunk.ids of the last complete chunk
    curIds,      \* currentChunk.ids
    queue,       \* queue[b]: occurrences of b among the ids to resolve
    chunkBlocks, \* chunkBlocks[b]: occurrences of b resolved, not yet sent
    skipped,     \* ids of this chunk answered "not in db"
    lost,        \* history: all ids skipped by the chunks already built
    cur,         \* block being sent
    ch,          \* channel it is sent to next
    received     \* history: received[c], the blocks channel c delivered

envVars   == <<head, faults>>
anchorVars == <<last, anchor>>
chunkVars == <<masterID, ids>>
buildVars == <<curIds, queue, chunkBlocks, skipped>>
sendVars  == <<cur, ch>>
vars == <<head, faults, pc, last, anchor, masterID, ids, curIds, queue,
          chunkBlocks, skipped, lost, cur, ch, received>>

Channel == 1..NumChannels
Empty   == [b \in Shard |-> 0]
NoBlocks == [b \in Block |-> 0]

-----------------------------------------------------------------------------
Init ==
    /\ head = 0
    /\ faults = 0
    /\ pc = "info"
    /\ last = 0
    /\ anchor = 0
    /\ masterID = 0
    /\ ids = {}
    /\ curIds = {}
    /\ queue = Empty
    /\ chunkBlocks = NoBlocks
    /\ skipped = {}
    /\ lost = {}
    /\ cur = 0
    /\ ch = 1
    /\ received = [c \in Channel |-> <<>>]

\* A failed answer of the lite server.
Fault == /\ faults < MaxFaults
         /\ faults' = faults + 1

(***************************************************************************)
(* Environment: the node applies one more masterchain block.               *)
(***************************************************************************)
NodeApplies ==
    /\ head < MaxSeqno
    /\ head' = head + 1
    /\ UNCHANGED <<faults, pc, anchorVars, chunkVars, buildVars, lost,
                   sendVars, received>>

(***************************************************************************)
(* The first loop of Run.  GetMasterchainInfo may be answered by a server  *)
(* that lags; a failed call is retried, which changes nothing.             *)
(***************************************************************************)
GetMasterchainInfo ==
    /\ pc = "info"
    /\ \/ last' = head /\ UNCHANGED faults
       \/ \E s \in 0..head : s < head /\ last' = s /\ Fault
    /\ pc' = "initChunk"
    /\ UNCHANGED <<head, anchor, chunkVars, buildVars, lost, sendVars,
                   received>>

\* initChunk(seqno) anchors at seqno - 1, which wraps around for seqno 0.
InitSeqno == (last + SeqnoRange - 1) % SeqnoRange

InitChunk ==
    /\ pc = "initChunk"
    /\ InitSeqno <= head
    /\ anchor' = InitSeqno
    /\ masterID' = InitSeqno
    /\ ids' = {InitSeqno} \cup Tops[InitSeqno]
    /\ pc' = "lookup"
    /\ UNCHANGED <<envVars, last, buildVars, lost, sendVars, received>>

\* Mutant: the retry keeps the seqno it failed with.
InitChunkFailsSameSeqno ==
    /\ pc = "initChunk"
    /\ \/ InitSeqno > head /\ UNCHANGED faults
       \/ Fault
    /\ pc' = "initChunk"
    /\ UNCHANGED <<head, anchorVars, chunkVars, buildVars, lost, sendVars,
                   received>>

\* LookupBlock or GetBlock fails: Run goes back to GetMasterchainInfo.
InitChunkFails ==
    /\ pc = "initChunk"
    /\ \/ InitSeqno > head /\ UNCHANGED faults
       \/ Fault
    /\ pc' = "info"
    /\ UNCHANGED <<head, anchorVars, chunkVars, buildVars, lost, sendVars,
                   received>>

(***************************************************************************)
(* next: the masterchain block after masterID and its shard tops.  While   *)
(* the node has not applied it, or after an error, Run sleeps and tries    *)
(* again with the same chunk.                                              *)
(***************************************************************************)
LookupNextMaster ==
    /\ pc = "lookup"
    /\ masterID + 1 <= head
    /\ curIds' = Tops[masterID + 1]
    /\ queue' = [b \in Shard |-> IF b \in Tops[masterID + 1] THEN 1 ELSE 0]
    /\ chunkBlocks' = NoBlocks
    /\ skipped' = {}
    /\ pc' = "resolve"
    /\ UNCHANGED <<envVars, anchorVars, chunkVars, lost, sendVars, received>>

\* Mutant: only the blocks the masterchain registers are fetched.
NoParents(b) == {}

\* Parents whose block this chunk has still to get.
MissingParents(b) == Parents[b] \ (ids \cup curIds)

\* Mutant: a top that did not change is fetched again.
ResolveKnownIgnored(b) ==
    /\ pc = "resolve" /\ queue[b] > 0
    /\ b \in ids
    /\ queue' = [queue EXCEPT ![b] = @ - 1]
    /\ chunkBlocks' = [chunkBlocks EXCEPT ![b] = @ + 1]
    /\ UNCHANGED <<envVars, pc, anchorVars, chunkVars, curIds, skipped, lost,
                   sendVars, received>>

\* One id of the queue is resolved: known from the previous chunk, fetched,
\* or answered "not in db".  The order within the queue is immaterial, the
\* resolved blocks are sorted before anybody sees them.
ResolveKnown(b) ==
    /\ pc = "resolve" /\ queue[b] > 0
    /\ b \in ids
    /\ queue' = [queue EXCEPT ![b] = @ - 1]
    /\ UNCHANGED <<envVars, pc, anchorVars, chunkVars, curIds, chunkBlocks,
                   skipped, lost, sendVars, received>>

ResolveFetched(b) ==
    /\ pc = "resolve" /\ queue[b] > 0
    /\ b \notin ids
    /\ queue' = [q \in Shard |->
          (IF q = b THEN queue[q] - 1 ELSE queue[q])
            + (IF q \in MissingParents(b) THEN 1 ELSE 0)]
    /\ chunkBlocks' = [chunkBlocks EXCEPT ![b] = @ + 1]
    /\ UNCHANGED <<envVars, pc, anchorVars, chunkVars, curIds, skipped, lost,
                   sendVars, received>>

ResolveNotInDb(b) ==
    /\ pc = "resolve" /\ queue[b] > 0
    /\ b \notin ids
    /\ Fault
    /\ queue' = [queue EXCEPT ![b] = @ - 1]
    /\ skipped' = skipped \cup {b}
    /\ UNCHANGED <<head, pc, anchorVars, chunkVars, curIds, chunkBlocks, lost,
                   sendVars, received>>

\* Mutant: a chunk with an error is taken for complete.
ResolveFailsSkipsChunk ==
    /\ pc = "resolve"
    /\ \E b \in Shard : queue[b] > 0 /\ b \notin ids
    /\ Fault
    /\ masterID' = masterID + 1
    /\ ids' = curIds
    /\ pc' = "lookup"
    /\ UNCHANGED <<head, anchorVars, buildVars, lost, sendVars, received>>

\* Any other error: the chunk is dropped and next starts over.
ResolveFails ==
    /\ pc = "resolve"
    /\ \E b \in Shard : queue[b] > 0 /\ b \notin ids
    /\ Fault
    /\ pc' = "lookup"
    /\ UNCHANGED <<head, anchorVars, chunkVars, buildVars, lost, sendVars,
                   received>>

\* Everything is resolved: the master block joins the chunk.
ChunkComplete ==
    /\ pc = "resolve"
    /\ queue = Empty
    /\ chunkBlocks' = [chunkBlocks EXCEPT ![masterID + 1] = @ + 1]
    /\ lost' = lost \cup skipped
    /\ pc' = "pick"
    /\ UNCHANGED <<envVars, anchorVars, chunkVars, curIds, queue, skipped,
                   sendVars, received>>

\* Mutant: the chunk is not sorted.
PickAnyBlock(b) ==
    /\ pc = "pick"
    /\ chunkBlocks[b] > 0
    /\ chunkBlocks' = [chunkBlocks EXCEPT ![b] = @ - 1]
    /\ cur' = b
    /\ ch' = 1
    /\ pc' = "send"
    /\ UNCHANGED <<envVars, anchorVars, chunkVars, curIds, queue, skipped,
                   lost, received>>

\* Mutant: the loop over the channels does not end.
SendPastLast ==
    /\ pc = "send"
    /\ received' = [received EXCEPT ![ch] = Append(@, cur)]
    /\ ch' = ch + 1
    /\ UNCHANGED <<envVars, pc, anchorVars, chunkVars, buildVars, lost, cur>>

\* Mutant: a channel that has its block gets the next one before the others.
SendFirstOnly ==
    /\ pc = "send"
    /\ received' = [received EXCEPT ![ch] = Append(@, cur)]
    /\ pc' = "pick"
    /\ UNCHANGED <<envVars, anchorVars, chunkVars, buildVars, lost, cur, ch>>

(***************************************************************************)
(* Run sends the chunk in StartLt order (sort.Slice is not stable: of two  *)
(* equal blocks either may come first), each block to every channel.  A    *)
(* channel has no buffer, so Send is the subscriber's receive as well.     *)
(***************************************************************************)
PickBlock(b) ==
    /\ pc = "pick"
    /\ chunkBlocks[b] > 0
    /\ \A o \in Block : chunkBlocks[o] > 0 => StartLt[b] <= StartLt[o]
    /\ chunkBlocks' = [chunkBlocks EXCEPT ![b] = @ - 1]
    /\ cur' = b
    /\ ch' = 1
    /\ pc' = "send"
    /\ UNCHANGED <<envVars, anchorVars, chunkVars, curIds, queue, skipped,
                   lost, received>>

Send ==
    /\ pc = "send"
    /\ received' = [received EXCEPT ![ch] = Append(@, cur)]
    /\ IF ch = NumChannels THEN pc' = "pick" /\ UNCHANGED ch
                           ELSE ch' = ch + 1 /\ UNCHANGED pc
    /\ UNCHANGED <<envVars, anchorVars, chunkVars, buildVars, lost, cur>>

\* chunk = next
NextChunk ==
    /\ pc = "pick"
    /\ chunkBlocks = NoBlocks
    /\ masterID' = masterID + 1
    /\ ids' = curIds
    /\ pc' = "lookup"
    /\ UNCHANGED <<envVars, anchorVars, buildVars, lost, sendVars, received>>

-----------------------------------------------------------------------------
Resolve(b) ==
    \/ ResolveKnown(b)
    \/ ResolveFetched(b)
    \/ ResolveNotInDb(b)

\* The steps of the indexer's goroutine that no subscriber takes part in.
Internal ==
    \/ GetMasterchainInfo
    \/ InitChunk
    \/ InitChunkFails
    \/ LookupNextMaster
    \/ \E b \in Shard : Resolve(b)
    \/ ResolveFails
    \/ ChunkComplete
    \/ \E b \in Block : PickBlock(b)
    \/ NextChunk

Next == NodeApplies \/ Internal \/ Send

Spec == Init /\ [][Next]_vars

\* Nothing stops the goroutine (it never looks at ctx), both loops retry, and
\* the subscribers keep receiving.  The node owes nothing: NodeApplies is not
\* fair, but its faults are bounded.
Fairness == WF_vars(Internal \/ Send)
FairSpec == Spec /\ Fairness

-----------------------------------------------------------------------------
(* Properties *)

TypeOK ==
    /\ head \in Master
    /\ faults \in 0..MaxFaults
    /\ pc \in {"info", "initChunk", "lookup", "resolve", "pick", "send"}
    /\ last \in Master
    /\ anchor \in Master
    /\ masterID \in Master
    /\ ids \in SUBSET Block
    /\ curIds \in SUBSET Shard
    /\ queue \in [Shard -> Nat]
    /\ chunkBlocks \in [Block -> Nat]
    /\ skipped \in SUBSET Shard
    /\ lost \in SUBSET Shard
    /\ cur \in Block
    /\ ch \in Channel
    /\ received \in [Channel -> Seq(Block)]

\* The blocks channel c delivered before its i-th one.
Before(c, i) == {received[c][j] : j \in 1..(i - 1)}

\* Shard blocks committed by the init chunk or before: never to be sent.
Base == {b \in Shard : CommittedAt[b] <= anchor}

\* next walks back to the previous chunk whatever the number of blocks between
\* two masterchain blocks: a subscriber never sees a shard block before its
\* parents, unless the node did not have the parent or it is older than the
\* init chunk.
ParentsFirst ==
    \A c \in Channel : \A i \in DOMAIN received[c] :
        received[c][i] \in Shard =>
            Parents[received[c][i]] \subseteq Before(c, i) \cup lost \cup Base

\* When the masterchain block arrives, so have all the shard blocks it
\* registers, those the node did not have excepted: with ParentsFirst, no
\* committed block is missed.
TopsBeforeMaster ==
    \A c \in Channel : \A i \in DOMAIN received[c] :
        received[c][i] \in Master =>
            Tops[received[c][i]] \subseteq Before(c, i) \cup lost \cup Base

\* Retries of next, splits and merges never make a subscriber receive a block
\* twice (litestorage.run and other consumers do not look for duplicates).
ExactlyOnce ==
    \A c \in Channel : \A i \in DOMAIN received[c] :
        received[c][i] \notin Before(c, i)

\* Chunks are sent whole and in order, without a gap in the masterchain: all
\* that master block m commits comes after m - 1 and not after m.
ChunksInOrder ==
    \A c \in Channel : \A i \in DOMAIN received[c] :
        LET m == Commit(received[c][i]) IN
        /\ m > anchor
        /\ m - 1 > anchor => m - 1 \in Before(c, i)
        /\ \A b \in Before(c, i) : Commit(b) <= m
        /\ \A k \in Before(c, i) : k \in Master => k < m

\* The stream a subscriber gets is in order: a block after its parents, a
\* masterchain block after all it commits, and the chunks one after the other.
StreamOrdered == ParentsFirst /\ TopsBeforeMaster /\ ChunksInOrder

\* One goroutine serves all channels: they see the same stream and are never
\* more than the block being sent apart.
ChannelsAgree ==
    \A c, d \in Channel : c < d =>
        /\ Len(received[d]) <= Len(received[c])
        /\ Len(received[c]) <= Len(received[d]) + 1
        /\ \A i \in DOMAIN received[d] : received[d][i] = received[c][i]

\* Once anchored, the indexer delivers every masterchain block the node applies
\* to every subscriber, whatever failed on the way.
EveryMasterDelivered ==
    \A m \in 1..MaxSeqno : \A c \in Channel :
        (head >= m) ~> (anchor >= m \/ \E i \in DOMAIN received[c] :
                                            received[c][i] = m)
=============================================================================
