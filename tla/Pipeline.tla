------------------------------ MODULE Pipeline -------------------------------
(***************************************************************************)
(* cmd/api/main.go, lines 59 to 98: NewLiteStorage preloads the watched    *)
(* accounts and starts the goroutine run; when it has returned, the        *)
(* indexer is started on an unbuffered channel that run receives from.     *)
(*                                                                         *)
(* Indexer and TxIndex are composed: the send of the one is the receive of *)
(* the other, a step of either leaves the other alone, and the chain they  *)
(* see is the same one.  Nothing stops the chain between the preload and   *)
(* the first block the indexer sends.                                      *)
(***************************************************************************)
EXTENDS TxIndex, FiniteSets

CONSTANTS
    MaxSeqno, Shard, Tops, Parents, CommittedAt, StartLt, NumChannels,
    SeqnoRange, MaxFaults

VARIABLES
    head, faults, pc, last, anchor, masterID, ids, curIds, queue, chunkBlocks,
    skipped, lost, cur, ch, received

I == INSTANCE Indexer

indexerVars == <<head, faults, pc, last, anchor, masterID, ids, curIds, queue,
                 chunkBlocks, skipped, lost, cur, ch, received>>
pipelineVars == <<indexerVars, vars>>

\* The two see one chain, that of Indexer, and a transaction is in one of its
\* blocks.
ASSUME OneChain ==
    /\ I!ChainAssumption /\ I!BoundsAssumption
    /\ BlockID = I!Block
    /\ \A t \in Tx : \E b \in BlockID :
          \E i \in DOMAIN BlockTxs[b] : BlockTxs[b][i] = t

\* One channel, storageBlockCh.
ASSUME OneChannel == NumChannels = 1

PipelineInit == Init /\ I!Init

\* The block transaction t is in.
BlockOf(t) == CHOOSE b \in BlockID :
                  \E i \in DOMAIN BlockTxs[b] : BlockTxs[b][i] = t

Committed(t) == I!Commit(BlockOf(t))

\* How many of the transactions of a the chain has still to make.
Unmade(a) ==
    Cardinality({i \in DOMAIN History[a] : Committed(History[a][i]) > head})

NodeApplies == I!NodeApplies /\ UNCHANGED vars

\* NewLiteStorage, on the main goroutine.
MainPreloadBlock(b) ==
    /\ I!Commit(b) <= head
    /\ PreloadBlock(b)
    /\ UNCHANGED indexerVars

MainPreloadAccount(a) ==
    /\ PreloadAccount(a, Unmade(a))
    /\ UNCHANGED indexerVars

MainNextPhase == NextPhase /\ UNCHANGED indexerVars

\* go idx.Run(...), started after NewLiteStorage has returned.
Follow ==
    /\ phase = "run"
    /\ I!Internal
    /\ UNCHANGED vars

\* Mutant: storageBlockCh has room for a block, which is dropped while run is
\* busy.
DeliverOrDrop ==
    /\ I!Send
    /\ \/ Receive(cur)
       \/ todo["run"] # <<>> /\ UNCHANGED vars

\* Mutant: the indexer does not wait for run to be done with the last block.
DeliverOverrun ==
    /\ I!Send
    /\ todo' = [todo EXCEPT !["run"] = BlockTxs[cur]]
    /\ done' = Append(done, cur)
    /\ UNCHANGED <<phase, started, linking, mapVars, readVars>>

\* The rendezvous on storageBlockCh.
Deliver == I!Send /\ Receive(cur)

IndexTx(j) == Index(j) /\ UNCHANGED indexerVars
SearchTx(r) == Search(r) /\ UNCHANGED indexerVars

PipelineNext ==
    \/ NodeApplies
    \/ \E b \in PreloadBlocks : MainPreloadBlock(b)
    \/ \E a \in Tracked : MainPreloadAccount(a)
    \/ MainNextPhase
    \/ Follow
    \/ Deliver
    \/ \E j \in Job : IndexTx(j)
    \/ \E r \in Reader : SearchTx(r)

PipelineSpec == PipelineInit /\ [][PipelineNext]_pipelineVars

\* Neither goroutine is ever stopped and main gets through NewLiteStorage.
Fairness ==
    /\ \A b \in PreloadBlocks : WF_pipelineVars(MainPreloadBlock(b))
    /\ \A a \in Tracked : WF_pipelineVars(MainPreloadAccount(a))
    /\ WF_pipelineVars(MainNextPhase)
    /\ WF_pipelineVars(Follow)
    /\ WF_pipelineVars(Deliver)
    /\ \A j \in Job : WF_pipelineVars(IndexTx(j))

PipelineFairSpec == PipelineSpec /\ Fairness

-----------------------------------------------------------------------------
(* Properties *)

\* The blocks handed to run; it may still be at the last of them.
Delivered == {received[1][i] : i \in DOMAIN received[1]}

\* The transactions of a that were converted without an error.
Convertible(a) == {t \in Tx : AccountOf[t] = a /\ t \notin Malformed}

\* End to end: when run is idle, a transaction of a watched account that a
\* masterchain block delivered so far committed is indexed, unless it is not
\* newer than the init chunk or the node did not have its block (or the
\* descendant of it that led there).
NothingMissedSinceAnchor ==
    Idle("run") =>
        \A a \in Tracked : \A t \in Convertible(a) :
            (/\ Committed(t) > anchor
             /\ Committed(t) \in Delivered
             /\ lost = {}) => t \in byHash

\* A transaction committed once the indexer is anchored gets indexed in the
\* end, although the indexer waits for run and run for the indexer.
EventuallyIndexed ==
    \A a \in Tracked : \A t \in Convertible(a) :
        (head >= Committed(t) /\ pc = "lookup" /\ anchor < Committed(t))
            ~> (t \in byHash \/ lost # {})

\* Composed with the indexer, the index behaves as TxIndex says: the blocks come
\* when run asks for them and the histories are the chain's.
ImplementsTxIndex == Spec
=============================================================================
