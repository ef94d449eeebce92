---------------------------- MODULE TraceSearch ----------------------------
(***************************************************************************)
(* pkg/litestorage/trace.go: how LiteStorage puts a trace together.  From  *)
(* the transaction it is asked for GetTrace goes back to the root, message *)
(* by message, and from there down to all the transactions the messages    *)
(* led to.  Where a transaction is, it only guesses: in the index of in    *)
(* messages (TxIndex), else in the block of the transaction it comes from  *)
(* and then in the block of that shard after it (before it, going back).   *)
(*                                                                         *)
(* The lite server is external: each call may fail.  run goes on indexing  *)
(* while a trace is built.  One request: another one only shares the       *)
(* caches, and what is in them is what the chain has.                      *)
(***************************************************************************)
EXTENDS Integers, Sequences

CONSTANTS
    Tx,         \* transactions
    Indexable,  \* those of watched accounts and of preloaded blocks
    Msg,        \* internal messages
    BlockTxs,   \* BlockTxs[shard][seqno]: the transactions of a block, in order
    AccountOf,  \* AccountOf[t]
    BlockOf,    \* BlockOf[t]: shard and seqno of its block
    InMsg,      \* InMsg[t]: an internal message, or None for what starts a trace
    OutMsgs,    \* OutMsgs[t]: messages in order, None for an external one
    Source, Destination, CreatedLt,   \* of a message
    MaxLt,      \* a logical time is an unsigned number of 64 bits
    MaxDepth,   \* maxDepthLimit
    None

Txs(b) == IF b.shard \in DOMAIN BlockTxs /\ b.seqno \in DOMAIN BlockTxs[b.shard]
          THEN BlockTxs[b.shard][b.seqno] ELSE <<>>
TxBlock == {BlockOf[t] : t \in Tx}

Sends(t, m) == \E i \in DOMAIN OutMsgs[t] : OutMsgs[t][i] = m

(***************************************************************************)
(* What TON guarantees: a transaction is in one block; a message has one   *)
(* sender and at most one receiver (none while it is on its way); what a   *)
(* transaction sends has a greater lt than what it got, and no two         *)
(* messages of an account have the same.                                   *)
(***************************************************************************)
ASSUME TraceAssumption ==
    /\ MaxDepth \in Nat /\ MaxLt \in Nat /\ None \notin Msg /\ Indexable \subseteq Tx
    /\ InMsg \in [Tx -> Msg \cup {None}]
    /\ OutMsgs \in [Tx -> Seq(Msg \cup {None})]
    /\ CreatedLt \in [Msg -> 0..MaxLt]
    /\ \A t \in Tx :
          /\ BlockOf[t].seqno \in Nat
          /\ BlockOf[t] = [shard |-> BlockOf[t].shard, seqno |-> BlockOf[t].seqno]
          /\ \E i \in DOMAIN Txs(BlockOf[t]) : Txs(BlockOf[t])[i] = t
    /\ \A b \in TxBlock :
          /\ Txs(b) \in Seq(Tx)
          /\ \A i \in DOMAIN Txs(b) : BlockOf[Txs(b)[i]] = b
    /\ \A t \in Tx : InMsg[t] # None =>
          /\ Destination[InMsg[t]] = AccountOf[t]
          /\ \E p \in Tx : Sends(p, InMsg[t])
          /\ \A u \in Tx : InMsg[u] = InMsg[t] => u = t
    /\ \A t \in Tx : \A m \in Msg : Sends(t, m) =>
          /\ Source[m] = AccountOf[t]
          /\ InMsg[t] # None => CreatedLt[InMsg[t]] < CreatedLt[m]
          /\ \A u \in Tx : Sends(u, m) => u = t
          /\ \A u \in Tx : \A n \in Msg :
                Sends(u, n) /\ AccountOf[u] = AccountOf[t] /\ CreatedLt[n] = CreatedLt[m] => n = m

\* A trace is a transaction and, for each of its messages, the trace it led to.
\* An external message has none: the code keeps these apart, in OutMsgs.
EmptyTrace == [tx |-> None, children |-> <<>>]

VARIABLES
    indexed,    \* the transactions of the index
    blocks,     \* blockCache
    interfaces, \* accountInterfacesCache: the accounts in it
    search      \* the request, at search.pc

traceVars == <<indexed, blocks, interfaces, search>>

\* look: what searchTransactionNearBlock was called with; stack: the frames of
\* recursiveGetChildren, each a transaction and the children it has.  The last
\* three are history: a call failed, an account's interfaces could not be read,
\* the depth limit was met.
NoSearch == [pc |-> "idle", asked |-> None, tx |-> None, depth |-> 0,
             look |-> None, stack |-> <<>>, trace |-> EmptyTrace,
             failed |-> FALSE, pruned |-> FALSE, deep |-> FALSE]

TraceInit ==
    /\ indexed \in SUBSET Indexable
    /\ blocks = {}
    /\ interfaces = {}
    /\ search = NoSearch

SearchAt(pc) == search.pc = pc
SearchSet(fields) == search' = [f \in DOMAIN search |->
    IF f \in DOMAIN fields THEN fields[f] ELSE search[f]]
TraceCaches == <<indexed, blocks, interfaces>>

\* run or a preload stores a transaction.
IndexTx(t) ==
    /\ t \in Indexable
    /\ indexed' = indexed \cup {t}
    /\ UNCHANGED <<blocks, interfaces, search>>

GetTransaction(t) ==
    /\ SearchAt("idle")
    /\ IF t \in indexed
       THEN SearchSet([pc |-> "root", asked |-> t, tx |-> t])
       ELSE SearchSet([pc |-> "error", asked |-> t, failed |-> TRUE])
    /\ UNCHANGED TraceCaches

-----------------------------------------------------------------------------
(* searchTransactionNearBlock *)

\* Account a, created lt of the message, and the block to begin with.
Look(a, m, b, back, depth) ==
    IF depth > MaxDepth
    THEN SearchSet([pc |-> "error", deep |-> TRUE])
    ELSE SearchSet([pc |-> "cache", depth |-> depth,
                    look |-> [account |-> a, lt |-> CreatedLt[m], block |-> b,
                              back |-> back, near |-> FALSE]])

Frame(t) == [tx |-> t, children |-> <<>>]

\* Going back t is the parent: findRoot goes on from it.  Going down it is a
\* child, whose own children come next.
FoundTx(t) ==
    IF search.look.back
    THEN SearchSet([pc |-> "root", tx |-> t, depth |-> search.depth + 1])
    ELSE SearchSet([pc |-> "children", stack |-> Append(search.stack, Frame(t))])

HasInMsg(t, a, lt) ==
    AccountOf[t] = a /\ InMsg[t] # None /\ CreatedLt[InMsg[t]] = lt
HasOutMsg(t, a, lt) ==
    /\ AccountOf[t] = a
    /\ \E i \in DOMAIN OutMsgs[t] :
          OutMsgs[t][i] # None /\ CreatedLt[OutMsgs[t][i]] = lt

\* searchTxInCache knows in messages only, whichever way the search goes.
SearchTxInCache ==
    /\ SearchAt("cache")
    /\ LET hits == {t \in indexed : HasInMsg(t, search.look.account, search.look.lt)}
       IN IF hits # {} THEN \E t \in hits : FoundTx(t)
                       ELSE SearchSet([pc |-> "block"])
    /\ UNCHANGED TraceCaches

\* Where in b the transactions are that the search is for.
Candidates(look, b) == {i \in DOMAIN Txs(b) :
    IF look.back THEN HasOutMsg(Txs(b)[i], look.account, look.lt)
                 ELSE HasInMsg(Txs(b)[i], look.account, look.lt)}

\* Mutant: the second block is the next one both ways.
NeighbourAfter(look) == [look.block EXCEPT !.seqno = @ + 1]
\* The block after it, or before it, and no other one.
Neighbour(look) == [look.block EXCEPT !.seqno = IF look.back THEN @ - 1 ELSE @ + 1]

NotInBlock(failed) ==
    IF search.look.near
    THEN SearchSet([pc |-> "error", failed |-> search.failed \/ failed])
    ELSE SearchSet([failed |-> search.failed \/ failed,
                    look |-> [search.look EXCEPT !.near = TRUE, !.block = Neighbour(search.look)]])

\* searchTransactionInBlock: LookupBlock, and GetBlock unless the block is cached.
\* The first of the candidates is taken.
SearchTransactionInBlock ==
    /\ SearchAt("block")
    /\ \/ UNCHANGED TraceCaches /\ NotInBlock(TRUE)
       \/ LET b == search.look.block
              found == Candidates(search.look, b)
          IN /\ b \in TxBlock
             /\ blocks' = blocks \cup {b}
             /\ UNCHANGED <<indexed, interfaces>>
             /\ \/ \E i \in found : (\A j \in found : i <= j) /\ FoundTx(Txs(b)[i])
                \/ found = {} /\ NotInBlock(FALSE)
       \/ search.look.block \notin TxBlock /\ UNCHANGED TraceCaches /\ NotInBlock(FALSE)

-----------------------------------------------------------------------------
(* findRoot and recursiveGetChildren *)

FindRoot ==
    /\ SearchAt("root")
    /\ LET t == search.tx IN
       IF InMsg[t] = None
       THEN SearchSet([pc |-> "children", stack |-> <<Frame(t)>>])
       ELSE Look(Source[InMsg[t]], InMsg[t], BlockOf[t], TRUE, search.depth)
    /\ UNCHANGED TraceCaches

Depth == Len(search.stack)
Top == search.stack[Depth]
NextMsg == OutMsgs[Top.tx][Len(Top.children) + 1]
AllTried == Len(Top.children) = Len(OutMsgs[Top.tx])

\* The stack without what is above depth, whose last frame has one child more.
WithChild(depth, child) ==
    [SubSeq(search.stack, 1, depth) EXCEPT ![depth].children = Append(@, child)]

\* The next message of the transaction on top: an external one has no child.
NextChild ==
    /\ SearchAt("children")
    /\ ~AllTried
    /\ IF NextMsg = None
       THEN SearchSet([stack |-> WithChild(Depth, None)])
       ELSE Look(Destination[NextMsg], NextMsg, BlockOf[Top.tx], FALSE, Depth)
    /\ UNCHANGED TraceCaches

\* recursiveGetChildren returns a trace to the frame below, which goes on with
\* its next message, or to GetTrace.
ReturnTrace(trace, pruned) ==
    IF Depth = 1
    THEN SearchSet([pc |-> "done", trace |-> trace, pruned |-> search.pruned \/ pruned])
    ELSE SearchSet([pruned |-> search.pruned \/ pruned, stack |-> WithChild(Depth - 1, trace)])

\* An error of getAccountInterfaces returns an empty trace, and no error.
GetInterfaces ==
    /\ SearchAt("children")
    /\ AllTried
    /\ \/ /\ interfaces' = interfaces \cup {AccountOf[Top.tx]}
          /\ ReturnTrace(Top, FALSE)
          /\ UNCHANGED <<indexed, blocks>>
       \/ /\ AccountOf[Top.tx] \notin interfaces
          /\ ReturnTrace(EmptyTrace, TRUE)
          /\ UNCHANGED TraceCaches

GetTrace == SearchTxInCache \/ SearchTransactionInBlock \/ FindRoot
            \/ NextChild \/ GetInterfaces

TraceNext == GetTrace \/ \E t \in Tx : GetTransaction(t) \/ IndexTx(t)

TraceSpec == TraceInit /\ [][TraceNext]_traceVars

-----------------------------------------------------------------------------
(* Properties *)

\* What the chain says: who sent a message to t, and where its trace begins.
Parent(t) == CHOOSE p \in Tx : Sends(p, InMsg[t])
Root[t \in Tx] == IF InMsg[t] = None THEN t ELSE Root[Parent(t)]
Level[t \in Tx] == IF InMsg[t] = None THEN 0 ELSE 1 + Level[Parent(t)]
Messages(t) == {m \in Msg : \E u \in Tx : Root[u] = Root[t] /\ Sends(u, m)}

\* What a message led to, if below has the traces below each transaction.
LedTo(below, m) == IF m = None THEN {None} ELSE UNION {below[u] : u \in {v \in Tx : InMsg[v] = m}}
Joined(below, t) == LET out == OutMsgs[t] IN
    {[tx |-> t, children |-> c] : c \in
        {s \in [DOMAIN out -> UNION {LedTo(below, out[i]) : i \in DOMAIN out}] :
            \A i \in DOMAIN out : s[i] \in LedTo(below, out[i])}}

\* The trace below t: the only one, or none while a message of it is on its way.
Whole[t \in Tx] == Joined(Whole, t)

\* The trace below t with any of its subtrees empty.
Pruned[t \in Tx] == {EmptyTrace} \cup Joined(Pruned, t)

\* Every message of the trace of t got a transaction in the shard it was sent
\* from, at most a block later.
Near(t) == \A u \in Tx : Root[u] = Root[t] =>
    \A m \in Msg : Sends(u, m) => \E v \in Tx :
        /\ InMsg[v] = m
        /\ BlockOf[v].shard = BlockOf[u].shard
        /\ BlockOf[v].seqno \in {BlockOf[u].seqno, BlockOf[u].seqno + 1}

\* Account a got another message of the created lt of m.
TakenFor(m, a) == \E v \in Tx :
    InMsg[v] \notin {None, m} /\ AccountOf[v] = a /\ CreatedLt[InMsg[v]] = CreatedLt[m]

\* No message of the trace of t can be taken for another by account and lt.
Unambiguous(t) == \A m \in Messages(t) :
    ~TakenFor(m, Source[m]) /\ ~TakenFor(m, Destination[m])

\* A trace that the limit of depth is for, or one that findRoot never leaves: of
\* a message of an account to itself the index has the receiver, which findRoot
\* takes for the sender.
TooDeep(t) == \E u \in Tx : Root[u] = Root[t] /\ Level[u] > MaxDepth
ToItself(t) == \E m \in Messages(t) : Source[m] = Destination[m]

(***************************************************************************)
(* Whatever the index holds and gets meanwhile, and whichever calls fail:  *)
(* the trace of an answer is that of the transaction asked for, less only  *)
(* the subtrees of accounts whose interfaces could not be read; and there  *)
(* is an answer unless a call failed, the trace is deeper than the limit,  *)
(* an account sent itself a message of it, or one went to another shard or *)
(* took two blocks.  All that, as long as account and created lt tell its  *)
(* messages from others.                                                   *)
(***************************************************************************)
TraceIsRight == search.pc \in {"done", "error"} /\ Unambiguous(search.asked) =>
    /\ SearchAt("done") =>
          search.trace \in IF search.pruned THEN Pruned[Root[search.asked]]
                                            ELSE Whole[Root[search.asked]]
    /\ SearchAt("error") /\ ~search.failed =>
          \/ search.deep /\ (TooDeep(search.asked) \/ ToItself(search.asked))
          \/ ~Near(search.asked)

\* A request is on its way.
Searching == search.pc \notin {"idle", "done", "error"}
=============================================================================
