------------------------------- MODULE TxIndex -------------------------------
(***************************************************************************)
(* pkg/litestorage/litestorage.go: the two maps LiteStorage indexes        *)
(* transactions with,                                                      *)
(*    byHash     (transactionsIndexByHash)  hash -> transaction,           *)
(*    byInMsgLT  (transactionsByInMsgLT)    (account, created lt of the    *)
(*                                          in message) -> hash,           *)
(* who fills them (preloadBlock and preloadAccount in NewLiteStorage, then *)
(* the goroutine run) and who reads them (searchTxInCache, two loads).     *)
(* Each map is safe for concurrent use, the pair of them is not: a         *)
(* transaction is stored in one map and then in the other.                 *)
(*                                                                         *)
(* A transaction stands for its hash.  The blocks run receives and the     *)
(* history of an account come from outside: any block, any older part of   *)
(* History[a] (Pipeline composes this module with the indexer).            *)
(***************************************************************************)
EXTENDS Naturals, Sequences

CONSTANTS
    BlockID,       \* blocks that may be preloaded or received
    BlockTxs,      \* BlockTxs[b]: the transactions of b, in order
    Tx,            \* transactions
    Account,
    AccountOf,     \* AccountOf[t]: the account t is on
    InMsgLT,       \* InMsgLT[t]: created lt of an internal in message, or NoLT
    NoLT,
    LT,            \* the created lts that occur
    Malformed,     \* transactions core.ConvertTransaction refuses
    Tracked,       \* trackingAccounts: the ACCOUNTS environment variable
    PreloadBlocks, \* preloadBlocks
    History,       \* History[a]: the transactions of a, newest first
    Reader,        \* API handlers that search the index
    MaxSearches,   \* bound: searches by all the readers
    None

ASSUME TxIndexAssumption ==
    /\ BlockTxs \in [BlockID -> Seq(Tx)]
    /\ AccountOf \in [Tx -> Account]
    /\ InMsgLT \in [Tx -> LT \cup {NoLT}]
    /\ NoLT \notin LT
    /\ Malformed \in SUBSET Tx
    /\ Tracked \in SUBSET Account
    /\ PreloadBlocks \in SUBSET BlockID
    /\ History \in [Account -> Seq(Tx)]
    /\ None \notin Tx
    /\ MaxSearches \in Nat
    /\ "run" \notin PreloadBlocks \cup Tracked
    /\ PreloadBlocks \cap Tracked = {}

\* The goroutines that index: one for each preload, and run.
Job == PreloadBlocks \cup Tracked \cup {"run"}
Key == Account \X LT

VARIABLES
    phase,     \* NewLiteStorage: preloading blocks, then accounts, then run
    started,   \* preload jobs that have begun
    todo,      \* todo[j]: transactions job j has still to index
    linking,   \* linking[j]: transaction stored by hash, not yet by in message
    byHash,    \* keys of transactionsIndexByHash
    byInMsgLT, \* transactionsByInMsgLT, None where there is no entry
    done,      \* history: blocks received by run, in order
    reader,    \* reader[r]: control point, key and hash of searchTxInCache
    searches   \* bound counter

jobVars == <<phase, started, todo, linking>>
mapVars == <<byHash, byInMsgLT>>
readVars == <<reader, searches>>
vars == <<phase, started, todo, linking, byHash, byInMsgLT, done, reader,
          searches>>

\* extractInMsgCreatedLT
HasKey(t) == InMsgLT[t] # NoLT
KeyOf(t) == <<AccountOf[t], InMsgLT[t]>>

Idle(j) == todo[j] = <<>> /\ linking[j] = None

Init ==
    /\ phase = "blocks"
    /\ started = {}
    /\ todo = [j \in Job |-> <<>>]
    /\ linking = [j \in Job |-> None]
    /\ byHash = {}
    /\ byInMsgLT = [k \in Key |-> None]
    /\ done = <<>>
    /\ reader = [r \in Reader |-> [pc |-> "idle", key |-> None, hash |-> None]]
    /\ searches = 0

-----------------------------------------------------------------------------
(* Preloading.  A call to the lite server that fails ends the preload of that
   block or account; the error is logged and NewLiteStorage goes on. *)

StartPreload(j, txs) ==
    /\ j \notin started
    /\ started' = started \cup {j}
    /\ todo' = [todo EXCEPT ![j] = txs]
    /\ UNCHANGED <<phase, linking, mapVars, done, readVars>>

PreloadBlock(b) ==
    /\ phase = "blocks"
    /\ \/ StartPreload(b, BlockTxs[b])
       \/ StartPreload(b, <<>>)

\* GetLastTransactions answers what the account has made so far, newest first:
\* all but the first n of History[a].
PreloadAccount(a, n) ==
    /\ phase = "accounts"
    /\ \/ StartPreload(a, SubSeq(History[a], n + 1, Len(History[a])))
       \/ StartPreload(a, <<>>)

\* iter.ForEach returns when all its goroutines have.
NextPhase ==
    /\ \A j \in Job : Idle(j)
    /\ \/ phase = "blocks" /\ PreloadBlocks \subseteq started
          /\ phase' = "accounts"
       \/ phase = "accounts" /\ Tracked \subseteq started
          /\ phase' = "run"
    /\ UNCHANGED <<started, todo, linking, mapVars, done, readVars>>

-----------------------------------------------------------------------------
(* Indexing one transaction: Store by hash, then Store by in message. *)

\* run leaves out the accounts it does not track; preloadBlock does not.
Wanted(j, t) == j = "run" => AccountOf[t] \in Tracked

\* Mutant: the hash is not stored when the in message is.
StoreInMsgFirst(j) ==
    LET t == Head(todo[j]) IN
    /\ todo[j] # <<>> /\ linking[j] = None
    /\ Wanted(j, t) /\ t \notin Malformed
    /\ byInMsgLT' = IF HasKey(t) THEN [byInMsgLT EXCEPT ![KeyOf(t)] = t]
                                 ELSE byInMsgLT
    /\ linking' = [linking EXCEPT ![j] = t]
    /\ UNCHANGED <<phase, started, todo, byHash, done, readVars>>

StoreByHash(j) ==
    LET t == Head(todo[j]) IN
    /\ todo[j] # <<>> /\ linking[j] = None
    /\ Wanted(j, t) /\ t \notin Malformed
    /\ byHash' = byHash \cup {t}
    /\ linking' = [linking EXCEPT ![j] = t]
    /\ UNCHANGED <<phase, started, todo, byInMsgLT, done, readVars>>

\* Mutant: the key of the in message forgets its account.
StoreUnderAnyAccount(j) ==
    LET t == linking[j] IN
    /\ t # None
    /\ byInMsgLT' = IF HasKey(t)
                    THEN [k \in Key |-> IF k[2] = InMsgLT[t] THEN t
                                                             ELSE byInMsgLT[k]]
                    ELSE byInMsgLT
    /\ todo' = [todo EXCEPT ![j] = Tail(@)]
    /\ linking' = [linking EXCEPT ![j] = None]
    /\ UNCHANGED <<phase, started, byHash, done, readVars>>

\* Mutant: stored whether extractInMsgCreatedLT found a key or not.
StoreUnchecked(j) ==
    LET t == linking[j] IN
    /\ t # None
    /\ byInMsgLT' = [k \in DOMAIN byInMsgLT \cup {KeyOf(t)} |->
                       IF k = KeyOf(t) THEN t ELSE byInMsgLT[k]]
    /\ todo' = [todo EXCEPT ![j] = Tail(@)]
    /\ linking' = [linking EXCEPT ![j] = None]
    /\ UNCHANGED <<phase, started, byHash, done, readVars>>

\* The later of two transactions with the same key wins.
StoreByInMsg(j) ==
    LET t == linking[j] IN
    /\ t # None
    /\ byInMsgLT' = IF HasKey(t) THEN [byInMsgLT EXCEPT ![KeyOf(t)] = t]
                                 ELSE byInMsgLT
    /\ todo' = [todo EXCEPT ![j] = Tail(@)]
    /\ linking' = [linking EXCEPT ![j] = None]
    /\ UNCHANGED <<phase, started, byHash, done, readVars>>

\* Mutant: an error ends the block.
SkipRest(j) ==
    LET t == Head(todo[j]) IN
    /\ todo[j] # <<>> /\ linking[j] = None
    /\ ~Wanted(j, t) \/ t \in Malformed \/ j \in PreloadBlocks
    /\ todo' = [todo EXCEPT ![j] = <<>>]
    /\ UNCHANGED <<phase, started, linking, mapVars, done, readVars>>

\* A transaction that is not tracked, or fails (preloadBlock also asks the lite
\* server for its account): the next one.
Skip(j) ==
    LET t == Head(todo[j]) IN
    /\ todo[j] # <<>> /\ linking[j] = None
    /\ ~Wanted(j, t) \/ t \in Malformed \/ j \in PreloadBlocks
    /\ j \notin Tracked
    /\ todo' = [todo EXCEPT ![j] = Tail(@)]
    /\ UNCHANGED <<phase, started, linking, mapVars, done, readVars>>

\* preloadAccount gives up at the first failure.
AbortAccount(a) ==
    /\ a \in Tracked /\ todo[a] # <<>> /\ linking[a] = None
    /\ todo' = [todo EXCEPT ![a] = <<>>]
    /\ UNCHANGED <<phase, started, linking, mapVars, done, readVars>>

-----------------------------------------------------------------------------
\* run takes the next block of the channel once it is done with the last one.
Receive(b) ==
    /\ phase = "run"
    /\ Idle("run")
    /\ todo' = [todo EXCEPT !["run"] = BlockTxs[b]]
    /\ done' = Append(done, b)
    /\ UNCHANGED <<phase, started, linking, mapVars, readVars>>

(***************************************************************************)
(* searchTxInCache, called by the handlers once NewLiteStorage has         *)
(* returned: load the hash of the key, then the transaction of the hash.   *)
(***************************************************************************)
LoadHash(r, k) ==
    /\ phase = "run"
    /\ searches < MaxSearches
    /\ searches' = searches + 1
    /\ reader[r].pc # "loaded"
    /\ reader' = [reader EXCEPT ![r] =
          IF byInMsgLT[k] = None
          THEN [pc |-> "absent", key |-> k, hash |-> None]
          ELSE [pc |-> "loaded", key |-> k, hash |-> byInMsgLT[k]]]
    /\ UNCHANGED <<jobVars, mapVars, done>>

LoadTx(r) ==
    /\ reader[r].pc = "loaded"
    /\ reader' = [reader EXCEPT ![r].pc =
          IF reader[r].hash \in byHash THEN "found" ELSE "missed"]
    /\ UNCHANGED <<jobVars, mapVars, done, searches>>

-----------------------------------------------------------------------------
Index(j) == StoreByHash(j) \/ StoreByInMsg(j) \/ Skip(j) \/ AbortAccount(j)
Search(r) == (\E k \in Key : LoadHash(r, k)) \/ LoadTx(r)

Next ==
    \/ \E b \in PreloadBlocks : PreloadBlock(b)
    \/ \E a \in Tracked : \E n \in 0..Len(History[a]) : PreloadAccount(a, n)
    \/ NextPhase
    \/ \E j \in Job : Index(j)
    \/ \E b \in BlockID : Receive(b)
    \/ \E r \in Reader : Search(r)

Spec == Init /\ [][Next]_vars

-----------------------------------------------------------------------------
(* Properties *)

ReaderState ==
    [pc : {"idle", "absent", "loaded", "found", "missed"},
     key : Key \cup {None}, hash : Tx \cup {None}]

TypeOK ==
    /\ phase \in {"blocks", "accounts", "run"}
    /\ started \in SUBSET (PreloadBlocks \cup Tracked)
    /\ todo \in [Job -> Seq(Tx)]
    /\ linking \in [Job -> Tx \cup {None}]
    /\ byHash \in SUBSET Tx
    /\ byInMsgLT \in [Key -> Tx \cup {None}]
    /\ done \in Seq(BlockID)
    /\ reader \in [Reader -> ReaderState]
    /\ searches \in 0..MaxSearches

\* Whatever the interleaving of the goroutines that fill the two maps, an entry
\* of transactionsByInMsgLT points to a transaction that is in
\* transactionsIndexByHash and that has the account and lt of the key.
NoDanglingEntry ==
    \A k \in Key : byInMsgLT[k] # None =>
        byInMsgLT[k] \in byHash /\ KeyOf(byInMsgLT[k]) = k

\* So searchTxInCache, which reads the maps one after the other without a lock,
\* never loses a transaction between its two loads, and what it answers is a
\* transaction on the account asked for.
SearchNeverMisses ==
    \A r \in Reader :
        /\ reader[r].pc # "missed"
        /\ reader[r].pc = "found" => KeyOf(reader[r].hash) = reader[r].key

\* The transactions of a block run has to index.
Indexable(b) ==
    {BlockTxs[b][i] : i \in {i \in DOMAIN BlockTxs[b] :
        AccountOf[BlockTxs[b][i]] \in Tracked /\ BlockTxs[b][i] \notin Malformed}}

\* run has indexed all of each block it went on from: a transaction it could
\* not convert does not take the others of the block with it.
BlocksIndexed ==
    \A i \in DOMAIN done :
        (i < Len(done) \/ Idle("run")) =>
            \A t \in Indexable(done[i]) :
                t \in byHash /\ (HasKey(t) => byInMsgLT[KeyOf(t)] # None)

\* A transaction that was found once stays found: the maps only grow.
IndexGrows ==
    [][ /\ byHash \subseteq byHash'
        /\ \A k \in Key : byInMsgLT[k] # None => byInMsgLT'[k] # None ]_vars

(***************************************************************************)
(* "inMsgCreatedLT is used as a key to look up a transaction's hash based  *)
(* on in msg's account and created lt" (litestorage.go:47): a transaction  *)
(* that is indexed is the one its key finds.                               *)
(***************************************************************************)
KeyFindsItsTransaction ==
    \A t \in byHash :
        (HasKey(t) /\ \A j \in Job : linking[j] # t)
            => byInMsgLT[KeyOf(t)] = t
=============================================================================
