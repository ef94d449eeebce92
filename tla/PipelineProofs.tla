---------------------------- MODULE PipelineProofs ----------------------------
(***************************************************************************)
(* Proofs about TxIndex and Pipeline.                                      *)
(*                                                                         *)
(* TxIndex: its types, that no entry of the index by in message ever       *)
(* dangles, that a search never loses what it found, and that the indexes  *)
(* only grow.  All of them rest on one inductive invariant, IndexInv: the  *)
(* two invariants, and what makes them inductive, namely that a            *)
(* transaction waiting to be stored in the second map is already in the    *)
(* first, and that what a reader carries was an entry once.  That run      *)
(* leaves no block half indexed has a second invariant on top, RunInv.     *)
(*                                                                         *)
(* Pipeline: the composition of cmd/api/main.go implements both of its     *)
(* components: run asks for every block it gets, NewLiteStorage reads      *)
(* histories of the chain, and the indexer is started, and blocked, as     *)
(* Indexer allows.  So what is proved of the index here and what           *)
(* IndexerProofs proves of the stream holds of the composed system.        *)
(* Together with what only the composition knows, that run has got what    *)
(* the indexer has sent (SameBlocks), this gives the end-to-end property   *)
(* NothingMissedSinceAnchor.                                               *)
(***************************************************************************)
EXTENDS Pipeline, FiniteSetTheorems, TLAPS

(* The index. *)

\* Only a job that has begun holds transactions, and between its two stores it
\* still holds the one that it has stored by hash.
LinkInv ==
    \A j \in Job :
        /\ todo[j] # <<>> => j \in started \cup {"run"}
        /\ linking[j] # None => todo[j] # <<>> /\ linking[j] \in byHash

\* The hash a reader loaded is indexed, and has the key it was found under.
ReadInv ==
    \A r \in Reader :
        /\ reader[r].pc # "missed"
        /\ reader[r].pc = "loaded" => reader[r].hash \in byHash
        /\ reader[r].pc \in {"loaded", "found"} =>
               KeyOf(reader[r].hash) = reader[r].key

IndexInv == TypeOK /\ LinkInv /\ NoDanglingEntry /\ ReadInv

\* A transaction with a key has a proper one.
LEMMA KeyIsKey ==
    ASSUME NEW t \in Tx, HasKey(t)
    PROVE  KeyOf(t) \in Key
BY TxIndexAssumption DEF HasKey, KeyOf, Key

LEMMA InitIndexInv == Init => IndexInv
<1> SUFFICES ASSUME Init PROVE IndexInv
    OBVIOUS
<1>1. TypeOK
    BY TxIndexAssumption DEF Init, TypeOK, ReaderState
<1>2. LinkInv
    BY DEF Init, LinkInv
<1>3. NoDanglingEntry
    BY DEF Init, NoDanglingEntry
<1>4. ReadInv
    BY DEF Init, ReadInv
<1> QED
    BY <1>1, <1>2, <1>3, <1>4 DEF IndexInv

\* A step that only changes what a job has still to do, while the job is not
\* between its two stores.
LEMMA StepTodo ==
    ASSUME IndexInv,
           NEW j \in Job, NEW txs \in Seq(Tx),
           todo' = [todo EXCEPT ![j] = txs],
           linking[j] = None,
           UNCHANGED <<linking, mapVars, reader, searches>>,
           phase' \in {"blocks", "accounts", "run"},
           started' \in SUBSET (PreloadBlocks \cup Tracked),
           started \cup {j} \subseteq started' \cup {"run"},
           done' \in Seq(BlockID)
    PROVE  IndexInv'
<1>1. TypeOK'
    <2>1. todo' \in [Job -> Seq(Tx)]
        BY DEF IndexInv, TypeOK
    <2> QED
        BY <2>1 DEF IndexInv, TypeOK, mapVars
<1>2. LinkInv'
    BY DEF IndexInv, TypeOK, LinkInv, mapVars
<1>3. NoDanglingEntry'
    BY DEF IndexInv, NoDanglingEntry, mapVars
<1>4. ReadInv'
    BY DEF IndexInv, ReadInv, mapVars
<1> QED
    BY <1>1, <1>2, <1>3, <1>4 DEF IndexInv

LEMMA StepStoreByHash ==
    ASSUME IndexInv, NEW j \in Job, StoreByHash(j)
    PROVE  IndexInv'
<1> DEFINE t == Head(todo[j])
<1>1. t \in Tx
    BY DEF IndexInv, TypeOK, StoreByHash
<1>2. /\ byHash' = byHash \cup {t}
      /\ linking' = [linking EXCEPT ![j] = t]
      /\ todo[j] # <<>>
      /\ UNCHANGED <<phase, started, todo, byInMsgLT, done, reader, searches>>
    BY DEF StoreByHash, readVars
<1> HIDE DEF t
<1>3. TypeOK'
    <2>1. linking' \in [Job -> Tx \cup {None}]
        BY <1>1, <1>2 DEF IndexInv, TypeOK
    <2> QED
        BY <1>1, <1>2, <2>1 DEF IndexInv, TypeOK
<1>4. LinkInv'
    BY <1>1, <1>2 DEF IndexInv, TypeOK, LinkInv
<1>5. NoDanglingEntry'
    BY <1>2 DEF IndexInv, NoDanglingEntry
<1>6. ReadInv'
    BY <1>2 DEF IndexInv, ReadInv
<1> QED
    BY <1>3, <1>4, <1>5, <1>6 DEF IndexInv

LEMMA StepStoreByInMsg ==
    ASSUME IndexInv, NEW j \in Job, StoreByInMsg(j)
    PROVE  IndexInv'
<1> DEFINE t == linking[j]
<1>1. t \in Tx /\ t \in byHash /\ todo[j] # <<>>
    BY DEF IndexInv, TypeOK, LinkInv, StoreByInMsg
<1>2. /\ byInMsgLT' = IF HasKey(t) THEN [byInMsgLT EXCEPT ![KeyOf(t)] = t]
                                   ELSE byInMsgLT
      /\ todo' = [todo EXCEPT ![j] = Tail(@)]
      /\ linking' = [linking EXCEPT ![j] = None]
      /\ UNCHANGED <<phase, started, byHash, done, reader, searches>>
    BY DEF StoreByInMsg, readVars
<1> HIDE DEF t
<1>3. TypeOK'
    <2>1. byInMsgLT' \in [Key -> Tx \cup {None}]
        BY <1>1, <1>2 DEF IndexInv, TypeOK
    <2>2. Tail(todo[j]) \in Seq(Tx)
        BY <1>1 DEF IndexInv, TypeOK
    <2>3. todo' \in [Job -> Seq(Tx)]
        BY <1>2, <2>2 DEF IndexInv, TypeOK
    <2> QED
        BY <1>1, <1>2, <2>1, <2>3 DEF IndexInv, TypeOK
<1>4. LinkInv'
    BY <1>2 DEF IndexInv, TypeOK, LinkInv
<1>5. NoDanglingEntry'
    <2> SUFFICES ASSUME NEW k \in Key, byInMsgLT'[k] # None
                 PROVE  byInMsgLT'[k] \in byHash /\ KeyOf(byInMsgLT'[k]) = k
        BY <1>2 DEF NoDanglingEntry, KeyOf
    <2>1. CASE HasKey(t) /\ k = KeyOf(t)
        BY <1>1, <1>2, <2>1 DEF IndexInv, TypeOK
    <2>2. CASE ~(HasKey(t) /\ k = KeyOf(t))
        <3>1. byInMsgLT'[k] = byInMsgLT[k]
            BY <1>2, <2>2 DEF IndexInv, TypeOK
        <3> QED
            BY <3>1 DEF IndexInv, NoDanglingEntry
    <2> QED
        BY <2>1, <2>2
<1>6. ReadInv'
    BY <1>2 DEF IndexInv, ReadInv
<1> QED
    BY <1>3, <1>4, <1>5, <1>6 DEF IndexInv

LEMMA StepSearch ==
    ASSUME IndexInv, NEW r \in Reader, Search(r)
    PROVE  IndexInv'
<1>1. CASE \E k \in Key : LoadHash(r, k)
    <2> PICK k \in Key : LoadHash(r, k)
        BY <1>1
    <2> DEFINE new == IF byInMsgLT[k] = None
                      THEN [pc |-> "absent", key |-> k, hash |-> None]
                      ELSE [pc |-> "loaded", key |-> k, hash |-> byInMsgLT[k]]
    <2>1. /\ reader' = [reader EXCEPT ![r] = new]
          /\ searches < MaxSearches /\ searches' = searches + 1
          /\ UNCHANGED <<phase, started, todo, linking, byHash, byInMsgLT, done>>
        BY DEF LoadHash, jobVars, mapVars
    <2>2. byInMsgLT[k] \in Tx \cup {None}
        BY DEF IndexInv, TypeOK
    <2>3. new \in ReaderState
        BY <2>2 DEF ReaderState
    <2>4. /\ new.pc \in {"absent", "loaded"}
          /\ new.pc = "loaded" =>
                 new.hash \in byHash /\ KeyOf(new.hash) = new.key
        BY DEF IndexInv, NoDanglingEntry
    <2> HIDE DEF new
    <2>5. TypeOK'
        <3>1. searches' \in 0..MaxSearches
            BY <2>1, TxIndexAssumption DEF IndexInv, TypeOK
        <3>2. reader' \in [Reader -> ReaderState]
            BY <2>1, <2>3 DEF IndexInv, TypeOK
        <3> QED
            BY <2>1, <3>1, <3>2 DEF IndexInv, TypeOK
    <2>6. LinkInv'
        BY <2>1 DEF IndexInv, LinkInv
    <2>7. NoDanglingEntry'
        BY <2>1 DEF IndexInv, NoDanglingEntry
    <2>8. ReadInv'
        BY <2>1, <2>4 DEF IndexInv, TypeOK, ReadInv
    <2> QED
        BY <2>5, <2>6, <2>7, <2>8 DEF IndexInv
<1>2. CASE LoadTx(r)
    <2>1. reader[r].pc = "loaded" /\ reader[r].hash \in byHash
        BY <1>2 DEF LoadTx, IndexInv, ReadInv
    <2>2. /\ reader' = [reader EXCEPT ![r].pc = "found"]
          /\ UNCHANGED <<phase, started, todo, linking, byHash, byInMsgLT, done,
                         searches>>
        BY <1>2, <2>1 DEF LoadTx, jobVars, mapVars
    <2>3. reader[r] \in ReaderState
        BY DEF IndexInv, TypeOK
    <2>4. TypeOK'
        <3>1. reader' \in [Reader -> ReaderState]
            BY <2>2, <2>3 DEF IndexInv, TypeOK, ReaderState
        <3> QED
            BY <2>2, <3>1 DEF IndexInv, TypeOK
    <2>5. LinkInv'
        BY <2>2 DEF IndexInv, LinkInv
    <2>6. NoDanglingEntry'
        BY <2>2 DEF IndexInv, NoDanglingEntry
    <2>7. ReadInv'
        BY <2>1, <2>2, <2>3 DEF IndexInv, TypeOK, ReadInv, ReaderState
    <2> QED
        BY <2>4, <2>5, <2>6, <2>7 DEF IndexInv
<1> QED
    BY <1>1, <1>2 DEF Search

\* A job that has not begun is not between its two stores.
LEMMA StepStartPreload ==
    ASSUME IndexInv, NEW j \in PreloadBlocks \cup Tracked, NEW txs \in Seq(Tx),
           StartPreload(j, txs),
           phase \in {"blocks", "accounts", "run"}
    PROVE  IndexInv'
<1>1. j \in Job /\ j # "run"
    BY TxIndexAssumption DEF Job
<1>2. /\ todo' = [todo EXCEPT ![j] = txs]
      /\ j \notin started /\ started' = started \cup {j}
      /\ UNCHANGED <<phase, linking, mapVars, done, reader, searches>>
    BY DEF StartPreload, readVars
<1>3. linking[j] = None
    BY <1>1, <1>2 DEF IndexInv, LinkInv
<1>4. /\ phase' \in {"blocks", "accounts", "run"}
      /\ started' \in SUBSET (PreloadBlocks \cup Tracked)
      /\ started \cup {j} \subseteq started' \cup {"run"}
      /\ done' \in Seq(BlockID)
    BY <1>2 DEF IndexInv, TypeOK
<1> QED
    BY <1>1, <1>2, <1>3, <1>4, StepTodo

LEMMA PreloadSeqs ==
    /\ \A b \in BlockID : BlockTxs[b] \in Seq(Tx)
    /\ <<>> \in Seq(Tx)
    /\ \A a \in Account : \A n \in 0..Len(History[a]) :
           SubSeq(History[a], n + 1, Len(History[a])) \in Seq(Tx)
<1>1. ASSUME NEW a \in Account, NEW n \in 0..Len(History[a])
      PROVE  SubSeq(History[a], n + 1, Len(History[a])) \in Seq(Tx)
    <2>1. History[a] \in Seq(Tx)
        BY TxIndexAssumption
    <2> QED
        BY <2>1
<1> QED
    BY <1>1, TxIndexAssumption

LEMMA NextIndexInv == IndexInv /\ [Next]_vars => IndexInv'
<1> SUFFICES ASSUME IndexInv, [Next]_vars PROVE IndexInv'
    OBVIOUS
<1>0. /\ phase \in {"blocks", "accounts", "run"}
      /\ started \in SUBSET (PreloadBlocks \cup Tracked)
      /\ todo \in [Job -> Seq(Tx)]
      /\ done \in Seq(BlockID)
    BY DEF IndexInv, TypeOK
<1>1. ASSUME NEW b \in PreloadBlocks, PreloadBlock(b) PROVE IndexInv'
    <2>1. BlockTxs[b] \in Seq(Tx) /\ <<>> \in Seq(Tx)
        BY PreloadSeqs, TxIndexAssumption
    <2>2. StartPreload(b, BlockTxs[b]) \/ StartPreload(b, <<>>)
        BY <1>1 DEF PreloadBlock
    <2> QED
        BY <1>0, <2>1, <2>2, StepStartPreload
<1>2. ASSUME NEW a \in Tracked, NEW n \in 0..Len(History[a]),
             PreloadAccount(a, n)
      PROVE  IndexInv'
    <2> DEFINE txs == SubSeq(History[a], n + 1, Len(History[a]))
    <2>1. txs \in Seq(Tx) /\ <<>> \in Seq(Tx)
        BY PreloadSeqs, TxIndexAssumption
    <2>2. StartPreload(a, txs) \/ StartPreload(a, <<>>)
        BY <1>2 DEF PreloadAccount
    <2> HIDE DEF txs
    <2> QED
        BY <1>0, <2>1, <2>2, StepStartPreload
<1>3. CASE NextPhase
    <2>1. /\ phase' \in {"blocks", "accounts", "run"}
          /\ UNCHANGED <<started, todo, linking, byHash, byInMsgLT, done,
                         reader, searches>>
        BY <1>3 DEF NextPhase, mapVars, readVars
    <2>2. TypeOK'
        BY <2>1 DEF IndexInv, TypeOK
    <2> QED
        BY <2>1, <2>2
        DEF IndexInv, LinkInv, NoDanglingEntry, ReadInv
<1>4. ASSUME NEW j \in Job, Index(j) PROVE IndexInv'
    <2>1. CASE StoreByHash(j)
        BY <2>1, StepStoreByHash
    <2>2. CASE StoreByInMsg(j)
        BY <2>2, StepStoreByInMsg
    <2>3. CASE Skip(j) \/ AbortAccount(j)
        <3>1. PICK txs \in Seq(Tx) :
                  /\ todo[j] # <<>> /\ linking[j] = None
                  /\ todo' = [todo EXCEPT ![j] = txs]
                  /\ UNCHANGED <<phase, started, linking, mapVars, done,
                                 reader, searches>>
            <4>1. <<>> \in Seq(Tx)
                BY PreloadSeqs
            <4>2. todo[j] # <<>> => Tail(todo[j]) \in Seq(Tx)
                BY <1>0
            <4>3. todo' = [todo EXCEPT ![j] = <<>>]
                  \/ todo' = [todo EXCEPT ![j] = Tail(todo[j])]
                BY <2>3, <1>0 DEF Skip, AbortAccount
            <4>4. /\ todo[j] # <<>> /\ linking[j] = None
                  /\ UNCHANGED <<phase, started, linking, mapVars, done,
                                 reader, searches>>
                BY <2>3 DEF Skip, AbortAccount, readVars
            <4> QED
                BY <4>1, <4>2, <4>3, <4>4
        <3>2. j \in started \cup {"run"}
            BY <3>1 DEF IndexInv, LinkInv
        <3>3. /\ phase' \in {"blocks", "accounts", "run"}
              /\ started' \in SUBSET (PreloadBlocks \cup Tracked)
              /\ started \cup {j} \subseteq started' \cup {"run"}
              /\ done' \in Seq(BlockID)
            BY <1>0, <3>1, <3>2
        <3> QED
            BY <3>1, <3>3, StepTodo
    <2> QED
        BY <1>4, <2>1, <2>2, <2>3 DEF Index
<1>5. ASSUME NEW b \in BlockID, Receive(b) PROVE IndexInv'
    <2>1. "run" \in Job /\ BlockTxs[b] \in Seq(Tx)
        BY PreloadSeqs DEF Job
    <2>2. /\ linking["run"] = None
          /\ todo' = [todo EXCEPT !["run"] = BlockTxs[b]]
          /\ UNCHANGED <<phase, started, linking, mapVars, reader, searches>>
          /\ done' = Append(done, b)
        BY <1>5 DEF Receive, Idle, readVars
    <2>3. /\ phase' \in {"blocks", "accounts", "run"}
          /\ started' \in SUBSET (PreloadBlocks \cup Tracked)
          /\ started \cup {"run"} \subseteq started' \cup {"run"}
          /\ done' \in Seq(BlockID)
        BY <1>0, <2>2
    <2> QED
        BY <2>1, <2>2, <2>3, StepTodo
<1>6. ASSUME NEW r \in Reader, Search(r) PROVE IndexInv'
    BY <1>6, StepSearch
<1>7. CASE UNCHANGED vars
    <2>1. UNCHANGED <<phase, started, todo, linking, byHash, byInMsgLT, done,
                      reader, searches>>
        BY <1>7 DEF vars
    <2> QED
        BY <2>1 DEF IndexInv, TypeOK, LinkInv, NoDanglingEntry, ReadInv
<1> QED
    BY <1>1, <1>2, <1>3, <1>4, <1>5, <1>6, <1>7 DEF Next

LEMMA IndexInvariant == Spec => []IndexInv
<1> QED
    BY InitIndexInv, NextIndexInv, PTL DEF Spec

-----------------------------------------------------------------------------
\* The state of the index keeps its types, whatever the blocks, the histories
\* and the transactions in them.
THEOREM TypeCorrect == Spec => []TypeOK
<1>1. IndexInv => TypeOK
    BY DEF IndexInv
<1> QED
    BY <1>1, IndexInvariant, PTL

\* However the goroutines that index interleave, no entry by in message points
\* to a transaction that is not in the index by hash or has another key.
THEOREM EntriesNeverDangle == Spec => []NoDanglingEntry
<1>1. IndexInv => NoDanglingEntry
    BY DEF IndexInv
<1> QED
    BY <1>1, IndexInvariant, PTL

\* searchTxInCache needs no lock around its two loads: with any number of
\* readers, the transaction of a hash it found is there, and it is one on the
\* account asked for.
THEOREM SearchFinds == Spec => []SearchNeverMisses
<1>1. IndexInv => SearchNeverMisses
    BY DEF IndexInv, ReadInv, SearchNeverMisses
<1> QED
    BY <1>1, IndexInvariant, PTL

\* A transaction that was found stays found: no step of any goroutine takes an
\* entry out of either map.
THEOREM IndexNeverShrinks == Spec => IndexGrows
<1> DEFINE Grows ==
        /\ byHash \subseteq byHash'
        /\ \A k \in Key : byInMsgLT[k] # None => byInMsgLT'[k] # None
<1>1. ASSUME IndexInv, [Next]_vars PROVE Grows
    <2>1. ASSUME NEW j \in Job, StoreByInMsg(j) PROVE Grows
        <3>1. linking[j] \in Tx /\ linking[j] # None
            BY <1>1, <2>1 DEF IndexInv, TypeOK, StoreByInMsg
        <3>2. byHash' = byHash
            BY <2>1 DEF StoreByInMsg
        <3>3. \/ byInMsgLT' = [byInMsgLT EXCEPT ![KeyOf(linking[j])] = linking[j]]
              \/ byInMsgLT' = byInMsgLT
            BY <2>1 DEF StoreByInMsg
        <3>4. byInMsgLT \in [Key -> Tx \cup {None}]
            BY <1>1 DEF IndexInv, TypeOK
        <3> QED
            BY <3>1, <3>2, <3>3, <3>4
    <2>2. ASSUME NEW j \in Job, StoreByHash(j) PROVE Grows
        BY <2>2 DEF StoreByHash
    <2>3. ASSUME UNCHANGED <<byHash, byInMsgLT>> PROVE Grows
        BY <2>3
    <2>4. ASSUME NEW j \in Job, Skip(j) \/ AbortAccount(j) PROVE Grows
        BY <2>3, <2>4 DEF Skip, AbortAccount, mapVars
    <2>5. ASSUME NEW j \in Job, NEW txs, StartPreload(j, txs) PROVE Grows
        BY <2>3, <2>5 DEF StartPreload, mapVars
    <2>6. ASSUME NEW r \in Reader, Search(r) PROVE Grows
        BY <2>3, <2>6 DEF Search, LoadHash, LoadTx, mapVars
    <2>7. ASSUME NEW b \in BlockID, Receive(b) PROVE Grows
        BY <2>3, <2>7 DEF Receive, mapVars
    <2>8. ASSUME NextPhase \/ UNCHANGED vars PROVE Grows
        BY <2>3, <2>8 DEF NextPhase, mapVars, vars
    <2>9. ASSUME NEW b \in PreloadBlocks, PreloadBlock(b) PROVE Grows
        BY <2>5, <2>9 DEF PreloadBlock, Job
    <2>10. ASSUME NEW a \in Tracked, NEW n \in 0..Len(History[a]),
                  PreloadAccount(a, n)
           PROVE  Grows
        BY <2>5, <2>10 DEF PreloadAccount, Job
    <2> QED
        BY <1>1, <2>1, <2>2, <2>4, <2>6, <2>7, <2>8, <2>9, <2>10
        DEF Next, Index
<1>2. IndexInv /\ [Next]_vars => [Grows]_vars
    BY <1>1
<1> QED
    BY <1>2, IndexInvariant, PTL DEF Spec, IndexGrows

-----------------------------------------------------------------------------
(* No block is left half indexed.  While run is at the last block, what is   *)
(* not stored of it is still in todo; that a transaction leaves todo only    *)
(* stored, or because it is not wanted, needs that the transaction between   *)
(* its two stores is the head of todo.                                       *)

Stored(t) == t \in byHash /\ (HasKey(t) => byInMsgLT[KeyOf(t)] # None)

Pending == {todo["run"][i] : i \in DOMAIN todo["run"]}

HeadInv ==
    \A j \in Job : linking[j] # None => linking[j] = Head(todo[j])

BlockInv ==
    \A i \in DOMAIN done : \A t \in Indexable(done[i]) :
        Stored(t) \/ (i = Len(done) /\ t \in Pending)

RunInv == IndexInv /\ HeadInv /\ BlockInv

LEMMA HeadOrTail ==
    ASSUME NEW s \in Seq(Tx), s # <<>>, NEW i \in DOMAIN s, s[i] # Head(s)
    PROVE  \E k \in DOMAIN Tail(s) : Tail(s)[k] = s[i]
<1>1. i # 1
    OBVIOUS
<1>2. i - 1 \in DOMAIN Tail(s) /\ Tail(s)[i - 1] = s[i]
    BY <1>1
<1> QED
    BY <1>2

\* What run may index of a block is a transaction of it.
LEMMA IndexableIsTx ==
    ASSUME NEW b \in BlockID, NEW t \in Indexable(b)
    PROVE  /\ t \in Tx /\ AccountOf[t] \in Tracked /\ t \notin Malformed
           /\ \E i \in DOMAIN BlockTxs[b] : t = BlockTxs[b][i]
<1>1. BlockTxs[b] \in Seq(Tx)
    BY TxIndexAssumption
<1> QED
    BY <1>1 DEF Indexable

\* A step that keeps done and loses no entry keeps BlockInv, when it takes
\* nothing out of todo but what is stored or may not be.
LEMMA StepBlocks ==
    ASSUME RunInv, UNCHANGED done,
           byHash \subseteq byHash',
           \A k \in Key : byInMsgLT[k] # None => byInMsgLT'[k] # None,
           \A t \in Pending : \/ t \in Pending'
                               \/ Stored(t)'
                               \/ AccountOf[t] \notin Tracked
                               \/ t \in Malformed
    PROVE  BlockInv'
<1> SUFFICES ASSUME NEW i \in DOMAIN done, NEW t \in Indexable(done[i])
             PROVE  Stored(t)' \/ (i = Len(done) /\ t \in Pending')
    BY DEF BlockInv
<1>1. done[i] \in BlockID
    BY DEF RunInv, IndexInv, TypeOK
<1>2. t \in Tx /\ AccountOf[t] \in Tracked /\ t \notin Malformed
    BY <1>1, IndexableIsTx
<1>3. CASE Stored(t)
    <2>1. HasKey(t) => KeyOf(t) \in Key
        BY <1>2, KeyIsKey
    <2> QED
        BY <1>3, <2>1 DEF Stored, HasKey, KeyOf
<1>4. CASE i = Len(done) /\ t \in Pending
    BY <1>2, <1>4
<1> QED
    BY <1>3, <1>4 DEF RunInv, BlockInv

LEMMA RunStoreByInMsg ==
    ASSUME RunInv, NEW j \in Job, StoreByInMsg(j)
    PROVE  HeadInv' /\ BlockInv'
<1> PICK t \in Tx : t = linking[j]
    BY DEF RunInv, IndexInv, TypeOK, StoreByInMsg
<1>1. /\ t = linking[j] /\ t # None /\ t \in byHash
      /\ todo[j] # <<>> /\ t = Head(todo[j]) /\ todo[j] \in Seq(Tx)
      /\ byInMsgLT \in [Key -> Tx \cup {None}] /\ todo \in [Job -> Seq(Tx)]
      /\ linking \in [Job -> Tx \cup {None}]
    BY DEF RunInv, HeadInv, IndexInv, TypeOK, LinkInv, StoreByInMsg
<1>2. /\ byInMsgLT' = IF HasKey(t) THEN [byInMsgLT EXCEPT ![KeyOf(t)] = t]
                                   ELSE byInMsgLT
      /\ todo' = [todo EXCEPT ![j] = Tail(@)]
      /\ linking' = [linking EXCEPT ![j] = None]
      /\ UNCHANGED <<byHash, done>>
    BY DEF StoreByInMsg
<1>3. HeadInv'
    BY <1>1, <1>2 DEF RunInv, HeadInv
<1>4. Stored(t)'
    BY <1>1, <1>2, KeyIsKey DEF Stored, HasKey, KeyOf
<1>5. \A k \in Key : byInMsgLT[k] # None => byInMsgLT'[k] # None
    BY <1>1, <1>2
<1>6. ASSUME NEW u \in Pending, u # t PROVE u \in Pending'
    <2>1. PICK i \in DOMAIN todo["run"] : u = todo["run"][i]
        BY DEF Pending
    <2>2. "run" \in Job
        BY DEF Job
    <2>3. CASE j = "run"
        <3>1. \E k \in DOMAIN Tail(todo["run"]) : Tail(todo["run"])[k] = u
            BY <1>1, <1>6, <2>1, <2>3, HeadOrTail
        <3> QED
            BY <1>1, <1>2, <2>2, <2>3, <3>1 DEF Pending
    <2>4. CASE j # "run"
        BY <1>1, <1>2, <2>1, <2>2, <2>4 DEF Pending
    <2> QED
        BY <2>3, <2>4
<1>7. BlockInv'
    BY <1>2, <1>4, <1>5, <1>6, StepBlocks
<1> QED
    BY <1>3, <1>7

LEMMA RunSkip ==
    ASSUME RunInv, NEW j \in Job, Skip(j) \/ AbortAccount(j)
    PROVE  HeadInv' /\ BlockInv'
<1>1. /\ todo \in [Job -> Seq(Tx)] /\ todo[j] # <<>> /\ linking[j] = None
      /\ UNCHANGED <<linking, byHash, byInMsgLT, done>>
    BY DEF RunInv, IndexInv, TypeOK, Skip, AbortAccount, mapVars
<1>2. /\ "run" \in Job /\ "run" \notin PreloadBlocks
      /\ "run" \notin Tracked
    BY TxIndexAssumption DEF Job
<1>3. HeadInv'
    BY <1>1 DEF RunInv, HeadInv, Skip, AbortAccount
<1>4. ASSUME NEW u \in Pending
      PROVE  \/ u \in Pending'
             \/ AccountOf[u] \notin Tracked
             \/ u \in Malformed
    <2>1. PICK i \in DOMAIN todo["run"] : u = todo["run"][i]
        BY DEF Pending
    <2>2. CASE j = "run"
        <3>1. /\ todo' = [todo EXCEPT !["run"] = Tail(@)]
              /\ \/ AccountOf[Head(todo["run"])] \notin Tracked
                 \/ Head(todo["run"]) \in Malformed
            BY <1>2, <2>2 DEF Skip, AbortAccount, Wanted
        <3>2. CASE u = Head(todo["run"])
            BY <3>1, <3>2
        <3>3. CASE u # Head(todo["run"])
            <4>1. todo["run"] \in Seq(Tx) /\ todo["run"] # <<>>
                BY <1>1, <1>2, <2>2
            <4>2. \E k \in DOMAIN Tail(todo["run"]) : Tail(todo["run"])[k] = u
                BY <2>1, <3>3, <4>1, HeadOrTail
            <4>3. todo'["run"] = Tail(todo["run"])
                BY <1>1, <1>2, <3>1
            <4> QED
                BY <4>2, <4>3 DEF Pending
        <3> QED
            BY <3>2, <3>3
    <2>3. CASE j # "run"
        <3>1. todo'["run"] = todo["run"]
            BY <1>1, <1>2, <2>3 DEF Skip, AbortAccount
        <3> QED
            BY <2>1, <3>1 DEF Pending
    <2> QED
        BY <2>2, <2>3
<1>5. BlockInv'
    BY <1>1, <1>4, StepBlocks
<1> QED
    BY <1>3, <1>5

LEMMA RunReceive ==
    ASSUME RunInv, NEW b \in BlockID, Receive(b)
    PROVE  HeadInv' /\ BlockInv'
<1>1. /\ todo["run"] = <<>> /\ linking["run"] = None
      /\ todo' = [todo EXCEPT !["run"] = BlockTxs[b]]
      /\ done' = Append(done, b)
      /\ UNCHANGED <<linking, byHash, byInMsgLT>>
      /\ todo \in [Job -> Seq(Tx)] /\ done \in Seq(BlockID)
      /\ "run" \in Job
    BY DEF Receive, Idle, mapVars, RunInv, IndexInv, TypeOK, Job
<1>2. HeadInv'
    BY <1>1 DEF RunInv, HeadInv
<1>3. todo'["run"] = BlockTxs[b]
    BY <1>1
<1>4. BlockInv'
    <2> SUFFICES ASSUME NEW i \in DOMAIN done', NEW t \in Indexable(done'[i])
                 PROVE  Stored(t)' \/ (i = Len(done') /\ t \in Pending')
        BY DEF BlockInv, Indexable
    <2>1. CASE i \in DOMAIN done
        <3>1. done'[i] = done[i]
            BY <1>1, <2>1
        <3>2. t \notin Pending
            BY <1>1 DEF Pending
        <3>3. Stored(t)
            BY <2>1, <3>1, <3>2 DEF RunInv, BlockInv
        <3> QED
            BY <1>1, <3>3 DEF Stored, HasKey, KeyOf
    <2>2. CASE i \notin DOMAIN done
        <3>1. i = Len(done') /\ done'[i] = b
            BY <1>1, <2>2
        <3>2. \E k \in DOMAIN BlockTxs[b] : t = BlockTxs[b][k]
            BY <3>1, IndexableIsTx
        <3> QED
            BY <1>3, <3>1, <3>2 DEF Pending
    <2> QED
        BY <2>1, <2>2
<1> QED
    BY <1>2, <1>4

\* A step that changes neither the maps nor what run has to do.
LEMMA RunElse ==
    ASSUME RunInv, UNCHANGED <<byHash, byInMsgLT, done, linking>>,
           NEW j \in Job \ {"run"}, NEW txs, linking[j] = None,
           todo' = [todo EXCEPT ![j] = txs] \/ UNCHANGED todo
    PROVE  HeadInv' /\ BlockInv'
<1>1. todo \in [Job -> Seq(Tx)] /\ "run" \in Job
    BY DEF RunInv, IndexInv, TypeOK, Job
<1>2. HeadInv'
    BY <1>1 DEF RunInv, HeadInv
<1>3. todo'["run"] = todo["run"]
    BY <1>1
<1>4. \A t \in Pending : t \in Pending'
    BY <1>3 DEF Pending
<1>5. BlockInv'
    BY <1>4, StepBlocks
<1> QED
    BY <1>2, <1>5

LEMMA NextRunInv == RunInv /\ [Next]_vars => RunInv'
<1> SUFFICES ASSUME RunInv, [Next]_vars PROVE HeadInv' /\ BlockInv'
    BY NextIndexInv DEF RunInv
<1>0. /\ "run" \notin PreloadBlocks /\ "run" \notin Tracked
      /\ "run" \in Job /\ PreloadBlocks \subseteq Job /\ Tracked \subseteq Job
    BY TxIndexAssumption DEF Job
<1>1. ASSUME NEW j \in PreloadBlocks \cup Tracked, NEW txs,
             StartPreload(j, txs)
      PROVE  HeadInv' /\ BlockInv'
    <2>1. j \in Job \ {"run"}
        BY <1>0
    <2>2. linking[j] = None
        BY <1>0, <1>1 DEF StartPreload, RunInv, IndexInv, LinkInv
    <2> QED
        BY <1>1, <2>1, <2>2, RunElse DEF StartPreload, mapVars
<1>2. ASSUME NEW b \in PreloadBlocks, PreloadBlock(b)
      PROVE  HeadInv' /\ BlockInv'
    BY <1>1, <1>2 DEF PreloadBlock
<1>3. ASSUME NEW a \in Tracked, NEW n \in 0..Len(History[a]),
             PreloadAccount(a, n)
      PROVE  HeadInv' /\ BlockInv'
    BY <1>1, <1>3 DEF PreloadAccount
<1>4. ASSUME NEW j \in Job, Index(j) PROVE HeadInv' /\ BlockInv'
    <2>1. CASE StoreByHash(j)
        <3>1. /\ byHash' = byHash \cup {Head(todo[j])}
              /\ linking' = [linking EXCEPT ![j] = Head(todo[j])]
              /\ linking \in [Job -> Tx \cup {None}]
              /\ UNCHANGED <<todo, byInMsgLT, done>>
            BY <2>1 DEF StoreByHash, RunInv, IndexInv, TypeOK
        <3>2. HeadInv'
            BY <3>1 DEF RunInv, HeadInv
        <3>3. \A t \in Pending : t \in Pending'
            BY <3>1 DEF Pending
        <3> QED
            BY <3>1, <3>2, <3>3, StepBlocks
    <2> QED
        BY <1>4, <2>1, RunStoreByInMsg, RunSkip DEF Index
<1>5. ASSUME NEW b \in BlockID, Receive(b) PROVE HeadInv' /\ BlockInv'
    BY <1>5, RunReceive
<1>6. ASSUME UNCHANGED <<byHash, byInMsgLT, done, linking, todo>>
      PROVE  HeadInv' /\ BlockInv'
    <2>1. HeadInv'
        BY <1>6 DEF RunInv, HeadInv
    <2>2. \A t \in Pending : t \in Pending'
        BY <1>6 DEF Pending
    <2> QED
        BY <1>6, <2>1, <2>2, StepBlocks
<1>7. CASE NextPhase
    BY <1>6, <1>7 DEF NextPhase, mapVars
<1>8. ASSUME NEW r \in Reader, Search(r) PROVE HeadInv' /\ BlockInv'
    BY <1>6, <1>8 DEF Search, LoadHash, LoadTx, jobVars, mapVars
<1>9. CASE UNCHANGED vars
    BY <1>6, <1>9 DEF vars
<1> QED
    BY <1>2, <1>3, <1>4, <1>5, <1>7, <1>8, <1>9 DEF Next

\* run goes on to the next block only when all of the last one that is tracked
\* and converts can be found by its hash and has an entry by in message: a
\* transaction that fails costs no other its place in the index.
THEOREM NoBlockHalfIndexed == Spec => []BlocksIndexed
<1>1. Init => RunInv
    <2> SUFFICES ASSUME Init PROVE HeadInv /\ BlockInv
        BY InitIndexInv DEF RunInv
    <2> QED
        BY DEF Init, HeadInv, BlockInv
<1>2. RunInv => BlocksIndexed
    <2> SUFFICES ASSUME RunInv, NEW i \in DOMAIN done,
                        i < Len(done) \/ Idle("run"),
                        NEW t \in Indexable(done[i])
                 PROVE  t \in byHash
                        /\ (HasKey(t) => byInMsgLT[KeyOf(t)] # None)
        BY DEF BlocksIndexed
    <2>1. Stored(t) \/ (i = Len(done) /\ t \in Pending)
        BY DEF RunInv, BlockInv
    <2>2. ~(i = Len(done) /\ t \in Pending)
        <3>1. CASE Idle("run")
            BY <3>1 DEF Idle, Pending
        <3>2. CASE i < Len(done)
            <4>1. Len(done) \in Nat /\ DOMAIN done = 1..Len(done)
                BY DEF RunInv, IndexInv, TypeOK
            <4> QED
                BY <3>2, <4>1
        <3> QED
            BY <3>1, <3>2
    <2> QED
        BY <2>1, <2>2 DEF Stored
<1> QED
    BY <1>1, <1>2, NextRunInv, PTL DEF Spec

-----------------------------------------------------------------------------
(* The composition. *)

\* There are n numbers from 1 to n.
LEMMA CountTo ==
    ASSUME NEW n \in Nat
    PROVE  IsFiniteSet(1..n) /\ Cardinality(1..n) = n
<1>1. 1 \in Int /\ n \in Int
  OBVIOUS
<1>2. /\ IsFiniteSet(1..n)
      /\ Cardinality(1..n) = IF 1 > n THEN 0 ELSE n - 1 + 1
  BY <1>1, FS_Interval
<1>3. (IF 1 > n THEN 0 ELSE n - 1 + 1) = n
  OBVIOUS
<1> QED
  BY <1>2, <1>3

\* The part of a history the chain has still to make is no longer than it.
LEMMA UnmadeBound ==
    ASSUME NEW a \in Tracked
    PROVE  Unmade(a) \in 0..Len(History[a])
<1> DEFINE n == Len(History[a])
           T == {i \in DOMAIN History[a] : Committed(History[a][i]) > head}
<1>1. History[a] \in Seq(Tx)
  BY TxIndexAssumption
<1>2. n \in Nat /\ DOMAIN History[a] = 1..n
  BY <1>1
<1>3. IsFiniteSet(1..n) /\ Cardinality(1..n) = n
  BY <1>2, CountTo
<1>4. T \subseteq 1..n
  BY <1>2
<1>5. IsFiniteSet(T) /\ Cardinality(T) <= n
  BY <1>3, <1>4, FS_Subset
<1>6. Cardinality(T) \in Nat
  BY <1>5, FS_CardinalityType
<1> QED
  BY <1>2, <1>5, <1>6 DEF Unmade

\* A step of the composed system is one of the index, or leaves it alone.
LEMMA StepOfIndex ==
    cur \in BlockID /\ [PipelineNext]_pipelineVars => [Next]_vars
<1> SUFFICES ASSUME cur \in BlockID, [PipelineNext]_pipelineVars
             PROVE  [Next]_vars
  OBVIOUS
<1>1. CASE NodeApplies
  BY <1>1 DEF NodeApplies
<1>2. CASE \E b \in PreloadBlocks : MainPreloadBlock(b)
  BY <1>2 DEF MainPreloadBlock, Next
<1>3. CASE \E a \in Tracked : MainPreloadAccount(a)
  BY <1>3, UnmadeBound DEF MainPreloadAccount, Next
<1>4. CASE MainNextPhase
  BY <1>4 DEF MainNextPhase, Next
<1>5. CASE Follow
  BY <1>5 DEF Follow
<1>6. CASE Deliver
  BY <1>6 DEF Deliver, Next
<1>7. CASE \E j \in Job : IndexTx(j)
  BY <1>7 DEF IndexTx, Next
<1>8. CASE \E r \in Reader : SearchTx(r)
  BY <1>8 DEF SearchTx, Next
<1>9. CASE UNCHANGED pipelineVars
  BY <1>9 DEF pipelineVars
<1> QED
  BY <1>1, <1>2, <1>3, <1>4, <1>5, <1>6, <1>7, <1>8, <1>9 DEF PipelineNext

\* A step of the composed system is one of the indexer, or leaves it alone.
LEMMA StepOfIndexer == [PipelineNext]_pipelineVars => [I!Next]_indexerVars
<1> SUFFICES ASSUME [PipelineNext]_pipelineVars PROVE [I!Next]_indexerVars
  OBVIOUS
<1>1. CASE NodeApplies
  BY <1>1 DEF NodeApplies, I!Next
<1>2. CASE Follow
  BY <1>2 DEF Follow, I!Next
<1>3. CASE Deliver
  BY <1>3 DEF Deliver, I!Next
<1>4. CASE UNCHANGED indexerVars
  BY <1>4
<1>5. \/ NodeApplies \/ Follow \/ Deliver
      \/ UNCHANGED indexerVars
  BY DEF PipelineNext, MainPreloadBlock, MainPreloadAccount, MainNextPhase,
         IndexTx, SearchTx, pipelineVars
<1> QED
  BY <1>1, <1>2, <1>3, <1>4, <1>5

\* It implements Indexer: a subscriber that is late only delays its sends.
THEOREM IndexerImplemented == PipelineSpec => I!Spec
<1>1. PipelineInit => I!Init
  BY DEF PipelineInit
<1>2. [I!Next]_indexerVars => [I!Next]_(I!vars)
  BY DEF indexerVars, I!vars
<1> QED
  BY <1>1, <1>2, StepOfIndexer, PTL DEF PipelineSpec, I!Spec

\* What the indexer sends is a block of the chain.
LEMMA SendsBlocks == I!Spec => [](cur \in BlockID)
<1>1. I!Init => cur \in BlockID
  BY OneChain DEF I!Init, I!Block, I!Master
<1>2. cur \in BlockID /\ [I!Next]_(I!vars) => (cur \in BlockID)'
  <2> SUFFICES ASSUME cur \in BlockID, [I!Next]_(I!vars) PROVE cur' \in BlockID
    OBVIOUS
  <2>1. CASE \E b \in I!Block : I!PickBlock(b)
    BY <2>1, OneChain DEF I!PickBlock
  <2>2. CASE UNCHANGED cur
    BY <2>2
  <2>3. \/ \E b \in I!Block : I!PickBlock(b)
        \/ UNCHANGED cur
    BY DEF I!Next, I!Internal, I!NodeApplies, I!GetMasterchainInfo,
           I!InitChunk, I!InitChunkFails, I!LookupNextMaster, I!Resolve,
           I!ResolveKnown, I!ResolveFetched, I!ResolveNotInDb, I!ResolveFails,
           I!ChunkComplete, I!NextChunk, I!Send, I!vars, I!sendVars
  <2> QED
    BY <2>1, <2>2, <2>3
<1> QED
  BY <1>1, <1>2, PTL DEF I!Spec

\* The composed system implements TxIndex: the blocks it delivers and the
\* histories it preloads are among those TxIndex allows.
THEOREM IndexImplemented == PipelineSpec => ImplementsTxIndex
<1>1. PipelineInit => Init
  BY DEF PipelineInit
<1> QED
  BY <1>1, StepOfIndex, IndexerImplemented, SendsBlocks, PTL
  DEF PipelineSpec, ImplementsTxIndex, Spec

\* In the composed system an entry of transactionsByInMsgLT never dangles and
\* searchTxInCache never loses a transaction between its two loads.
THEOREM PipelineSearchFinds ==
    PipelineSpec => [](NoDanglingEntry /\ SearchNeverMisses)
BY IndexImplemented, EntriesNeverDangle, SearchFinds, PTL DEF ImplementsTxIndex

\* In the composed system run indexes all it should of every block the indexer
\* hands it before it takes the next.
THEOREM PipelineIndexesBlocks == PipelineSpec => []BlocksIndexed
BY IndexImplemented, NoBlockHalfIndexed, PTL DEF ImplementsTxIndex

-----------------------------------------------------------------------------
(* From end to end. *)

\* The indexer as IndexerProofs knows it.
P == INSTANCE IndexerProofs

LEMMA SameAssumptions == P!ChainAssumption /\ P!BoundsAssumption
BY OneChain DEF I!ChainAssumption, I!BoundsAssumption, I!Block, I!Master,
    P!ChainAssumption, P!BoundsAssumption, P!Block, P!Master

LEMMA SameInit == I!Init => P!Init
BY DEF I!Init, I!Channel, I!Empty, I!NoBlocks, I!Block, I!Master,
       P!Init, P!Channel, P!Empty, P!NoBlocks, P!Block, P!Master

LEMMA SameNext == [I!Next]_(I!vars) => [P!Next]_(P!vars)
<1> USE DEF I!envVars, I!anchorVars, I!chunkVars, I!buildVars, I!sendVars, I!vars,
            P!envVars, P!anchorVars, P!chunkVars, P!buildVars, P!sendVars, P!vars
<1>1. I!NodeApplies => P!NodeApplies
    BY DEF I!NodeApplies, P!NodeApplies
<1>2. I!GetMasterchainInfo => P!GetMasterchainInfo
    BY DEF I!GetMasterchainInfo, P!GetMasterchainInfo, I!Fault, P!Fault
<1>3. I!InitChunk => P!InitChunk
    BY DEF I!InitChunk, P!InitChunk, I!InitSeqno, P!InitSeqno
<1>4. I!InitChunkFails => P!InitChunkFails
    BY DEF I!InitChunkFails, P!InitChunkFails, I!InitSeqno, P!InitSeqno, I!Fault, P!Fault
<1>5. I!LookupNextMaster => P!LookupNextMaster
    BY DEF I!LookupNextMaster, P!LookupNextMaster, I!NoBlocks, P!NoBlocks,
           I!Block, P!Block, I!Master, P!Master
<1>6. ASSUME NEW b \in Shard, I!Resolve(b) PROVE P!Resolve(b)
    <2>1. I!ResolveKnown(b) => P!ResolveKnown(b)
        BY DEF I!ResolveKnown, P!ResolveKnown
    <2>2. I!ResolveFetched(b) => P!ResolveFetched(b)
        BY DEF I!ResolveFetched, P!ResolveFetched, I!MissingParents, P!MissingParents
    <2>3. I!ResolveNotInDb(b) => P!ResolveNotInDb(b)
        BY DEF I!ResolveNotInDb, P!ResolveNotInDb, I!Fault, P!Fault
    <2> QED
        BY <1>6, <2>1, <2>2, <2>3 DEF I!Resolve, P!Resolve
<1>7. I!ResolveFails => P!ResolveFails
    BY DEF I!ResolveFails, P!ResolveFails, I!Fault, P!Fault
<1>8. I!ChunkComplete => P!ChunkComplete
    BY DEF I!ChunkComplete, P!ChunkComplete, I!Empty, P!Empty
<1>9. ASSUME NEW b \in I!Block, I!PickBlock(b) PROVE b \in P!Block /\ P!PickBlock(b)
    BY <1>9 DEF I!PickBlock, P!PickBlock, I!Block, P!Block, I!Master, P!Master
<1>10. I!NextChunk => P!NextChunk
    BY DEF I!NextChunk, P!NextChunk, I!NoBlocks, P!NoBlocks, I!Block, P!Block,
           I!Master, P!Master
<1>11. I!Send => P!Send
    BY DEF I!Send, P!Send
<1> QED
    BY <1>1, <1>2, <1>3, <1>4, <1>5, <1>6, <1>7, <1>8, <1>9, <1>10, <1>11
    DEF I!Next, I!Internal, P!Next, P!Internal

LEMMA SameIndexer == I!Spec => P!Spec
BY SameInit, SameNext, PTL DEF I!Spec, P!Spec

\* What IndexerProofs proves of it, here.
LEMMA StreamComplete == P!Spec => [](P!TypeOK /\ P!NoneMissing)
BY SameAssumptions, P!NoneIsMissing

\* What was sent is what run received: nothing is on its way in between.
SameBlocks == received \in [1..1 -> Seq(BlockID)] /\ done = received[1]

LEMMA InitSameBlocks == PipelineInit => SameBlocks
<1> SUFFICES ASSUME PipelineInit PROVE SameBlocks
    OBVIOUS
<1>1. received = [c \in 1..1 |-> <<>>] /\ done = <<>>
    BY OneChannel DEF PipelineInit, Init, I!Init, I!Channel
<1>2. 1 \in 1..1
    OBVIOUS
<1> QED
    BY <1>1, <1>2 DEF SameBlocks

LEMMA NextSameBlocks ==
    SameBlocks /\ P!TypeOK /\ [PipelineNext]_pipelineVars => SameBlocks'
<1> SUFFICES ASSUME SameBlocks, P!TypeOK, [PipelineNext]_pipelineVars
             PROVE  SameBlocks'
    OBVIOUS
<1>1. CASE Deliver
    <2>1. ch = 1 /\ cur \in BlockID
        BY OneChannel, OneChain DEF P!TypeOK, P!Channel, P!Block, P!Master,
           I!Block, I!Master
    <2>2. /\ received' = [received EXCEPT ![ch] = Append(@, cur)]
          /\ done' = Append(done, cur)
        BY <1>1 DEF Deliver, I!Send, Receive
    <2>3. 1 \in 1..1 /\ received \in [1..1 -> Seq(BlockID)]
        BY DEF SameBlocks
    <2>4. Append(received[1], cur) \in Seq(BlockID)
        BY <2>1, <2>3
    <2>5. received' = [received EXCEPT ![1] = Append(received[1], cur)]
        BY <2>1, <2>2, <2>3
    <2> QED
        BY <2>2, <2>3, <2>4, <2>5 DEF SameBlocks
<1>2. CASE UNCHANGED <<received, done>>
    BY <1>2 DEF SameBlocks
<1>3. \/ Deliver
      \/ UNCHANGED <<received, done>>
    <2>1. CASE NodeApplies
        BY <2>1 DEF NodeApplies, I!NodeApplies, vars
    <2>2. CASE \E b \in PreloadBlocks : MainPreloadBlock(b)
        BY <2>2 DEF MainPreloadBlock, PreloadBlock, StartPreload, indexerVars
    <2>3. CASE \E a \in Tracked : MainPreloadAccount(a)
        BY <2>3 DEF MainPreloadAccount, PreloadAccount, StartPreload, indexerVars
    <2>4. CASE MainNextPhase
        BY <2>4 DEF MainNextPhase, NextPhase, indexerVars
    <2>5. CASE Follow
        <3>1. UNCHANGED done /\ I!Internal
            BY <2>5 DEF Follow, vars
        <3>2. UNCHANGED received
            BY <3>1 DEF I!Internal, I!GetMasterchainInfo,
               I!InitChunk, I!InitChunkFails, I!LookupNextMaster, I!Resolve,
               I!ResolveKnown, I!ResolveFetched, I!ResolveNotInDb, I!ResolveFails,
               I!ChunkComplete, I!PickBlock, I!NextChunk
        <3> QED
            BY <3>1, <3>2
    <2>6. CASE \E j \in Job : IndexTx(j)
        BY <2>6 DEF IndexTx, Index, StoreByHash, StoreByInMsg, Skip, AbortAccount,
           indexerVars
    <2>7. CASE \E r \in Reader : SearchTx(r)
        BY <2>7 DEF SearchTx, Search, LoadHash, LoadTx, indexerVars
    <2>8. CASE UNCHANGED pipelineVars
        BY <2>8 DEF pipelineVars, indexerVars, vars
    <2> QED
        BY <2>1, <2>2, <2>3, <2>4, <2>5, <2>6, <2>7, <2>8 DEF PipelineNext
<1> QED
    BY <1>1, <1>2, <1>3

\* A transaction has its block.
LEMMA BlockOfTx ==
    ASSUME NEW t \in Tx
    PROVE  /\ BlockOf(t) \in BlockID
           /\ \E i \in DOMAIN BlockTxs[BlockOf(t)] : BlockTxs[BlockOf(t)][i] = t
BY OneChain DEF BlockOf

\* The masterchain block that committed a transaction was delivered, so its block
\* was too, and run has been through it.
LEMMA DeliveredIsIndexed ==
    ASSUME SameBlocks, P!TypeOK, P!NoneMissing, BlocksIndexed, Idle("run"),
           NEW a \in Tracked, NEW t \in Convertible(a),
           Committed(t) > anchor, Committed(t) \in Delivered, lost = {}
    PROVE  t \in byHash
<1> DEFINE b == BlockOf(t)
<1>1. t \in Tx /\ AccountOf[t] \in Tracked /\ t \notin Malformed
    BY DEF Convertible
<1>2. b \in BlockID /\ \E i \in DOMAIN BlockTxs[b] : BlockTxs[b][i] = t
    BY <1>1, BlockOfTx
<1>3. t \in Indexable(b)
    BY <1>1, <1>2 DEF Indexable
<1>4. Delivered = P!Got(1) /\ 1 \in P!Channel
    BY OneChannel DEF Delivered, P!Got, P!Channel
<1>5. b \in Delivered
    <2>1. CASE b \in Shard
        <3>1. Committed(t) = CommittedAt[b]
            BY <2>1 DEF Committed, I!Commit
        <3> QED
            BY <1>4, <2>1, <3>1 DEF P!NoneMissing
    <2>2. CASE b \notin Shard
        BY <2>2 DEF Committed, I!Commit
    <2> QED
        BY <2>1, <2>2
<1>6. PICK i \in DOMAIN done : done[i] = b
    BY <1>5 DEF Delivered, SameBlocks
<1> QED
    BY <1>3, <1>6 DEF BlocksIndexed

\* End to end, whatever the interleaving of the two goroutines and the handlers:
\* no transaction of a watched account that was committed once the indexer had
\* anchored is missing when run is idle, if the node had all the blocks.
THEOREM NothingIsMissed == PipelineSpec => []NothingMissedSinceAnchor
<1>1. PipelineSpec => [](P!TypeOK /\ P!NoneMissing)
    BY IndexerImplemented, SameIndexer, StreamComplete, PTL
<1>2. PipelineSpec => []SameBlocks
    BY <1>1, InitSameBlocks, NextSameBlocks, PTL DEF PipelineSpec
<1>3. SameBlocks /\ P!TypeOK /\ P!NoneMissing /\ BlocksIndexed => NothingMissedSinceAnchor
    BY DeliveredIsIndexed DEF NothingMissedSinceAnchor
<1> QED
    BY <1>1, <1>2, <1>3, PipelineIndexesBlocks, PTL
=============================================================================
