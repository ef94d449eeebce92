---------------------------- MODULE StorageProofs ----------------------------
(***************************************************************************)
(* Proofs about parts of LiteStorage.                                      *)
(*                                                                         *)
(*   BlocksOfMaster  GetBlockIDsForMasterchain answers exactly the blocks  *)
(*       a masterchain block commits, for every chain that satisfies       *)
(*       ChainAssumption and ShardAssumption: what is left to walk and     *)
(*       what was found cover all there is, and of a shard that went on    *)
(*       the seqnos in between are its blocks (Line).                      *)
(*   StoppedForGood  once a call of Shutdown has returned, the config is   *)
(*       not updated any more, for any number of callers.                  *)
(*   TracesAreRight  the answer of GetTrace is the trace of the            *)
(*       transaction asked for, for every chain that satisfies             *)
(*       TraceAssumption: what the search is called with tells the other   *)
(*       end of a message (OtherEnd, NotIn), and every frame has, of the   *)
(*       messages it is done with, the traces they led to (FrameInv).      *)
(*       What a trace is is defined along logical time, which is bounded:  *)
(*       Root and Level from the root, Whole and Pruned from the leaves    *)
(*       (Upwards, Downwards).                                             *)
(***************************************************************************)
EXTENDS ShardDiff, TrimmedConfig, TraceSearch, IndexerProofs

-----------------------------------------------------------------------------
(* The blocks of a masterchain block. *)

Chunk(m) == {b \in Shard : CommittedAt[b] = m}
DiffAnswer == {Id("master", diff.master)} \cup {IdOf(b) : b \in Chunk(diff.master)}

\* Found, or to be asked about.
Covered(b) == IdOf(b) \in diff.result \/ b \in diff.todo

DiffFields == {"pc", "master", "todo", "result", "failed"}

DiffInv ==
    /\ DOMAIN diff = DiffFields
    /\ diff.master \in Master
    /\ diff.pc = "error" => diff.failed \/ diff.master = 0
    /\ diff.pc \in {"walk", "done"} =>
          /\ diff.master > 0
          /\ diff.todo \subseteq Chunk(diff.master) \cup Tops[diff.master - 1]
          /\ Id("master", diff.master) \in diff.result
          /\ diff.result \subseteq DiffAnswer
          /\ \A t \in Tops[diff.master] : t \in Chunk(diff.master) => Covered(t)
          /\ \A c \in Chunk(diff.master) : IdOf(c) \in diff.result =>
                \A p \in Parents[c] : p \in Chunk(diff.master) => Covered(p)
    /\ diff.pc = "done" => diff.todo = {}

\* What DiffSet does to the fields.
LEMMA DiffSetFields ==
    ASSUME NEW fields, DOMAIN diff = DiffFields, DiffSet(fields)
    PROVE  /\ DOMAIN diff' = DiffFields
           /\ \A f \in DiffFields :
                diff'[f] = IF f \in DOMAIN fields THEN fields[f] ELSE diff[f]
BY DEF DiffSet

\* Blocks are known by their ids, and none has that of a masterchain block.
LEMMA Ids ==
    /\ \A b, c \in Shard : IdOf(b) = IdOf(c) => b = c
    /\ \A b \in Shard : \A s : IdOf(b) # Id("master", s)
    /\ \A b \in Shard : \A shard, s :
          IdOf(b) = Id(shard, s) <=> ShardOf[b] = shard /\ SeqnoOf[b] = s
BY ShardAssumption DEF IdOf, Id

\* The tops of the block before m, and the parents of what m commits.
LEMMA Borders ==
    ASSUME NEW m \in Master, m > 0
    PROVE  /\ m - 1 \in Master /\ Tops[m] \subseteq Shard /\ Tops[m - 1] \subseteq Shard
           /\ Chunk(m) \cap Tops[m - 1] = {}
           /\ Tops[m] \subseteq Chunk(m) \cup Tops[m - 1]
           /\ \A b \in Chunk(m) : Parents[b] \subseteq Chunk(m) \cup Tops[m - 1]
<1>1. m \in Nat /\ m - 1 \in Master /\ m \in Int
    BY Numbers DEF Master
<1>2. Tops[m] \subseteq Shard /\ Tops[m - 1] \subseteq Shard
    BY <1>1, Sets
<1>3. \A t \in Tops[m - 1] : CommittedAt[t] \in Nat /\ CommittedAt[t] <= m - 1
    BY <1>1, TopFacts
<1>4. ASSUME NEW t \in Tops[m] PROVE t \in Chunk(m) \cup Tops[m - 1]
    BY <1>1, TopFacts DEF Chunk
<1>5. ASSUME NEW b \in Chunk(m), NEW p \in Parents[b]
      PROVE  p \in Chunk(m) \cup Tops[m - 1]
    BY <1>1, ParentFacts DEF Chunk
<1> QED
    BY <1>1, <1>2, <1>3, <1>4, <1>5 DEF Chunk

\* A block that a shard with top p got since: the shard went on in one line, all of
\* whose seqnos are blocks of m.
Line(m, p, b) ==
    /\ SeqnoOf[p] < SeqnoOf[b]
    /\ \A s \in SeqnoOf[p] + 1..SeqnoOf[b] :
          \E c \in Chunk(m) : ShardOf[c] = ShardOf[p] /\ SeqnoOf[c] = s

\* Its parent is in that line, or is p.
LEMMA ParentInShard ==
    ASSUME NEW m \in Master, m > 0, NEW p \in Tops[m - 1], NEW b \in Chunk(m),
           ShardOf[b] = ShardOf[p]
    PROVE  \E q \in Shard : /\ Parents[b] = {q} /\ ShardOf[q] = ShardOf[p]
                            /\ SeqnoOf[b] = SeqnoOf[q] + 1
                            /\ q \in Chunk(m) \/ q = p
<1>1. PICK q \in Shard : /\ Parents[b] = {q} /\ ShardOf[q] = ShardOf[b]
                         /\ SeqnoOf[b] = SeqnoOf[q] + 1
    BY ShardAssumption DEF Chunk
<1>2. q \in Chunk(m) \/ q \in Tops[m - 1]
    BY <1>1, Borders
<1>3. q \in Tops[m - 1] => q = p
    BY <1>1, Borders, ShardAssumption
<1> QED
    BY <1>1, <1>2, <1>3

LEMMA ShardGrows ==
    ASSUME NEW m \in Master, m > 0, NEW p \in Tops[m - 1]
    PROVE  \A b \in Chunk(m) : ShardOf[b] = ShardOf[p] => Line(m, p, b)
<1> DEFINE S == {b \in Chunk(m) : ShardOf[b] = ShardOf[p] /\ ~Line(m, p, b)}
<1>1. SUFFICES ASSUME S # {} PROVE FALSE
    OBVIOUS
<1>2. SeqnoOf[p] \in Nat /\ \A b \in Shard : SeqnoOf[b] \in Nat
    BY Borders, ShardAssumption
<1>3. PICK b \in S : \A d \in S : SeqnoOf[b] <= SeqnoOf[d]
    <2>1. \A d \in S : SeqnoOf[d] \in Nat
        BY <1>2 DEF Chunk
    <2> HIDE DEF S
    <2> QED
        BY <1>1, <2>1, Least
<1>4. PICK q \in Shard : /\ ShardOf[q] = ShardOf[p]
                         /\ SeqnoOf[b] = SeqnoOf[q] + 1
                         /\ q \in Chunk(m) \/ q = p
    BY <1>3, ParentInShard
<1>5. SeqnoOf[b] \in Nat /\ SeqnoOf[q] \in Nat
    BY <1>2, <1>3 DEF Chunk
<1>6. q # p => Line(m, p, q)
    <2>1. q \notin S
        BY <1>3, <1>4, <1>5
    <2> QED
        BY <1>4, <2>1
<1>7. SeqnoOf[p] < SeqnoOf[b]
    BY <1>2, <1>4, <1>5, <1>6 DEF Line
<1>8. ASSUME NEW s \in SeqnoOf[p] + 1..SeqnoOf[b]
      PROVE  \E c \in Chunk(m) : ShardOf[c] = ShardOf[p] /\ SeqnoOf[c] = s
    <2>1. CASE s = SeqnoOf[b]
        BY <1>3, <2>1
    <2>2. CASE s # SeqnoOf[b]
        <3>1. s \in SeqnoOf[p] + 1..SeqnoOf[q] /\ q # p
            BY <1>2, <1>4, <1>5, <2>2
        <3> QED
            BY <1>6, <3>1 DEF Line
    <2> QED
        BY <2>1, <2>2
<1> QED
    BY <1>3, <1>7, <1>8 DEF Line

\* What findMissedBlocks takes when it is at a shard of the block before.
LEMMA AfterTopFacts ==
    ASSUME NEW m \in Master, m > 0, diff.master = m, NEW b \in Chunk(m) \cup Tops[m - 1],
           NEW p \in TopBefore(b)
    PROVE  /\ SeqnoOf[p] <= SeqnoOf[b]
           /\ AfterTop(p, b) \subseteq {IdOf(c) : c \in Chunk(m)}
           /\ b \in Chunk(m) => IdOf(b) \in AfterTop(p, b)
           /\ \A c \in Chunk(m) : IdOf(c) \in AfterTop(p, b) =>
                 \A q \in Parents[c] : q \in Chunk(m) => IdOf(q) \in AfterTop(p, b)
<1>1. p \in Tops[m - 1] /\ ShardOf[p] = ShardOf[b]
    BY DEF TopBefore
<1>2. /\ b \in Shard /\ p \in Shard /\ SeqnoOf[p] \in Nat /\ SeqnoOf[b] \in Nat
      /\ \A c \in Chunk(m) : c \in Shard /\ SeqnoOf[c] \in Nat
    BY <1>1, Borders, ShardAssumption DEF Chunk
<1>3. b \in Chunk(m) => Line(m, p, b)
    BY <1>1, ShardGrows
<1>4. b \notin Chunk(m) => b = p
    BY <1>1, Borders, ShardAssumption
<1>5. SeqnoOf[p] <= SeqnoOf[b] /\ (b \notin Chunk(m) => AfterTop(p, b) = {})
    BY <1>2, <1>3, <1>4 DEF Line, AfterTop
<1>6. \A c \in Shard : IdOf(c) \in AfterTop(p, b) <=>
          ShardOf[c] = ShardOf[b] /\ SeqnoOf[c] \in SeqnoOf[p] + 1..SeqnoOf[b]
    BY Ids DEF AfterTop
<1>7. ASSUME NEW s \in SeqnoOf[p] + 1..SeqnoOf[b]
      PROVE  Id(ShardOf[b], s) \in {IdOf(c) : c \in Chunk(m)}
    <2>1. b \in Chunk(m)
        BY <1>2, <1>4
    <2>2. PICK c \in Chunk(m) : ShardOf[c] = ShardOf[p] /\ SeqnoOf[c] = s
        BY <1>3, <2>1 DEF Line
    <2>3. IdOf(c) = Id(ShardOf[b], s)
        BY <1>1, <2>2 DEF IdOf
    <2> QED
        BY <2>3
<1>8. b \in Chunk(m) => IdOf(b) \in AfterTop(p, b)
    BY <1>2, <1>3, <1>6 DEF Line
<1>9. ASSUME NEW c \in Chunk(m), IdOf(c) \in AfterTop(p, b), NEW q \in Parents[c],
             q \in Chunk(m)
      PROVE  IdOf(q) \in AfterTop(p, b)
    <2>1. ShardOf[c] = ShardOf[p] /\ SeqnoOf[c] \in SeqnoOf[p] + 1..SeqnoOf[b]
        BY <1>1, <1>2, <1>6, <1>9
    <2>2. ShardOf[q] = ShardOf[p] /\ SeqnoOf[c] = SeqnoOf[q] + 1
        BY <1>1, <2>1, ParentInShard
    <2>3. SeqnoOf[p] < SeqnoOf[q]
        BY <1>1, <1>9, <2>2, ShardGrows DEF Line
    <2>4. SeqnoOf[q] \in SeqnoOf[p] + 1..SeqnoOf[b]
        BY <1>2, <1>9, <2>1, <2>2, <2>3
    <2> QED
        BY <1>1, <1>2, <1>6, <1>9, <2>2, <2>4
<1> QED
    BY <1>5, <1>7, <1>8, <1>9 DEF AfterTop

LEMMA InitDiffInv == DiffInit => DiffInv
<1> SUFFICES ASSUME DiffInit PROVE DiffInv
    OBVIOUS
<1>1. 0 \in Master
    BY Numbers DEF Master
<1> QED
    BY <1>1 DEF DiffInit, DiffInv, DiffFields

\* A call fails, or there is no block before.
LEMMA DiffErrorStep ==
    ASSUME DiffInv, (DiffSet([pc |-> "error"]) /\ diff.master = 0) \/ CallFails
    PROVE  DiffInv'
<1>1. CASE DiffSet([pc |-> "error"]) /\ diff.master = 0
    <2>1. /\ DOMAIN diff' = DiffFields /\ diff'.pc = "error"
          /\ diff'.master = diff.master
        BY <1>1, DiffSetFields DEF DiffInv, DiffFields
    <2> QED
        BY <1>1, <2>1 DEF DiffInv
<1>2. CASE CallFails
    <2>1. /\ DOMAIN diff' = DiffFields /\ diff'.pc = "error"
          /\ diff'.master = diff.master /\ diff'.failed
        BY <1>2, DiffSetFields DEF CallFails, DiffInv, DiffFields
    <2> QED
        BY <2>1 DEF DiffInv
<1> QED
    BY <1>1, <1>2

LEMMA AskBlocksStep ==
    ASSUME DiffInv, NEW m \in 0..MaxSeqno, AskBlocks(m) PROVE DiffInv'
<1>1. DOMAIN diff' = DiffFields /\ diff'.pc = "tops" /\ diff'.master = m
    BY DiffSetFields DEF AskBlocks, DiffInv, DiffFields
<1> QED
    BY <1>1 DEF DiffInv, Master

LEMMA GetTopsStep == ASSUME DiffInv, GetTops PROVE DiffInv'
<1> DEFINE m == diff.master
<1>1. CASE m # 0 /\ DiffSet([pc |-> "walk", todo |-> Tops[m],
                             result |-> {Id("master", m)}])
    <2>1. /\ DOMAIN diff' = DiffFields /\ diff'.pc = "walk" /\ diff'.master = m
          /\ diff'.todo = Tops[m] /\ diff'.result = {Id("master", m)}
        BY <1>1, DiffSetFields DEF DiffInv, DiffFields
    <2>2. m \in Master /\ m > 0
        BY <1>1 DEF DiffInv, Master
    <2>3. Tops[m] \subseteq Chunk(m) \cup Tops[m - 1]
        BY <2>2, Borders
    <2>4. \A c \in Chunk(m) : IdOf(c) \notin diff'.result
        BY <2>1, Ids DEF Chunk
    <2> QED
        BY <2>1, <2>2, <2>3, <2>4 DEF DiffInv, DiffAnswer, Covered, Chunk
<1> QED
    BY <1>1, DiffErrorStep DEF GetTops

\* A step of the walk: b is done with, and what took its place covers it.
LEMMA WalkStep ==
    ASSUME DiffInv, diff.pc = "walk", NEW b \in diff.todo,
           DOMAIN diff' = DiffFields, diff'.pc = "walk", diff'.master = diff.master,
           diff.todo \ {b} \subseteq diff'.todo, diff.result \subseteq diff'.result,
           diff'.todo \subseteq Chunk(diff.master) \cup Tops[diff.master - 1],
           diff'.result \subseteq diff.result \cup {IdOf(c) : c \in Chunk(diff.master)},
           b \in Chunk(diff.master) => IdOf(b) \in diff'.result,
           \A c \in Chunk(diff.master) :
              IdOf(c) \in diff'.result /\ IdOf(c) \notin diff.result =>
                 \A p \in Parents[c] : p \in Chunk(diff.master) =>
                    IdOf(p) \in diff'.result \/ p \in diff'.todo
    PROVE  DiffInv'
<1> DEFINE m == diff.master
<1>1. \A c \in Chunk(m) : Covered(c) => Covered(c)'
    BY DEF Covered, IdOf, Id
<1>2. diff'.result \subseteq DiffAnswer'
    BY DEF DiffInv, DiffAnswer, Chunk, IdOf, Id
<1>3. \A t \in Tops[m] : t \in Chunk(m) => Covered(t)'
    BY <1>1 DEF DiffInv
<1>4. ASSUME NEW c \in Chunk(m), IdOf(c) \in diff'.result, NEW p \in Parents[c],
             p \in Chunk(m)
      PROVE  Covered(p)'
    <2>1. CASE IdOf(c) \in diff.result
        BY <1>1, <1>4, <2>1 DEF DiffInv
    <2>2. CASE IdOf(c) \notin diff.result
        BY <1>4, <2>2 DEF Covered, IdOf, Id
    <2> QED
        BY <2>1, <2>2
<1> QED
    BY <1>2, <1>3, <1>4 DEF DiffInv, Chunk, IdOf, Id

LEMMA FindStep ==
    ASSUME DiffInv, NEW b \in Shard, FindMissedBlocks(b) PROVE DiffInv'
<1> DEFINE m == diff.master
<1>1. /\ diff.pc = "walk" /\ b \in diff.todo /\ m \in Master /\ m > 0
      /\ b \in Chunk(m) \cup Tops[m - 1] /\ DOMAIN diff = DiffFields
    BY DEF FindMissedBlocks, DiffAt, DiffInv
<1>2. ASSUME NEW p \in TopBefore(b),
             DiffSet([todo |-> diff.todo \ {b}, result |-> diff.result \cup AfterTop(p, b)])
      PROVE  DiffInv'
    <2>1. /\ DOMAIN diff' = DiffFields /\ diff'.pc = "walk" /\ diff'.master = m
          /\ diff'.todo = diff.todo \ {b}
          /\ diff'.result = diff.result \cup AfterTop(p, b)
        BY <1>1, <1>2, DiffSetFields DEF DiffFields
    <2>2. /\ AfterTop(p, b) \subseteq {IdOf(c) : c \in Chunk(m)}
          /\ b \in Chunk(m) => IdOf(b) \in AfterTop(p, b)
          /\ \A c \in Chunk(m) : IdOf(c) \in AfterTop(p, b) =>
                \A q \in Parents[c] : q \in Chunk(m) => IdOf(q) \in AfterTop(p, b)
        BY <1>1, AfterTopFacts
    <2> QED
        BY <1>1, <2>1, <2>2, WalkStep DEF DiffInv
<1>3. ASSUME TopBefore(b) = {},
             DiffSet([todo |-> (diff.todo \ {b}) \cup Parents[b],
                      result |-> diff.result \cup {IdOf(b)}])
      PROVE  DiffInv'
    <2>1. b \in Chunk(m)
        BY <1>1, <1>3 DEF TopBefore
    <2>2. Parents[b] \subseteq Chunk(m) \cup Tops[m - 1]
        BY <1>1, <2>1, Borders
    <2>3. \A c \in Chunk(m) : IdOf(c) \in {IdOf(b)} => c = b
        BY <2>1, Ids DEF Chunk
    <2>4. /\ DOMAIN diff' = DiffFields /\ diff'.pc = "walk" /\ diff'.master = m
          /\ diff'.todo = (diff.todo \ {b}) \cup Parents[b]
          /\ diff'.result = diff.result \cup {IdOf(b)}
        BY <1>1, <1>3, DiffSetFields DEF DiffFields
    <2> QED
        BY <1>1, <2>1, <2>2, <2>3, <2>4, WalkStep DEF DiffInv
<1> QED
    BY <1>2, <1>3, DiffErrorStep DEF FindMissedBlocks

LEMMA ReturnsStep == ASSUME DiffInv, DiffReturns PROVE DiffInv'
<1>1. /\ diff.pc = "walk" /\ diff.todo = {}
      /\ DOMAIN diff' = DiffFields /\ diff'.pc = "done" /\ diff'.master = diff.master
      /\ diff'.todo = diff.todo /\ diff'.result = diff.result
    BY DiffSetFields DEF DiffReturns, DiffAt, DiffInv, DiffFields
<1>2. \A b : Covered(b)' <=> Covered(b)
    BY <1>1 DEF Covered, IdOf, Id
<1> QED
    BY <1>1, <1>2 DEF DiffInv, DiffAnswer, Chunk, IdOf, Id

LEMMA NextDiffInv == DiffInv /\ [DiffNext]_diff => DiffInv'
<1> SUFFICES ASSUME DiffInv, [DiffNext]_diff PROVE DiffInv'
    OBVIOUS
<1>1. CASE UNCHANGED diff
    BY <1>1 DEF DiffInv, DiffAnswer, Covered, Chunk, IdOf, Id
<1> QED
    BY <1>1, AskBlocksStep, GetTopsStep, FindStep, ReturnsStep DEF DiffNext, GetBlockIDs

\* When there is nothing left to walk, what was found is closed, so it is all.
LEMMA DiffInvIsEnough == DiffInv => DiffIsTheChunk
<1> SUFFICES ASSUME DiffInv PROVE DiffIsTheChunk
    OBVIOUS
<1> DEFINE m == diff.master
<1>1. ASSUME diff.pc = "done" PROVE diff.result = DiffAnswer
    <2> DEFINE S == {b \in Shard : IdOf(b) \in diff.result}
    <2>1. \A b : Covered(b) <=> IdOf(b) \in diff.result
        BY <1>1 DEF DiffInv, Covered
    <2>2. m \in Master /\ Tops[m] \subseteq Shard /\ \A c \in Shard : Parents[c] \subseteq Shard
        BY Sets, ParentFacts DEF DiffInv
    <2>3. \A t \in Tops[m] : CommittedAt[t] = m => t \in S
        BY <1>1, <2>1, <2>2 DEF DiffInv, Chunk
    <2>4. \A c \in Shard : \A p \in Parents[c] :
              c \in S /\ CommittedAt[c] = m /\ CommittedAt[p] = m => p \in S
        BY <1>1, <2>1, <2>2 DEF DiffInv, Chunk
    <2>5. \A b \in Shard : CommittedAt[b] = m => b \in S
        <3> HIDE DEF S
        <3> QED
            BY <2>2, <2>3, <2>4, ClosedIsWhole
    <2> QED
        BY <1>1, <2>5 DEF DiffInv, DiffAnswer, Chunk
<1>2. ASSUME diff.pc = "walk", NEW b \in diff.todo, NEW p \in TopBefore(b)
      PROVE  SeqnoOf[p] <= SeqnoOf[b]
    BY <1>2, AfterTopFacts DEF DiffInv
<1>3. diff.pc = "error" => diff.failed \/ diff.master = 0
    BY DEF DiffInv
<1> QED
    BY <1>1, <1>2, <1>3 DEF DiffIsTheChunk, DiffAt, DiffAnswer, Chunk

\* Through splits, merges and idle shards GetBlockIDsForMasterchain answers the
\* blocks a masterchain block commits and no others, and its difference of seqnos
\* never wraps around.
THEOREM BlocksOfMaster == DiffSpec => []DiffIsTheChunk
BY InitDiffInv, NextDiffInv, DiffInvIsEnough, PTL DEF DiffSpec

-----------------------------------------------------------------------------
(* The trimmed config. *)

\* A caller is done when the goroutine has met it in its select, and ended.
ShutdownInv ==
    /\ stoppers \in [Stopper -> {"idle", "send", "done"}]
    /\ "pc" \in DOMAIN updater
    /\ ShutdownStopsUpdates

LEMMA NextShutdownInv == ShutdownInv /\ [ConfigNext]_configVars => ShutdownInv'
<1> SUFFICES ASSUME ShutdownInv, [ConfigNext]_configVars PROVE ShutdownInv'
    OBVIOUS
<1> USE DEF ShutdownInv, ShutdownStopsUpdates
<1>1. CASE RunBlockchainConfigUpdate
    BY <1>1 DEF RunBlockchainConfigUpdate, Timeout, UpdateFails, UpdateFetched, UpdateStored
<1>2. ASSUME NEW s \in Stopper, Shutdown(s) PROVE ShutdownInv'
    BY <1>2 DEF Shutdown
<1>3. ASSUME NEW s \in Stopper, Stop(s) PROVE ShutdownInv'
    BY <1>3 DEF Stop
<1>4. ASSUME NEW r \in Reader, TrimmedConfigBase64(r) PROVE ShutdownInv'
    BY <1>4 DEF TrimmedConfigBase64, Read, ReadFails, ReadFetched, ReadStored
<1>5. CASE KeyBlock
    BY <1>5 DEF KeyBlock
<1>6. CASE UNCHANGED configVars
    BY <1>6 DEF configVars
<1> QED
    BY <1>1, <1>2, <1>3, <1>4, <1>5, <1>6 DEF ConfigNext

\* Shutdown returns after the goroutine that updates the config has ended, however
\* many callers there are and whatever the goroutine was waiting for.
THEOREM StoppedForGood == ConfigSpec => []ShutdownStopsUpdates
<1>1. ConfigInit => ShutdownInv
    BY DEF ConfigInit, ShutdownInv, ShutdownStopsUpdates
<1>2. ShutdownInv => ShutdownStopsUpdates
    BY DEF ShutdownInv
<1> QED
    BY <1>1, <1>2, NextShutdownInv, PTL DEF ConfigSpec

-----------------------------------------------------------------------------
(* The trace of a transaction. *)

\* What holds of 0 and of a number's successor holds of every number.
LEMMA EveryNumber ==
    ASSUME NEW S, 0 \in S, \A n \in Nat : n \in S => n + 1 \in S
    PROVE  Nat \subseteq S
<1> DEFINE R == OpToRel(<, Nat)
           T == Nat \ S
<1>1. SUFFICES ASSUME T # {} PROVE FALSE
    OBVIOUS
<1>2. \A i, j \in Nat : i < j => <<i, j>> \in R
    BY DEF OpToRel
<1>3. \E n \in T : \A k \in T : <<k, n>> \notin R
    <2>1. IsWellFoundedOn(R, Nat) /\ T \subseteq Nat
        BY NatLessThanWellFounded
    <2> HIDE DEF R, T
    <2> QED
        BY <1>1, <2>1, WFMin
<1>4. PICK n \in T : \A k \in T : ~(k < n)
    BY <1>2, <1>3
<1>5. n # 0 /\ n - 1 \in Nat /\ n - 1 < n
    BY <1>4
<1>6. n - 1 \in S
    BY <1>4, <1>5
<1>7. n - 1 + 1 = n
    BY <1>5
<1> QED
    BY <1>4, <1>5, <1>6, <1>7

-----------------------------------------------------------------------------
(* The chain: a trace is a tree, along which logical time grows. *)

Rank(t) == IF InMsg[t] = None THEN 0 ELSE CreatedLt[InMsg[t]] + 1
LastRank == MaxLt + 1

\* A message of t, which led to u.
LedFrom(t, u) == InMsg[u] # None /\ Sends(t, InMsg[u])

\* What the chain guarantees of the message a transaction got, of those it
\* sent, and of where it is.
LEMMA InMsgs ==
    \A t \in Tx : InMsg[t] # None =>
        /\ InMsg[t] \in Msg
        /\ Destination[InMsg[t]] = AccountOf[t]
        /\ \A u \in Tx : InMsg[u] = InMsg[t] => u = t
        /\ CreatedLt[InMsg[t]] \in 0..MaxLt
        /\ \E p \in Tx : Sends(p, InMsg[t])
BY TraceAssumption

LEMMA Senders ==
    ASSUME NEW t \in Tx, NEW m \in Msg, Sends(t, m)
    PROVE  /\ Source[m] = AccountOf[t]
           /\ InMsg[t] # None => CreatedLt[InMsg[t]] < CreatedLt[m]
           /\ \A u \in Tx : Sends(u, m) => u = t
           /\ \A u \in Tx : \A n \in Msg :
                Sends(u, n) /\ AccountOf[u] = AccountOf[t] /\ CreatedLt[n] = CreatedLt[m] => n = m
           /\ CreatedLt[m] \in 0..MaxLt
BY TraceAssumption

LEMMA Blocks ==
    \A t \in Tx : /\ BlockOf[t].seqno \in Nat
                 /\ BlockOf[t] = [shard |-> BlockOf[t].shard, seqno |-> BlockOf[t].seqno]
BY TraceAssumption

\* The lt of what a transaction got grows along a trace, and is bounded.
LEMMA Ranks ==
    /\ LastRank \in Nat
    /\ \A t \in Tx : Rank(t) \in 0..LastRank
    /\ \A t, u \in Tx : LedFrom(t, u) => t = Parent(u) /\ Rank(t) < Rank(u)
    /\ \A u \in Tx : InMsg[u] # None => Parent(u) \in Tx /\ LedFrom(Parent(u), u)
<1>1. MaxLt \in Nat
    BY TraceAssumption
<1>2. ASSUME NEW t \in Tx PROVE Rank(t) \in 0..LastRank
    <2>1. InMsg[t] # None => CreatedLt[InMsg[t]] \in 0..MaxLt
        BY InMsgs
    <2> QED
        BY <1>1, <2>1 DEF Rank, LastRank
<1>3. \A u \in Tx : InMsg[u] # None => Parent(u) \in Tx /\ LedFrom(Parent(u), u)
    BY InMsgs DEF Parent, LedFrom
<1>4. ASSUME NEW t \in Tx, NEW u \in Tx, LedFrom(t, u)
      PROVE  t = Parent(u) /\ Rank(t) < Rank(u)
    <2>1. InMsg[u] \in Msg /\ CreatedLt[InMsg[u]] \in 0..MaxLt
        BY <1>4, InMsgs DEF LedFrom
    <2>2. t = Parent(u)
        BY <1>3, <1>4, <2>1, Senders DEF LedFrom
    <2>3. InMsg[t] # None => CreatedLt[InMsg[t]] < CreatedLt[InMsg[u]]
        BY <1>4, <2>1, Senders DEF LedFrom
    <2>4. InMsg[t] # None => CreatedLt[InMsg[t]] \in 0..MaxLt
        BY InMsgs
    <2> QED
        BY <1>1, <1>4, <2>1, <2>2, <2>3, <2>4 DEF Rank, LedFrom
<1> QED
    BY <1>1, <1>2, <1>3, <1>4 DEF LastRank

\* What holds of a transaction if it does of its parent holds of all.
LEMMA FromTheRoot ==
    ASSUME NEW S, \A t \in Tx : (InMsg[t] # None => Parent(t) \in S) => t \in S
    PROVE  Tx \subseteq S
<1> DEFINE N == {n \in Nat : \A t \in Tx : Rank(t) <= n => t \in S}
<1>1. 0 \in N
    BY Ranks
<1>2. ASSUME NEW n \in Nat, n \in N PROVE n + 1 \in N
    BY <1>2, Ranks
<1>3. Nat \subseteq N
    <2> HIDE DEF N
    <2> QED
        BY <1>1, <1>2, EveryNumber
<1> QED
    BY <1>3, Ranks

\* What holds of a transaction if it does of those it led to holds of all.
LEMMA FromTheLeaves ==
    ASSUME NEW S, \A t \in Tx : (\A u \in Tx : LedFrom(t, u) => u \in S) => t \in S
    PROVE  Tx \subseteq S
<1> DEFINE N == {n \in Nat : \A t \in Tx : LastRank - Rank(t) <= n => t \in S}
<1>1. 0 \in N
    BY Ranks
<1>2. ASSUME NEW n \in Nat, n \in N PROVE n + 1 \in N
    BY <1>2, Ranks
<1>3. Nat \subseteq N
    <2> HIDE DEF N
    <2> QED
        BY <1>1, <1>2, EveryNumber
<1> QED
    BY <1>3, Ranks

\* A function may be defined along the way to the root.
LEMMA Upwards ==
    ASSUME NEW U, NEW b \in [Tx -> U], NEW s \in [U -> U]
    PROVE  \E g : /\ g = [t \in Tx |-> IF InMsg[t] = None THEN b[t] ELSE s[g[Parent(t)]]]
                  /\ g \in [Tx -> U]
<1> DEFINE Upto(n) == {t \in Tx : Rank(t) < n}
           More(g, t) == IF InMsg[t] = None THEN b[t] ELSE s[g[Parent(t)]]
           Def(g, n) == g = [t \in Upto(n) |-> More(g, t)]
           N == {n \in Nat : \E g : Def(g, n)}
<1>r. \A n \in Nat : \A t \in Upto(n + 1) : InMsg[t] # None => Parent(t) \in Upto(n)
    BY Ranks
<1>u. \A n \in Nat : Upto(n) \subseteq Upto(n + 1)
    BY Ranks
<1>1. 0 \in N
    <2>1. Upto(0) = {}
        BY Ranks
    <2> DEFINE g == [t \in Upto(0) |-> 0]
    <2>2. Def(g, 0)
        <3> HIDE DEF Upto, More
        <3> QED
            BY <2>1
    <2> HIDE DEF Def
    <2> QED
        BY <2>2
<1>2. ASSUME NEW n \in Nat, n \in N PROVE n + 1 \in N
    <2>1. PICK g : Def(g, n)
        BY <1>2
    <2> DEFINE h == [t \in Upto(n + 1) |-> More(g, t)]
    <2>2. \A t \in Upto(n) : h[t] = g[t]
        <3> HIDE DEF Upto, More
        <3> QED
            BY <1>u, <2>1
    <2>3. \A t \in Upto(n + 1) : More(h, t) = More(g, t)
        <3> HIDE DEF h, Upto
        <3> QED
            BY <1>r, <2>2
    <2>4. Def(h, n + 1)
        <3> HIDE DEF Upto, More
        <3> QED
            BY <2>3
    <2> HIDE DEF Def, h
    <2> QED
        BY <2>4
<1>3. LastRank + 1 \in N
    <2>1. LastRank + 1 \in Nat
        BY Ranks
    <2> HIDE DEF N
    <2> QED
        BY <1>1, <1>2, <2>1, EveryNumber
<1>4. Upto(LastRank + 1) = Tx
    BY Ranks
<1>5. PICK g : g = [t \in Tx |-> More(g, t)]
    <2> HIDE DEF More, Upto
    <2> QED
        BY <1>3, <1>4
<1> DEFINE S == {t \in Tx : g[t] \in U}
<1>6. Tx \subseteq S
    <2>1. \A t \in Tx : (InMsg[t] # None => Parent(t) \in S) => t \in S
        BY <1>5
    <2> HIDE DEF S
    <2> QED
        BY <2>1, FromTheRoot
<1> QED
    BY <1>5, <1>6

\* So the root of a transaction is a function, whatever the chain.
LEMMA Roots ==
    /\ \A t \in Tx : Root[t] = IF InMsg[t] = None THEN t ELSE Root[Parent(t)]
    /\ \A t \in Tx : Root[t] \in Tx
<1> DEFINE id == [t \in Tx |-> t]
           Def(g) == g = [t \in Tx |-> IF InMsg[t] = None THEN t ELSE g[Parent(t)]]
<1>1. PICK g : /\ g = [t \in Tx |-> IF InMsg[t] = None THEN id[t] ELSE id[g[Parent(t)]]]
               /\ g \in [Tx -> Tx]
    <2>1. id \in [Tx -> Tx]
        OBVIOUS
    <2> HIDE DEF id
    <2> QED
        BY <2>1, Upwards
<1>2. Def(g)
    <2>1. \A t \in Tx : InMsg[t] # None => id[g[Parent(t)]] = g[Parent(t)]
        BY <1>1, Ranks
    <2> QED
        BY <1>1, <2>1
<1>3. Def(Root)
    <2> HIDE DEF Def
    <2>1. Root = CHOOSE f : Def(f)
        BY DEF Root, Def
    <2> QED
        BY <1>2, <2>1
<1> DEFINE S == {t \in Tx : Root[t] \in Tx}
<1>4. \A t \in Tx : Root[t] = IF InMsg[t] = None THEN t ELSE Root[Parent(t)]
    BY <1>3
<1>5. Tx \subseteq S
    <2>1. \A t \in Tx : (InMsg[t] # None => Parent(t) \in S) => t \in S
        BY <1>4
    <2> HIDE DEF S
    <2> QED
        BY <2>1, FromTheRoot
<1> QED
    BY <1>4, <1>5

\* And how far below its root a transaction is.
LEMMA Levels ==
    /\ \A t \in Tx : Level[t] = IF InMsg[t] = None THEN 0 ELSE 1 + Level[Parent(t)]
    /\ \A t \in Tx : Level[t] \in Nat
<1> DEFINE zero == [t \in Tx |-> 0]
           next == [n \in Nat |-> 1 + n]
           Def(g) == g = [t \in Tx |-> IF InMsg[t] = None THEN 0 ELSE 1 + g[Parent(t)]]
<1>1. PICK g : /\ g = [t \in Tx |-> IF InMsg[t] = None THEN zero[t] ELSE next[g[Parent(t)]]]
               /\ g \in [Tx -> Nat]
    <2> DEFINE U == Nat
    <2>1. zero \in [Tx -> U] /\ next \in [U -> U]
        OBVIOUS
    <2> HIDE DEF zero, next, U
    <2> SUFFICES \E g : /\ g = [t \in Tx |-> IF InMsg[t] = None THEN zero[t] ELSE next[g[Parent(t)]]]
                       /\ g \in [Tx -> U]
        BY DEF U
    <2> QED
        BY <2>1, Upwards
<1>2. Def(g)
    <2>1. \A t \in Tx : InMsg[t] # None => next[g[Parent(t)]] = 1 + g[Parent(t)]
        BY <1>1, Ranks
    <2> QED
        BY <1>1, <2>1
<1>3. Def(Level)
    <2> HIDE DEF Def
    <2>1. Level = CHOOSE f : Def(f)
        BY DEF Level, Def
    <2> QED
        BY <1>2, <2>1
<1> DEFINE S == {t \in Tx : Level[t] \in Nat}
<1>4. \A t \in Tx : Level[t] = IF InMsg[t] = None THEN 0 ELSE 1 + Level[Parent(t)]
    BY <1>3
<1>5. Tx \subseteq S
    <2>1. \A t \in Tx : (InMsg[t] # None => Parent(t) \in S) => t \in S
        BY <1>4
    <2> HIDE DEF S
    <2> QED
        BY <2>1, FromTheRoot
<1> QED
    BY <1>4, <1>5

\* A message stays in the trace of its sender, one level down.
LEMMA Below ==
    ASSUME NEW t \in Tx, NEW u \in Tx, LedFrom(t, u)
    PROVE  Root[u] = Root[t] /\ Level[u] = Level[t] + 1
BY Ranks, Roots, Levels DEF LedFrom

-----------------------------------------------------------------------------
(* The traces below a transaction. *)

\* They depend on those below the transactions it led to.
LEMMA SameBelow ==
    ASSUME NEW t \in Tx, NEW g, NEW h,
           \A u \in Tx : LedFrom(t, u) => g[u] = h[u]
    PROVE  Joined(g, t) = Joined(h, t)
<1> DEFINE out == OutMsgs[t]
           G == [i \in DOMAIN out |-> LedTo(g, out[i])]
           H == [i \in DOMAIN out |-> LedTo(h, out[i])]
           Kids(F) == {s \in [DOMAIN out -> UNION {F[i] : i \in DOMAIN out}] :
                          \A i \in DOMAIN out : s[i] \in F[i]}
<1>1. ASSUME NEW i \in DOMAIN out PROVE LedTo(g, out[i]) = LedTo(h, out[i])
    <2>1. CASE out[i] = None
        BY <2>1 DEF LedTo
    <2>2. CASE out[i] # None
        <3>1. \A u \in {v \in Tx : InMsg[v] = out[i]} : g[u] = h[u]
            BY <2>2 DEF LedFrom, Sends
        <3>2. {g[u] : u \in {v \in Tx : InMsg[v] = out[i]}} = {h[u] : u \in {v \in Tx : InMsg[v] = out[i]}}
            BY <3>1
        <3> QED
            BY <2>2, <3>2 DEF LedTo
    <2> QED
        BY <2>1, <2>2
<1>2. G = H
    BY <1>1
<1>3. Joined(g, t) = {[tx |-> t, children |-> c] : c \in Kids(G)}
    BY DEF Joined
<1>4. Joined(h, t) = {[tx |-> t, children |-> c] : c \in Kids(H)}
    BY DEF Joined
<1> HIDE DEF G, H, Kids
<1> QED
    BY <1>2, <1>3, <1>4

\* A function may be defined along the way to the leaves.
LEMMA Downwards ==
    ASSUME NEW base
    PROVE  \E g : g = [t \in Tx |-> base \cup Joined(g, t)]
<1> DEFINE Upto(n) == {t \in Tx : LastRank - Rank(t) < n}
           More(g, t) == base \cup Joined(g, t)
           Def(g, n) == g = [t \in Upto(n) |-> More(g, t)]
           N == {n \in Nat : \E g : Def(g, n)}
<1>r. \A n \in Nat : \A t \in Upto(n + 1) : \A u \in Tx : LedFrom(t, u) => u \in Upto(n)
    BY Ranks
<1>u. \A n \in Nat : Upto(n) \subseteq Upto(n + 1)
    BY Ranks
<1>1. 0 \in N
    <2>1. Upto(0) = {}
        BY Ranks
    <2> DEFINE g == [t \in Upto(0) |-> 0]
    <2>2. Def(g, 0)
        <3> HIDE DEF Upto, More
        <3> QED
            BY <2>1
    <2> HIDE DEF Def
    <2> QED
        BY <2>2
<1>2. ASSUME NEW n \in Nat, n \in N PROVE n + 1 \in N
    <2>1. PICK g : Def(g, n)
        BY <1>2
    <2> DEFINE h == [t \in Upto(n + 1) |-> More(g, t)]
    <2>2. \A t \in Upto(n) : h[t] = g[t]
        <3> HIDE DEF Upto, More
        <3> QED
            BY <1>u, <2>1
    <2>3. ASSUME NEW t \in Upto(n + 1) PROVE More(h, t) = More(g, t)
        <3>1. t \in Tx /\ \A u \in Tx : LedFrom(t, u) => h[u] = g[u]
            <4> HIDE DEF h
            <4> QED
                BY <1>r, <2>2
        <3> HIDE DEF h
        <3>2. Joined(h, t) = Joined(g, t)
            BY <3>1, SameBelow
        <3> QED
            BY <3>2
    <2>4. Def(h, n + 1)
        <3> HIDE DEF Upto, More
        <3> QED
            BY <2>3
    <2> HIDE DEF Def, h
    <2> QED
        BY <2>4
<1>3. LastRank + 1 \in N
    <2>1. LastRank + 1 \in Nat
        BY Ranks
    <2> HIDE DEF N
    <2> QED
        BY <1>1, <1>2, <2>1, EveryNumber
<1>4. Upto(LastRank + 1) = Tx
    BY Ranks
<1> HIDE DEF Upto
<1> QED
    BY <1>3, <1>4

\* And so are the traces below a transaction, one or the other way.
LEMMA WholeTraces == \A t \in Tx : Whole[t] = Joined(Whole, t)
<1> DEFINE Def(g) == g = [t \in Tx |-> Joined(g, t)]
<1>1. PICK g : g = [t \in Tx |-> {} \cup Joined(g, t)]
    BY Downwards
<1>2. Def(g)
    <2>1. \A t \in Tx : {} \cup Joined(g, t) = Joined(g, t)
        OBVIOUS
    <2> QED
        BY <1>1, <2>1
<1>3. Def(Whole)
    <2> HIDE DEF Def
    <2>1. Whole = CHOOSE f : Def(f)
        BY DEF Whole, Def
    <2> QED
        BY <1>2, <2>1
<1> QED
    BY <1>3

LEMMA PrunedTraces == \A t \in Tx : Pruned[t] = {EmptyTrace} \cup Joined(Pruned, t)
<1> DEFINE Def(g) == g = [t \in Tx |-> {EmptyTrace} \cup Joined(g, t)]
<1>1. \E g : Def(g)
    BY Downwards
<1>2. Def(Pruned)
    <2> HIDE DEF Def
    <2>1. Pruned = CHOOSE f : Def(f)
        BY DEF Pruned, Def
    <2> QED
        BY <1>1, <2>1
<1> QED
    BY <1>2

\* What a trace is made of.
LEMMA JoinedTrace ==
    ASSUME NEW g, NEW t \in Tx, NEW c, c = [i \in DOMAIN OutMsgs[t] |-> c[i]],
           \A i \in DOMAIN OutMsgs[t] : c[i] \in LedTo(g, OutMsgs[t][i])
    PROVE  [tx |-> t, children |-> c] \in Joined(g, t)
<1> DEFINE out == OutMsgs[t]
           U == UNION {LedTo(g, out[i]) : i \in DOMAIN out}
<1>1. \A i \in DOMAIN out : c[i] \in U
    OBVIOUS
<1>2. c \in [DOMAIN out -> U]
    <2> HIDE DEF U
    <2> QED
        BY <1>1
<1>3. c \in {s \in [DOMAIN out -> U] : \A i \in DOMAIN out : s[i] \in LedTo(g, out[i])}
    <2> HIDE DEF U
    <2> QED
        BY <1>2
<1> QED
    BY <1>3 DEF Joined

\* Where nothing is cut off less than anything may be.
LEMMA WholeIsPruned ==
    /\ \A t \in Tx : Whole[t] \subseteq Pruned[t]
    /\ \A m : LedTo(Whole, m) \subseteq LedTo(Pruned, m)
<1> DEFINE S == {t \in Tx : Whole[t] \subseteq Pruned[t]}
<1>1. ASSUME NEW t \in Tx, \A u \in Tx : LedFrom(t, u) => u \in S
      PROVE  t \in S
    <2> DEFINE out == OutMsgs[t]
    <2>1. ASSUME NEW i \in DOMAIN out PROVE LedTo(Whole, out[i]) \subseteq LedTo(Pruned, out[i])
        BY <1>1 DEF LedTo, LedFrom, Sends
    <2>2. ASSUME NEW x \in Whole[t] PROVE x \in Pruned[t]
        <3>1. x \in Joined(Whole, t)
            BY <2>2, WholeTraces
        <3>2. PICK c : /\ x = [tx |-> t, children |-> c]
                       /\ c = [i \in DOMAIN out |-> c[i]]
                       /\ \A i \in DOMAIN out : c[i] \in LedTo(Whole, out[i])
            BY <3>1 DEF Joined
        <3>3. x \in Joined(Pruned, t)
            BY <2>1, <3>2, JoinedTrace
        <3> QED
            BY <3>3, PrunedTraces
    <2> QED
        BY <2>2
<1>2. Tx \subseteq S
    <2> HIDE DEF S
    <2> QED
        BY <1>1, FromTheLeaves
<1> QED
    BY <1>2 DEF LedTo

-----------------------------------------------------------------------------
(* A request. *)

SearchFields == {"pc", "asked", "tx", "depth", "look", "stack", "trace",
                 "failed", "pruned", "deep"}

\* The message whose other end is looked for, and the transaction that has it.
Sought == IF search.look.back THEN InMsg[search.tx] ELSE NextMsg
Here == IF search.look.back THEN search.tx ELSE Top.tx

\* Its other end is in no block b.
NotIn(b) == IF search.look.back
            THEN BlockOf[Parent(search.tx)] # b
            ELSE \A v \in Tx : InMsg[v] = Sought => BlockOf[v] # b

Looking == search.pc \in {"cache", "block"}
Back == search.pc = "root" \/ (Looking /\ search.look.back)
Down == search.pc = "children" \/ (Looking /\ ~search.look.back)

\* On the way to the root: as far up as the depth says, unless it stays.
BackInv ==
    /\ search.stack = <<>>
    /\ search.tx \in Tx /\ search.depth \in Nat
    /\ Root[search.tx] = Root[search.asked]
    /\ \/ search.depth + Level[search.tx] = Level[search.asked]
       \/ ToItself(search.asked)

\* What there may be below a transaction, and a child of it.
Traces(pruned) == IF pruned THEN Pruned ELSE Whole
Child == {None} \cup UNION {Pruned[t] : t \in Tx}
Frames == [tx : Tx, children : Seq(Child)]

\* The messages of a frame that are done with have the traces they led to, and
\* the next one led to the frame above.
FrameInv(stack, k) ==
    LET t == stack[k].tx
        kids == stack[k].children IN
    /\ Root[t] = Root[search.asked] /\ Level[t] = k - 1
    /\ k = 1 => t = Root[search.asked]
    /\ Len(kids) <= Len(OutMsgs[t])
    /\ \A i \in 1..Len(kids) : kids[i] \in LedTo(Traces(search.pruned), OutMsgs[t][i])
    /\ k < Len(stack) => /\ Len(kids) < Len(OutMsgs[t])
                         /\ InMsg[stack[k + 1].tx] # None
                         /\ InMsg[stack[k + 1].tx] = OutMsgs[t][Len(kids) + 1]

StackInv ==
    /\ search.stack \in Seq(Frames) /\ Depth > 0
    /\ \A k \in 1..Depth : FrameInv(search.stack, k)

LookInv ==
    /\ search.look.back \in BOOLEAN /\ search.look.near \in BOOLEAN
    /\ Sought \in Msg
    /\ ~search.look.back => ~AllTried
    /\ search.look.account = IF search.look.back THEN Source[Sought] ELSE Destination[Sought]
    /\ search.look.lt = CreatedLt[Sought]
    /\ search.look.block =
          IF search.look.near
          THEN [BlockOf[Here] EXCEPT !.seqno = IF search.look.back THEN @ - 1 ELSE @ + 1]
          ELSE BlockOf[Here]
    /\ search.look.near /\ ~search.failed => NotIn(BlockOf[Here])
    /\ DOMAIN search.look = {"account", "lt", "block", "back", "near"}

Answered ==
    search.trace \in IF search.pruned THEN Pruned[Root[search.asked]]
                                      ELSE Whole[Root[search.asked]]
Excused ==
    \/ search.deep /\ (TooDeep(search.asked) \/ ToItself(search.asked))
    \/ ~Near(search.asked)

ClearInv ==
    /\ Back => BackInv
    /\ Down => StackInv
    /\ Looking => LookInv
    /\ SearchAt("done") => Answered
    /\ SearchAt("error") /\ ~search.failed => Excused

SearchInv ==
    /\ indexed \subseteq Tx
    /\ DOMAIN search = SearchFields
    /\ search.pc \in {"idle", "root", "cache", "block", "children", "done", "error"}
    /\ search.failed \in BOOLEAN /\ search.pruned \in BOOLEAN
    /\ SearchAt("idle") => search = NoSearch
    /\ ~SearchAt("idle") => search.asked \in Tx
    /\ ~SearchAt("idle") /\ Unambiguous(search.asked) => ClearInv

\* What SearchSet does to the fields.
LEMMA SearchSetFields ==
    ASSUME NEW fields, DOMAIN search = SearchFields, SearchSet(fields)
    PROVE  /\ DOMAIN search' = SearchFields
           /\ \A f \in SearchFields :
                search'[f] = IF f \in DOMAIN fields THEN fields[f] ELSE search[f]
BY DEF SearchSet

\* The invariant, and what it is for.
LEMMA SearchRight == SearchInv => TraceIsRight
BY DEF SearchInv, ClearInv, TraceIsRight, Answered, Excused, SearchAt

LEMMA SearchInitially == TraceInit => SearchInv
<1> SUFFICES ASSUME TraceInit PROVE SearchInv
    OBVIOUS
<1>1. indexed \subseteq Tx
    BY TraceAssumption DEF TraceInit
<1>2. search = NoSearch
    BY DEF TraceInit
<1> QED
    BY <1>1, <1>2 DEF SearchInv, NoSearch, SearchFields, SearchAt

-----------------------------------------------------------------------------
(* What is found is what was sought. *)

\* The messages of the trace asked for, and who sent them.
LEMMA OfTheTrace ==
    ASSUME NEW a \in Tx, NEW t \in Tx, Root[t] = Root[a], NEW m \in Msg, Sends(t, m)
    PROVE  m \in Messages(a)
BY DEF Messages

\* What the index knows a message by is its receiver, also going back.
LEMMA NoOtherReceiver ==
    ASSUME NEW a \in Tx, Unambiguous(a), NEW m \in Messages(a), NEW t \in Tx, NEW back \in BOOLEAN,
           HasInMsg(t, IF back THEN Source[m] ELSE Destination[m], CreatedLt[m])
    PROVE  InMsg[t] = m /\ (back => ToItself(a))
<1>1. InMsg[t] # None /\ CreatedLt[InMsg[t]] = CreatedLt[m]
    BY DEF HasInMsg
<1>2. InMsg[t] = m
    BY <1>1 DEF Unambiguous, TakenFor, HasInMsg
<1>3. Destination[m] = AccountOf[t]
    BY <1>1, <1>2, InMsgs
<1> QED
    BY <1>2, <1>3 DEF ToItself, HasInMsg

\* In a block it is the sender.
LEMMA NoOtherSender ==
    ASSUME NEW a \in Tx, NEW m \in Messages(a), NEW t \in Tx, HasOutMsg(t, Source[m], CreatedLt[m])
    PROVE  Sends(t, m)
<1>1. m \in Msg
    BY DEF Messages
<1>2. PICK u \in Tx : Sends(u, m)
    BY DEF Messages
<1>3. Source[m] = AccountOf[u]
    BY <1>1, <1>2, Senders
<1>4. PICK i \in DOMAIN OutMsgs[t] : OutMsgs[t][i] # None /\ CreatedLt[OutMsgs[t][i]] = CreatedLt[m]
    BY DEF HasOutMsg
<1>5. OutMsgs[t][i] \in Msg /\ Sends(t, OutMsgs[t][i])
    BY <1>4, TraceAssumption DEF Sends
<1>6. AccountOf[t] = AccountOf[u]
    BY <1>3 DEF HasOutMsg
<1> QED
    BY <1>1, <1>2, <1>4, <1>5, <1>6, Senders

\* The frame on top.
LEMMA OnTop ==
    ASSUME StackInv
    PROVE  /\ Depth \in Nat \ {0} /\ Top \in Frames
           /\ Top.tx \in Tx /\ Top.children \in Seq(Child) /\ Len(Top.children) \in Nat
           /\ OutMsgs[Top.tx] \in Seq(Msg \cup {None}) /\ Len(OutMsgs[Top.tx]) \in Nat
           /\ FrameInv(search.stack, Depth)
           /\ ~AllTried => /\ NextMsg \in Msg \cup {None} /\ Sends(Top.tx, NextMsg)
                           /\ Len(Top.children) + 1 \in DOMAIN OutMsgs[Top.tx]
<1>1. Depth \in Nat \ {0}
    BY DEF StackInv, Depth
<1>2. Top \in Frames
    BY <1>1 DEF StackInv, Depth, Top
<1>3. Top.tx \in Tx /\ Top.children \in Seq(Child) /\ Len(Top.children) \in Nat
    <2>1. Top.tx \in Tx /\ Top.children \in Seq(Child)
        BY <1>2 DEF Frames
    <2> QED
        BY <2>1
<1>4. OutMsgs[Top.tx] \in Seq(Msg \cup {None}) /\ Len(OutMsgs[Top.tx]) \in Nat
    <2>1. OutMsgs[Top.tx] \in Seq(Msg \cup {None})
        BY <1>3, TraceAssumption
    <2> QED
        BY <2>1
<1>5. FrameInv(search.stack, Depth)
    BY <1>1 DEF StackInv
<1>6. Len(Top.children) <= Len(OutMsgs[Top.tx])
    BY <1>5 DEF FrameInv, Top
<1>7. ASSUME ~AllTried
      PROVE  /\ NextMsg \in Msg \cup {None} /\ Sends(Top.tx, NextMsg)
             /\ Len(Top.children) + 1 \in DOMAIN OutMsgs[Top.tx]
    <2>1. Len(Top.children) + 1 \in 1..Len(OutMsgs[Top.tx])
        BY <1>3, <1>4, <1>6, <1>7 DEF AllTried
    <2>2. Len(Top.children) + 1 \in DOMAIN OutMsgs[Top.tx]
        BY <1>4, <2>1
    <2>3. OutMsgs[Top.tx][Len(Top.children) + 1] \in Msg \cup {None}
        BY <1>4, <2>1
    <2> QED
        BY <2>2, <2>3 DEF NextMsg, Sends
<1> QED
    BY <1>1, <1>2, <1>3, <1>4, <1>5, <1>7

\* The message sought is one of the trace.
LEMMA SoughtIsOfTrace ==
    ASSUME SearchInv, Looking, Unambiguous(search.asked)
    PROVE  /\ search.asked \in Tx /\ LookInv
           /\ Sought \in Messages(search.asked)
           /\ search.look.back => /\ BackInv
                                  /\ Sought = InMsg[search.tx] /\ LedFrom(Parent(search.tx), search.tx)
                                  /\ Parent(search.tx) \in Tx /\ search.tx \in Tx
           /\ ~search.look.back => /\ StackInv
                                   /\ Sought = NextMsg /\ Sends(Top.tx, Sought) /\ Top.tx \in Tx
                                   /\ Root[Top.tx] = Root[search.asked]
<1>1. search.asked \in Tx /\ ClearInv
    BY DEF SearchInv, Looking, SearchAt
<1>2. LookInv /\ Sought \in Msg
    BY <1>1 DEF ClearInv, LookInv
<1>3. ASSUME search.look.back
      PROVE  /\ BackInv /\ Sought = InMsg[search.tx] /\ LedFrom(Parent(search.tx), search.tx)
             /\ Parent(search.tx) \in Tx /\ search.tx \in Tx
             /\ Root[Parent(search.tx)] = Root[search.asked]
    <2>1. BackInv
        BY <1>1, <1>3 DEF ClearInv, Back
    <2>2. search.tx \in Tx /\ Root[search.tx] = Root[search.asked]
        BY <2>1 DEF BackInv
    <2>3. Sought = InMsg[search.tx] /\ InMsg[search.tx] # None
        BY <1>2, <1>3, TraceAssumption DEF Sought
    <2>4. Parent(search.tx) \in Tx /\ LedFrom(Parent(search.tx), search.tx)
        BY <2>2, <2>3, Ranks
    <2> QED
        BY <2>1, <2>2, <2>3, <2>4, Below
<1>4. ASSUME ~search.look.back
      PROVE  /\ StackInv /\ Sought = NextMsg /\ Sends(Top.tx, Sought) /\ Top.tx \in Tx
             /\ Root[Top.tx] = Root[search.asked]
    <2>1. StackInv
        BY <1>1, <1>4 DEF ClearInv, Down
    <2>2. ~AllTried /\ Sought = NextMsg
        BY <1>2, <1>4 DEF LookInv, Sought
    <2>3. Root[Top.tx] = Root[search.asked]
        BY <2>1, OnTop DEF FrameInv, Top
    <2> QED
        BY <2>1, <2>2, <2>3, OnTop
<1>5. Sought \in Messages(search.asked)
    BY <1>1, <1>2, <1>3, <1>4, OfTheTrace DEF LedFrom, LookInv
<1> QED
    BY <1>1, <1>2, <1>3, <1>4, <1>5

\* What may be taken for the other end.
OtherEnd(t) ==
    IF search.look.back
    THEN t = Parent(search.tx) \/ (t = search.tx /\ ToItself(search.asked))
    ELSE InMsg[t] = Sought

\* An answer of the index may be, and so may the first candidate of a block.
LEMMA HitIsOtherEnd ==
    ASSUME SearchInv, Looking, Unambiguous(search.asked), NEW t \in Tx,
           HasInMsg(t, search.look.account, search.look.lt)
    PROVE  OtherEnd(t)
<1>1. /\ search.look.back \in BOOLEAN /\ search.look.lt = CreatedLt[Sought]
      /\ search.look.account = IF search.look.back THEN Source[Sought] ELSE Destination[Sought]
    BY SoughtIsOfTrace DEF LookInv
<1>2. InMsg[t] = Sought /\ (search.look.back => ToItself(search.asked))
    BY <1>1, SoughtIsOfTrace, NoOtherReceiver
<1>3. search.look.back => t = search.tx
    BY <1>2, SoughtIsOfTrace, InMsgs DEF LedFrom
<1> QED
    BY <1>2, <1>3 DEF OtherEnd

LEMMA CandidateIsOtherEnd ==
    ASSUME SearchInv, Looking, Unambiguous(search.asked), NEW b \in TxBlock,
           NEW i \in Candidates(search.look, b)
    PROVE  OtherEnd(Txs(b)[i])
<1>1. /\ search.look.back \in BOOLEAN /\ search.look.lt = CreatedLt[Sought]
      /\ search.look.account = IF search.look.back THEN Source[Sought] ELSE Destination[Sought]
    BY SoughtIsOfTrace DEF LookInv
<1> DEFINE t == Txs(b)[i]
<1>2. t \in Tx
    BY TraceAssumption DEF Candidates
<1>3. CASE search.look.back
    <2>1. HasOutMsg(t, Source[Sought], CreatedLt[Sought])
        BY <1>1, <1>3 DEF Candidates
    <2>2. Sends(t, Sought)
        BY <1>2, <2>1, SoughtIsOfTrace, NoOtherSender
    <2>3. t = Parent(search.tx)
        BY <1>2, <1>3, <2>2, SoughtIsOfTrace, Ranks DEF LedFrom
    <2> QED
        BY <1>3, <2>3 DEF OtherEnd
<1>4. CASE ~search.look.back
    <2>1. HasInMsg(t, search.look.account, search.look.lt)
        BY <1>4 DEF Candidates
    <2> QED
        BY <1>2, <2>1, HitIsOtherEnd
<1> QED
    BY <1>1, <1>3, <1>4

\* A block without candidates does not have it.
LEMMA NoCandidates ==
    ASSUME SearchInv, Looking, Unambiguous(search.asked), NEW b,
           b \in TxBlock => Candidates(search.look, b) = {}
    PROVE  NotIn(b)
<1>1. /\ search.look.back \in BOOLEAN /\ search.look.lt = CreatedLt[Sought] /\ Sought \in Msg
      /\ search.look.account = IF search.look.back THEN Source[Sought] ELSE Destination[Sought]
    BY SoughtIsOfTrace DEF LookInv
<1>2. ASSUME NEW t \in Tx, BlockOf[t] = b
      PROVE  \E i \in DOMAIN Txs(b) : Txs(b)[i] = t /\ i \notin Candidates(search.look, b)
    BY <1>2, TraceAssumption DEF TxBlock
<1>3. CASE search.look.back
    <2> DEFINE p == Parent(search.tx)
    <2>1. p \in Tx /\ Sends(p, Sought)
        BY <1>3, SoughtIsOfTrace DEF LedFrom
    <2>2. AccountOf[p] = Source[Sought]
        BY <1>1, <2>1, Senders
    <2>3. HasOutMsg(p, search.look.account, search.look.lt)
        BY <1>1, <1>3, <2>1, <2>2, TraceAssumption DEF HasOutMsg, Sends
    <2> HIDE DEF p
    <2>4. BlockOf[p] # b
        BY <1>2, <1>3, <2>1, <2>3 DEF Candidates
    <2> QED
        BY <1>3, <2>4 DEF NotIn, p
<1>4. CASE ~search.look.back
    <2>1. ASSUME NEW v \in Tx, InMsg[v] = Sought PROVE BlockOf[v] # b
        <3>1. InMsg[v] # None
            BY <1>1, <2>1, TraceAssumption
        <3>2. HasInMsg(v, search.look.account, search.look.lt)
            BY <1>1, <1>4, <2>1, <3>1, InMsgs DEF HasInMsg
        <3> QED
            BY <1>2, <1>4, <3>2 DEF Candidates
    <2> QED
        BY <1>4, <2>1 DEF NotIn
<1> QED
    BY <1>1, <1>3, <1>4

-----------------------------------------------------------------------------
(* The steps keep the invariant. *)

\* The frames do not depend on the rest of a request.
LEMMA SameStack ==
    ASSUME StackInv, search'.stack = search.stack, search'.asked = search.asked,
           search'.pruned = search.pruned
    PROVE  StackInv'
BY DEF StackInv, FrameInv, Depth

\* What is found takes the request one level up, or is the next frame.
LEMMA FoundStep ==
    ASSUME SearchInv, Looking, NEW t \in Tx, FoundTx(t), indexed' \subseteq Tx,
           Unambiguous(search.asked) => OtherEnd(t)
    PROVE  SearchInv'
<1>0. /\ DOMAIN search = SearchFields /\ search.asked \in Tx
      /\ search.failed \in BOOLEAN /\ search.pruned \in BOOLEAN
    BY DEF SearchInv, Looking, SearchAt
<1>1. CASE search.look.back
    <2>1. SearchSet([pc |-> "root", tx |-> t, depth |-> search.depth + 1])
        BY <1>1 DEF FoundTx
    <2>2. /\ DOMAIN search' = SearchFields
          /\ search'.pc = "root" /\ search'.tx = t /\ search'.depth = search.depth + 1
          /\ search'.asked = search.asked /\ search'.stack = search.stack
          /\ search'.failed = search.failed /\ search'.pruned = search.pruned
        BY <1>0, <2>1, SearchSetFields DEF SearchFields
    <2>3. ASSUME Unambiguous(search.asked) PROVE BackInv'
        <3>1. BackInv /\ LedFrom(Parent(search.tx), search.tx) /\ Parent(search.tx) \in Tx
            BY <1>1, <2>3, SoughtIsOfTrace
        <3>2. CASE t = Parent(search.tx)
            <4>1. Root[t] = Root[search.tx] /\ Level[search.tx] = Level[t] + 1
                BY <3>1, <3>2, Below DEF BackInv
            <4>2. Level[t] \in Nat /\ Level[search.tx] \in Nat
                BY <3>1, Levels DEF BackInv
            <4> QED
                BY <2>2, <3>1, <4>1, <4>2 DEF BackInv
        <3>3. CASE t = search.tx /\ ToItself(search.asked)
            BY <2>2, <3>1, <3>3 DEF BackInv
        <3> QED
            BY <1>1, <2>3, <3>2, <3>3 DEF OtherEnd
    <2>4. ASSUME Unambiguous(search.asked) PROVE ClearInv'
        BY <2>2, <2>3, <2>4 DEF ClearInv, Back, Down, Looking, SearchAt
    <2> QED
        BY <1>0, <2>2, <2>4 DEF SearchInv, SearchAt
<1>2. CASE ~search.look.back
    <2>1. SearchSet([pc |-> "children", stack |-> Append(search.stack, Frame(t))])
        BY <1>2 DEF FoundTx
    <2>2. /\ DOMAIN search' = SearchFields
          /\ search'.pc = "children" /\ search'.stack = Append(search.stack, Frame(t))
          /\ search'.asked = search.asked
          /\ search'.failed = search.failed /\ search'.pruned = search.pruned
        BY <1>0, <2>1, SearchSetFields DEF SearchFields
    <2>3. ASSUME Unambiguous(search.asked) PROVE StackInv'
        <3>1. /\ StackInv /\ LookInv /\ Sought = NextMsg /\ Sends(Top.tx, NextMsg) /\ Top.tx \in Tx
              /\ Root[Top.tx] = Root[search.asked] /\ NextMsg \in Msg /\ ~AllTried
            BY <1>2, <2>3, SoughtIsOfTrace DEF LookInv
        <3>2. InMsg[t] = NextMsg /\ InMsg[t] # None
            BY <1>2, <2>3, <3>1, TraceAssumption DEF OtherEnd
        <3>3. Root[t] = Root[search.asked] /\ Level[t] = Level[Top.tx] + 1
            BY <3>1, <3>2, Below DEF LedFrom
        <3>4. Level[Top.tx] = Depth - 1 /\ Depth \in Nat \ {0}
            BY <3>1, OnTop DEF FrameInv, Top
        <3>5. Frame(t) \in Frames
            BY DEF Frame, Frames
        <3> DEFINE s == search.stack
                   new == Append(s, Frame(t))
        <3>6. s \in Seq(Frames) /\ Len(s) = Depth
            BY <3>1 DEF StackInv, Depth
        <3>7. /\ new \in Seq(Frames) /\ Len(new) = Depth + 1
              /\ \A k \in 1..Depth : new[k] = s[k]
              /\ new[Depth + 1] = Frame(t)
            BY <3>4, <3>5, <3>6
        <3>8. ASSUME NEW k \in 1..(Depth + 1) PROVE FrameInv(search.stack, k)'
            <4>1. CASE k = Depth + 1
                <5>1. new[k].tx = t /\ new[k].children = <<>>
                    BY <3>7, <4>1 DEF Frame
                <5>2. Len(OutMsgs[t]) \in Nat
                    <6>1. OutMsgs[t] \in Seq(Msg \cup {None})
                        BY TraceAssumption
                    <6> QED
                        BY <6>1
                <5> HIDE DEF new
                <5> QED
                    BY <2>2, <3>3, <3>4, <3>7, <4>1, <5>1, <5>2 DEF FrameInv, new
            <4>2. CASE k = Depth
                <5>1. FrameInv(s, k)
                    BY <3>1, <3>4, <4>2 DEF StackInv
                <5>2. new[k] = s[k] /\ new[k + 1].tx = t
                    BY <3>4, <3>7, <4>2 DEF Frame
                <5>3. /\ Len(s[k].children) < Len(OutMsgs[s[k].tx])
                      /\ InMsg[t] = OutMsgs[s[k].tx][Len(s[k].children) + 1]
                    <6>1. /\ Len(Top.children) \in Nat /\ Len(OutMsgs[Top.tx]) \in Nat
                          /\ Len(Top.children) # Len(OutMsgs[Top.tx])
                        BY <3>1, OnTop DEF AllTried
                    <6>2. s[k] = Top
                        BY <4>2 DEF Top
                    <6>3. Len(Top.children) <= Len(OutMsgs[Top.tx])
                        BY <5>1, <6>2 DEF FrameInv
                    <6> QED
                        BY <3>2, <6>1, <6>2, <6>3 DEF NextMsg
                <5> HIDE DEF new, s
                <5> QED
                    BY <2>2, <3>2, <3>7, <5>1, <5>2, <5>3 DEF FrameInv, new, s
            <4>3. CASE k \in 1..(Depth - 1)
                <5>1. FrameInv(s, k) /\ k < Len(s)
                    BY <3>1, <3>4, <3>6, <4>3 DEF StackInv
                <5>2. new[k] = s[k] /\ new[k + 1] = s[k + 1]
                    BY <3>4, <3>7, <4>3
                <5> HIDE DEF new, s
                <5> QED
                    BY <2>2, <5>1, <5>2 DEF FrameInv, new, s
            <4> QED
                BY <3>4, <4>1, <4>2, <4>3
        <3>9. Depth' = Depth + 1
            BY <2>2, <3>7 DEF Depth
        <3> QED
            BY <2>2, <3>4, <3>7, <3>8, <3>9 DEF StackInv
    <2>4. ASSUME Unambiguous(search.asked) PROVE ClearInv'
        BY <2>2, <2>3, <2>4 DEF ClearInv, Back, Down, Looking, SearchAt
    <2> QED
        BY <1>0, <2>2, <2>4 DEF SearchInv, SearchAt
<1> QED
    BY <1>1, <1>2

LEMMA SearchTxInCacheStep ==
    ASSUME SearchInv, SearchTxInCache PROVE SearchInv'
<1>1. Looking /\ indexed' \subseteq Tx /\ indexed \subseteq Tx
    BY DEF SearchTxInCache, TraceCaches, SearchInv, Looking, SearchAt
<1> DEFINE hits == {t \in indexed : HasInMsg(t, search.look.account, search.look.lt)}
<1>2. CASE hits # {}
    <2>1. PICK t \in hits : FoundTx(t)
        BY <1>2 DEF SearchTxInCache
    <2>2. t \in Tx /\ HasInMsg(t, search.look.account, search.look.lt)
        BY <1>1
    <2> QED
        BY <1>1, <2>1, <2>2, FoundStep, HitIsOtherEnd
<1>3. CASE hits = {}
    <2>1. SearchSet([pc |-> "block"])
        BY <1>3 DEF SearchTxInCache
    <2>2. /\ DOMAIN search = SearchFields /\ search.asked \in Tx
          /\ search.failed \in BOOLEAN /\ search.pruned \in BOOLEAN
        BY <1>1 DEF SearchInv, Looking, SearchAt
    <2>3. DOMAIN search' = SearchFields /\ search'.pc = "block"
          /\ search'.asked = search.asked /\ search'.tx = search.tx
          /\ search'.depth = search.depth /\ search'.look = search.look
          /\ search'.stack = search.stack
          /\ search'.failed = search.failed /\ search'.pruned = search.pruned
        BY <2>1, <2>2, SearchSetFields DEF SearchFields
    <2>4. ASSUME Unambiguous(search.asked) PROVE ClearInv'
        <3>1. ClearInv
            BY <1>1, <2>4 DEF SearchInv, Looking, SearchAt
        <3>2. LookInv'
            <4>1. LookInv
                BY <1>1, <3>1 DEF ClearInv
            <4>2. Sought' = Sought /\ Here' = Here /\ AllTried' = AllTried
                BY <2>3 DEF Sought, Here, AllTried, NextMsg, Top, Depth
            <4>3. NotIn(BlockOf[Here]) => NotIn(BlockOf[Here])'
                BY <2>3, <4>2 DEF NotIn
            <4> QED
                BY <2>3, <4>1, <4>2, <4>3 DEF LookInv
        <3>3. Back' => BackInv'
            BY <1>1, <2>3, <3>1 DEF ClearInv, Back, BackInv, Looking
        <3>4. Down' => StackInv'
            BY <1>1, <2>3, <3>1, SameStack DEF ClearInv, Down, Looking
        <3> QED
            BY <2>3, <3>2, <3>3, <3>4 DEF ClearInv, SearchAt
    <2> QED
        BY <1>1, <2>2, <2>3, <2>4 DEF SearchInv, SearchAt
<1> QED
    BY <1>2, <1>3

\* Not found twice, without a failed call: the message was not near.
LEMMA NotInBlockStep ==
    ASSUME SearchInv, SearchAt("block"), NEW failed \in BOOLEAN, NotInBlock(failed),
           indexed' \subseteq Tx,
           Unambiguous(search.asked) /\ ~failed => NotIn(search.look.block)
    PROVE  SearchInv'
<1>0. /\ DOMAIN search = SearchFields /\ search.asked \in Tx /\ Looking
      /\ search.failed \in BOOLEAN /\ search.pruned \in BOOLEAN
    BY DEF SearchInv, Looking, SearchAt
<1>1. CASE search.look.near
    <2>1. SearchSet([pc |-> "error", failed |-> search.failed \/ failed])
        BY <1>1 DEF NotInBlock
    <2>2. /\ DOMAIN search' = SearchFields /\ search'.pc = "error"
          /\ search'.asked = search.asked
          /\ search'.failed = (search.failed \/ failed) /\ search'.pruned = search.pruned
        BY <1>0, <2>1, SearchSetFields DEF SearchFields
    <2>3. ASSUME Unambiguous(search.asked), ~search.failed, ~failed
          PROVE  ~Near(search.asked)
        <3>1. LookInv /\ search.look.back \in BOOLEAN
            BY <1>0, <2>3, SoughtIsOfTrace DEF LookInv
        <3>2. NotIn(BlockOf[Here]) /\ NotIn(search.look.block)
            BY <1>1, <2>3, <3>1 DEF LookInv
        <3>3. search.look.block = [BlockOf[Here] EXCEPT !.seqno = IF search.look.back THEN @ - 1 ELSE @ + 1]
            BY <1>1, <3>1 DEF LookInv
        <3> SUFFICES ASSUME Near(search.asked) PROVE FALSE
            OBVIOUS
        <3>4. CASE search.look.back
            <4> DEFINE t == search.tx
                       p == Parent(search.tx)
            <4>1. t \in Tx /\ p \in Tx /\ LedFrom(p, t) /\ Root[t] = Root[search.asked]
                BY <1>0, <2>3, <3>4, SoughtIsOfTrace DEF BackInv
            <4>2. Root[p] = Root[search.asked] /\ InMsg[t] \in Msg /\ Sends(p, InMsg[t])
                BY <4>1, Below, InMsgs DEF LedFrom
            <4> HIDE DEF t, p
            <4>3. PICK v \in Tx :
                      /\ InMsg[v] = InMsg[t] /\ BlockOf[v].shard = BlockOf[p].shard
                      /\ BlockOf[v].seqno \in {BlockOf[p].seqno, BlockOf[p].seqno + 1}
                BY <4>1, <4>2 DEF Near
            <4>4. v = t
                BY <4>1, <4>3, InMsgs DEF LedFrom
            <4>5. Here = t
                BY <3>4 DEF Here, t
            <4>6. BlockOf[p] # BlockOf[t] /\ BlockOf[p] # search.look.block
                BY <3>2, <3>4, <4>5 DEF NotIn, p
            <4>7. search.look.block = [shard |-> BlockOf[t].shard, seqno |-> BlockOf[t].seqno - 1]
                <5>1. BlockOf[t] = [shard |-> BlockOf[t].shard, seqno |-> BlockOf[t].seqno]
                    BY <4>1, TraceAssumption
                <5> QED
                    BY <3>3, <3>4, <4>5, <5>1
            <4>8. BlockOf[p].seqno = BlockOf[t].seqno - 1 /\ BlockOf[p].shard = BlockOf[t].shard
                <5>1. BlockOf[p].seqno # BlockOf[t].seqno
                    BY <4>1, <4>3, <4>4, <4>6, Blocks
                <5>2. BlockOf[t].seqno = BlockOf[p].seqno + 1
                    BY <4>3, <4>4, <5>1
                <5>3. BlockOf[p].seqno \in Nat
                    BY <4>1, Blocks
                <5> QED
                    BY <4>3, <4>4, <5>2, <5>3
            <4> QED
                BY <4>1, <4>6, <4>7, <4>8, Blocks
        <3>5. CASE ~search.look.back
            <4> DEFINE u == Top.tx
            <4>1. u \in Tx /\ Sends(u, Sought) /\ Root[u] = Root[search.asked] /\ Sought \in Msg
                BY <1>0, <2>3, <3>5, SoughtIsOfTrace DEF LookInv
            <4>2. Here = u
                BY <3>5 DEF Here
            <4> HIDE DEF u
            <4>3. PICK v \in Tx :
                      /\ InMsg[v] = Sought /\ BlockOf[v].shard = BlockOf[u].shard
                      /\ BlockOf[v].seqno \in {BlockOf[u].seqno, BlockOf[u].seqno + 1}
                BY <4>1 DEF Near
            <4>4. BlockOf[v] # BlockOf[u] /\ BlockOf[v] # search.look.block
                BY <3>2, <3>5, <4>2, <4>3 DEF NotIn
            <4>5. search.look.block = [shard |-> BlockOf[u].shard, seqno |-> BlockOf[u].seqno + 1]
                <5>1. BlockOf[u] = [shard |-> BlockOf[u].shard, seqno |-> BlockOf[u].seqno]
                    BY <4>1, TraceAssumption
                <5> QED
                    BY <3>3, <3>5, <4>2, <5>1
            <4>6. BlockOf[v].seqno = BlockOf[u].seqno + 1 /\ BlockOf[v].shard = BlockOf[u].shard
                BY <4>1, <4>3, <4>4, Blocks
            <4> QED
                BY <4>4, <4>5, <4>6, Blocks
        <3> QED
            BY <3>1, <3>4, <3>5
    <2>4. ASSUME Unambiguous(search.asked) PROVE ClearInv'
        BY <2>2, <2>3, <2>4 DEF ClearInv, Back, Down, Looking, SearchAt, Excused
    <2> QED
        BY <1>0, <2>2, <2>4 DEF SearchInv, SearchAt
<1>2. CASE ~search.look.near
    <2> DEFINE look == [search.look EXCEPT !.near = TRUE, !.block = Neighbour(search.look)]
    <2>1. SearchSet([failed |-> search.failed \/ failed, look |-> look])
        BY <1>2 DEF NotInBlock
    <2>2. DOMAIN search' = SearchFields /\ search'.pc = "block"
          /\ search'.asked = search.asked /\ search'.tx = search.tx
          /\ search'.depth = search.depth /\ search'.look = look
          /\ search'.stack = search.stack
          /\ search'.failed = (search.failed \/ failed) /\ search'.pruned = search.pruned
        <3> HIDE DEF look
        <3> QED
            BY <1>0, <2>1, SearchSetFields DEF SearchFields, SearchAt
    <2>3. ASSUME Unambiguous(search.asked) PROVE ClearInv'
        <3>1. ClearInv /\ LookInv
            BY <1>0, <2>3 DEF SearchInv, ClearInv, Looking, SearchAt
        <3>2. /\ look.back = search.look.back /\ look.near /\ look.near \in BOOLEAN
              /\ look.account = search.look.account /\ look.lt = search.look.lt
              /\ look.block = Neighbour(search.look) /\ DOMAIN look = DOMAIN search.look
            BY <3>1 DEF LookInv
        <3> HIDE DEF look
        <3>3. Sought' = Sought /\ Here' = Here /\ AllTried' = AllTried
            BY <2>2, <3>2 DEF Sought, Here, AllTried, NextMsg, Top, Depth
        <3>4. LookInv'
            <4>1. search.look.block = BlockOf[Here]
                BY <1>2, <3>1 DEF LookInv
            <4>2. look.block = [BlockOf[Here] EXCEPT !.seqno = IF search.look.back THEN @ - 1 ELSE @ + 1]
                BY <3>2, <4>1 DEF Neighbour
            <4>3. ~failed => NotIn(BlockOf[Here])
                BY <2>3, <4>1
            <4>4. NotIn(BlockOf[Here]) => NotIn(BlockOf[Here])'
                BY <2>2, <3>2, <3>3 DEF NotIn
            <4> QED
                BY <2>2, <3>1, <3>2, <3>3, <4>2, <4>3, <4>4 DEF LookInv
        <3>5. Back' => BackInv'
            BY <1>0, <2>2, <3>1, <3>2 DEF ClearInv, Back, BackInv, Looking
        <3>6. Down' => StackInv'
            BY <1>0, <2>2, <3>1, <3>2, SameStack DEF ClearInv, Down, Looking
        <3> QED
            BY <2>2, <3>4, <3>5, <3>6 DEF ClearInv, SearchAt
    <2> QED
        BY <1>0, <2>2, <2>3 DEF SearchInv, SearchAt
<1> QED
    BY <1>1, <1>2

LEMMA SearchTransactionInBlockStep ==
    ASSUME SearchInv, SearchTransactionInBlock PROVE SearchInv'
<1>1. Looking /\ SearchAt("block") /\ indexed' \subseteq Tx
    BY DEF SearchTransactionInBlock, TraceCaches, SearchInv, Looking, SearchAt
<1> DEFINE b == search.look.block
           found == Candidates(search.look, b)
<1>2. CASE NotInBlock(TRUE)
    BY <1>1, <1>2, NotInBlockStep
<1>3. CASE /\ b \in TxBlock
           /\ \E i \in found : (\A j \in found : i <= j) /\ FoundTx(Txs(b)[i])
    <2>1. PICK i \in found : FoundTx(Txs(b)[i])
        BY <1>3
    <2>2. Txs(b)[i] \in Tx
        BY <1>3, TraceAssumption DEF Candidates
    <2> QED
        BY <1>1, <1>3, <2>1, <2>2, FoundStep, CandidateIsOtherEnd
<1>4. CASE (b \in TxBlock => found = {}) /\ NotInBlock(FALSE)
    <2>1. Unambiguous(search.asked) => NotIn(b)
        BY <1>1, <1>4, NoCandidates
    <2> QED
        BY <1>1, <1>4, <2>1, NotInBlockStep
<1> QED
    BY <1>2, <1>3, <1>4 DEF SearchTransactionInBlock

\* Only what is deeper than the limit, or stays where it is, meets it.
LEMMA FindRootStep ==
    ASSUME SearchInv, FindRoot PROVE SearchInv'
<1>1. /\ SearchAt("root") /\ indexed' \subseteq Tx
      /\ DOMAIN search = SearchFields /\ search.asked \in Tx
      /\ search.failed \in BOOLEAN /\ search.pruned \in BOOLEAN
    BY DEF FindRoot, TraceCaches, SearchInv, SearchAt
<1> DEFINE t == search.tx
<1>2. ASSUME Unambiguous(search.asked) PROVE BackInv /\ t \in Tx
    BY <1>1, <1>2 DEF SearchInv, ClearInv, Back, BackInv, SearchAt
<1>3. CASE InMsg[t] = None
    <2>1. SearchSet([pc |-> "children", stack |-> <<Frame(t)>>])
        BY <1>3 DEF FindRoot
    <2>2. /\ DOMAIN search' = SearchFields
          /\ search'.pc = "children" /\ search'.stack = <<Frame(t)>>
          /\ search'.asked = search.asked
          /\ search'.failed = search.failed /\ search'.pruned = search.pruned
        BY <1>1, <2>1, SearchSetFields DEF SearchFields
    <2>3. ASSUME Unambiguous(search.asked) PROVE StackInv'
        <3>1. Root[t] = t /\ Root[t] = Root[search.asked] /\ Level[t] = 0 /\ t \in Tx
            BY <1>2, <1>3, <2>3, Roots, Levels DEF BackInv
        <3>2. Frame(t) \in Frames /\ Frame(t).tx = t /\ Frame(t).children = <<>>
            BY <3>1 DEF Frame, Frames
        <3> DEFINE new == <<Frame(t)>>
        <3>3. new \in Seq(Frames) /\ Len(new) = 1 /\ new[1] = Frame(t)
            BY <3>2
        <3>4. Len(OutMsgs[t]) \in Nat
            <4>1. OutMsgs[t] \in Seq(Msg \cup {None})
                BY <3>1, TraceAssumption
            <4> QED
                BY <4>1
        <3> HIDE DEF new
        <3>5. search'.stack = new
            BY <2>2 DEF new
        <3>6. FrameInv(search.stack, 1)'
            BY <2>2, <3>1, <3>2, <3>3, <3>4, <3>5 DEF FrameInv
        <3>7. Depth' = 1
            BY <3>3, <3>5 DEF Depth
        <3> QED
            BY <3>3, <3>5, <3>6, <3>7 DEF StackInv
    <2>4. ASSUME Unambiguous(search.asked) PROVE ClearInv'
        BY <2>2, <2>3, <2>4 DEF ClearInv, Back, Down, Looking, SearchAt
    <2> QED
        BY <1>1, <2>2, <2>4 DEF SearchInv, SearchAt
<1>4. CASE InMsg[t] # None /\ search.depth > MaxDepth
    <2>1. SearchSet([pc |-> "error", deep |-> TRUE])
        BY <1>4 DEF FindRoot, Look
    <2>2. /\ DOMAIN search' = SearchFields /\ search'.pc = "error" /\ search'.deep = TRUE
          /\ search'.asked = search.asked
          /\ search'.failed = search.failed /\ search'.pruned = search.pruned
        BY <1>1, <2>1, SearchSetFields DEF SearchFields
    <2>3. ASSUME Unambiguous(search.asked)
          PROVE  TooDeep(search.asked) \/ ToItself(search.asked)
        <3>1. Level[t] \in Nat /\ Level[search.asked] \in Nat /\ MaxDepth \in Nat /\ search.depth \in Nat
            BY <1>1, <1>2, <2>3, Levels, TraceAssumption DEF BackInv
        <3> QED
            BY <1>1, <1>2, <1>4, <2>3, <3>1 DEF BackInv, TooDeep
    <2>4. ASSUME Unambiguous(search.asked) PROVE ClearInv'
        BY <2>2, <2>3, <2>4 DEF ClearInv, Back, Down, Looking, SearchAt, Excused
    <2> QED
        BY <1>1, <2>2, <2>4 DEF SearchInv, SearchAt
<1>5. CASE InMsg[t] # None /\ ~(search.depth > MaxDepth)
    <2> DEFINE look == [account |-> Source[InMsg[t]], lt |-> CreatedLt[InMsg[t]],
                        block |-> BlockOf[t], back |-> TRUE, near |-> FALSE]
    <2>1. SearchSet([pc |-> "cache", depth |-> search.depth, look |-> look])
        BY <1>5 DEF FindRoot, Look
    <2>2. /\ DOMAIN search' = SearchFields /\ search'.pc = "cache"
          /\ search'.asked = search.asked /\ search'.tx = search.tx
          /\ search'.depth = search.depth /\ search'.look = look
          /\ search'.stack = search.stack
          /\ search'.failed = search.failed /\ search'.pruned = search.pruned
        <3> HIDE DEF look
        <3> QED
            BY <1>1, <2>1, SearchSetFields DEF SearchFields
    <2>3. ASSUME Unambiguous(search.asked) PROVE ClearInv'
        <3>1. Sought' = InMsg[t] /\ Here' = t
            BY <2>2 DEF Sought, Here
        <3>2. InMsg[t] \in Msg
            BY <1>2, <1>5, <2>3, InMsgs
        <3>3. /\ search'.look.back = TRUE /\ search'.look.near = FALSE
              /\ search'.look.account = Source[InMsg[t]] /\ search'.look.lt = CreatedLt[InMsg[t]]
              /\ search'.look.block = BlockOf[t]
              /\ DOMAIN search'.look = {"account", "lt", "block", "back", "near"}
            BY <2>2
        <3> HIDE DEF look
        <3>4. LookInv'
            BY <3>1, <3>2, <3>3 DEF LookInv
        <3>5. BackInv'
            BY <1>2, <2>2, <2>3 DEF BackInv
        <3> QED
            BY <2>2, <3>3, <3>4, <3>5 DEF ClearInv, Down, Looking, SearchAt
    <2> QED
        BY <1>1, <2>2, <2>3 DEF SearchInv, SearchAt
<1> QED
    BY <1>3, <1>4, <1>5

\* What a message led to, when less or when more may be cut off.
LEMMA LedToTraces ==
    ASSUME NEW p \in BOOLEAN, NEW q \in BOOLEAN, p => q, NEW m
    PROVE  /\ LedTo(Traces(p), m) \subseteq LedTo(Traces(q), m)
           /\ LedTo(Traces(p), m) \subseteq Child
<1>1. LedTo(Traces(p), m) \subseteq LedTo(Traces(q), m)
    BY WholeIsPruned DEF Traces
<1>2. LedTo(Traces(p), m) \subseteq LedTo(Pruned, m)
    BY WholeIsPruned DEF Traces
<1>3. LedTo(Pruned, m) \subseteq Child
    BY DEF LedTo, Child
<1> QED
    BY <1>1, <1>2, <1>3

\* The last of a sequence is replaced, and the children of a frame.
LEMMA LastOneReplaced ==
    ASSUME NEW S, NEW d \in Nat \ {0}, NEW sub \in Seq(S), Len(sub) = d, NEW top \in S
    PROVE  LET new == [sub EXCEPT ![d] = top]
           IN /\ new \in Seq(S) /\ Len(new) = d /\ new[d] = top
              /\ \A k \in 1..(d - 1) : new[k] = sub[k]
<1>1. sub \in [1..d -> S] /\ d \in 1..d
    OBVIOUS
<1> DEFINE new == [sub EXCEPT ![d] = top]
<1>2. new \in [1..d -> S] /\ new[d] = top
    BY <1>1
<1>3. \A k \in 1..(d - 1) : new[k] = sub[k]
    BY <1>1
<1> HIDE DEF new
<1>4. new \in Seq(S)
    BY <1>2
<1>5. Len(new) = d
    BY <1>2
<1> QED
    BY <1>2, <1>3, <1>4, <1>5 DEF new

LEMMA ChildrenReplaced ==
    ASSUME NEW t, NEW c, NEW e, NEW f, f = [tx |-> t, children |-> c]
    PROVE  [f EXCEPT !.children = e] = [tx |-> t, children |-> e]
OBVIOUS

\* A child more for frame d, what is above it being dropped.
LEMMA WithChildStack ==
    ASSUME search.stack \in Seq(Frames), NEW d \in 1..Depth, NEW child \in Child
    PROVE  /\ WithChild(d, child) \in Seq(Frames) /\ Len(WithChild(d, child)) = d
           /\ \A k \in 1..(d - 1) : WithChild(d, child)[k] = search.stack[k]
           /\ WithChild(d, child)[d].tx = search.stack[d].tx
           /\ WithChild(d, child)[d].children = Append(search.stack[d].children, child)
<1> DEFINE s == search.stack
           sub == SubSeq(s, 1, d)
           kids == Append(s[d].children, child)
           top == [tx |-> s[d].tx, children |-> kids]
           new == [sub EXCEPT ![d] = top]
<1>1. Depth \in Nat /\ Depth = Len(s) /\ s \in Seq(Frames) /\ d \in Nat \ {0}
    BY DEF Depth
<1>2. sub \in Seq(Frames) /\ Len(sub) = d /\ \A k \in 1..d : sub[k] = s[k]
    BY <1>1
<1>3. s[d] \in Frames
    BY <1>1
<1>4. s[d].children \in Seq(Child) /\ s[d].tx \in Tx /\ s[d] = [tx |-> s[d].tx, children |-> s[d].children]
    BY <1>3 DEF Frames
<1>5. kids \in Seq(Child)
    BY <1>4
<1>6. top \in Frames
    BY <1>4, <1>5 DEF Frames
<1>7. sub[d] = s[d] /\ sub[d] = [tx |-> s[d].tx, children |-> s[d].children]
    BY <1>1, <1>2, <1>4
<1>8. [sub[d] EXCEPT !.children = kids] = top
    <2> HIDE DEF kids, sub, s
    <2> QED
        BY <1>7, ChildrenReplaced
<1>9. WithChild(d, child) = [sub EXCEPT ![d] = [sub[d] EXCEPT !.children = Append(sub[d].children, child)]]
    BY DEF WithChild
<1> HIDE DEF sub, top
<1>10. WithChild(d, child) = new
    BY <1>7, <1>8, <1>9
<1>11. /\ new \in Seq(Frames) /\ Len(new) = d /\ new[d] = top
       /\ \A k \in 1..(d - 1) : new[k] = sub[k]
    BY <1>1, <1>2, <1>6, LastOneReplaced
<1> HIDE DEF new
<1>12. \A k \in 1..(d - 1) : new[k] = s[k]
    BY <1>2, <1>11
<1>13. top.tx = s[d].tx /\ top.children = kids
    BY DEF top
<1> QED
    BY <1>10, <1>11, <1>12, <1>13

\* The child is what the next message of the frame led to.
LEMMA ChildStep ==
    ASSUME StackInv, NEW d \in 1..Depth, NEW child,
           search.pruned \in BOOLEAN, search'.pruned \in BOOLEAN, search.pruned => search'.pruned,
           Len(search.stack[d].children) < Len(OutMsgs[search.stack[d].tx]),
           child \in LedTo(Traces(search'.pruned),
                           OutMsgs[search.stack[d].tx][Len(search.stack[d].children) + 1]),
           search'.stack = WithChild(d, child), search'.asked = search.asked
    PROVE  StackInv'
<1> DEFINE s == search.stack
           new == WithChild(d, child)
<1>1. child \in Child
    BY LedToTraces
<1>2. s \in Seq(Frames) /\ Depth \in Nat /\ Depth = Len(s)
    BY DEF StackInv, Depth
<1>3. /\ new \in Seq(Frames) /\ Len(new) = d
      /\ \A k \in 1..(d - 1) : new[k] = s[k]
      /\ new[d].tx = s[d].tx /\ new[d].children = Append(s[d].children, child)
    BY <1>1, <1>2, WithChildStack
<1> HIDE DEF new
<1>4. search'.stack = new /\ Depth' = d
    BY <1>3 DEF new, Depth
<1>5. ASSUME NEW k \in 1..d PROVE FrameInv(search.stack, k)'
    <2>1. FrameInv(s, k) /\ k \in Nat
        BY <1>2 DEF StackInv
    <2>2. \A m : LedTo(Traces(search.pruned), m) \subseteq LedTo(Traces(search'.pruned), m)
        BY LedToTraces
    <2>3. CASE k \in 1..(d - 1)
        <3>1. new[k] = s[k] /\ new[k + 1].tx = s[k + 1].tx /\ k < Len(s)
            BY <1>2, <1>3, <2>3
        <3> HIDE DEF s
        <3> QED
            BY <1>3, <1>4, <2>1, <2>2, <3>1 DEF FrameInv, s
    <2>4. CASE k = d
        <3> DEFINE kids == s[d].children
        <3>0. s[d] \in Frames
            BY <1>2
        <3>1. s[d].children \in Seq(Child) /\ s[d].tx \in Tx
            BY <3>0 DEF Frames
        <3>2. /\ Len(kids) \in Nat /\ Len(Append(kids, child)) = Len(kids) + 1
              /\ Append(kids, child)[Len(kids) + 1] = child
              /\ \A i \in 1..Len(kids) : Append(kids, child)[i] = kids[i]
            BY <3>1
        <3>3. OutMsgs[s[d].tx] \in Seq(Msg \cup {None})
            BY <3>1, TraceAssumption
        <3>4. Len(OutMsgs[s[d].tx]) \in Nat
            BY <3>3
        <3>5. \A i \in 1..(Len(kids) + 1) :
                 Append(kids, child)[i] \in LedTo(Traces(search'.pruned), OutMsgs[s[d].tx][i])
            <4>1. \A i \in 1..Len(kids) : kids[i] \in LedTo(Traces(search.pruned), OutMsgs[s[d].tx][i])
                BY <2>1, <2>4 DEF FrameInv
            <4> HIDE DEF kids, s
            <4>2. ASSUME NEW i \in 1..(Len(kids) + 1)
                  PROVE  i \in 1..Len(kids) \/ i = Len(kids) + 1
                BY <3>2
            <4> QED
                BY <2>2, <3>2, <4>1, <4>2 DEF kids, s
        <3>6. Len(kids) + 1 <= Len(OutMsgs[s[d].tx])
            BY <3>2, <3>4
        <3>7. /\ Root[s[d].tx] = Root[search.asked] /\ Level[s[d].tx] = k - 1
              /\ k = 1 => s[d].tx = Root[search.asked]
            BY <2>1, <2>4 DEF FrameInv
        <3>8. ~(k < Len(new))
            BY <1>3, <2>1, <2>4
        <3>9. new[k].tx = s[d].tx /\ new[k].children = Append(kids, child)
            BY <1>3, <2>4
        <3> HIDE DEF kids, s
        <3> QED
            BY <1>4, <3>2, <3>5, <3>6, <3>7, <3>8, <3>9 DEF FrameInv
    <2> QED
        BY <2>3, <2>4
<1> QED
    BY <1>3, <1>4, <1>5 DEF StackInv

LEMMA NextChildStep ==
    ASSUME SearchInv, NextChild PROVE SearchInv'
<1>1. /\ SearchAt("children") /\ indexed' \subseteq Tx /\ ~AllTried
      /\ DOMAIN search = SearchFields /\ search.asked \in Tx
      /\ search.failed \in BOOLEAN /\ search.pruned \in BOOLEAN
    BY DEF NextChild, TraceCaches, SearchInv, SearchAt
<1>2. ASSUME Unambiguous(search.asked) PROVE StackInv
    BY <1>1, <1>2 DEF SearchInv, ClearInv, Down, SearchAt
<1>3. CASE NextMsg = None
    <2> DEFINE new == WithChild(Depth, None)
    <2>1. SearchSet([stack |-> new])
        BY <1>3 DEF NextChild
    <2>2. /\ DOMAIN search' = SearchFields
          /\ search'.pc = "children" /\ search'.stack = new
          /\ search'.asked = search.asked
          /\ search'.failed = search.failed /\ search'.pruned = search.pruned
        <3> HIDE DEF new
        <3> QED
            BY <1>1, <2>1, SearchSetFields DEF SearchFields, SearchAt
    <2>3. ASSUME Unambiguous(search.asked) PROVE StackInv'
        <3>1. /\ Len(Top.children) \in Nat /\ Len(OutMsgs[Top.tx]) \in Nat
              /\ FrameInv(search.stack, Depth) /\ Depth \in Nat \ {0} /\ StackInv
            BY <1>2, <2>3, OnTop
        <3>2. Len(Top.children) < Len(OutMsgs[Top.tx])
            BY <1>1, <3>1 DEF AllTried, FrameInv, Top
        <3>3. None \in LedTo(Traces(search'.pruned), OutMsgs[Top.tx][Len(Top.children) + 1])
            BY <1>3 DEF LedTo, NextMsg
        <3> QED
            BY <1>1, <2>2, <3>1, <3>2, <3>3, ChildStep DEF Top
    <2>4. ASSUME Unambiguous(search.asked) PROVE ClearInv'
        BY <2>2, <2>3, <2>4 DEF ClearInv, Back, Down, Looking, SearchAt
    <2> QED
        BY <1>1, <2>2, <2>4 DEF SearchInv, SearchAt
<1>4. CASE NextMsg # None /\ Depth > MaxDepth
    <2>1. SearchSet([pc |-> "error", deep |-> TRUE])
        BY <1>4 DEF NextChild, Look
    <2>2. /\ DOMAIN search' = SearchFields /\ search'.pc = "error" /\ search'.deep = TRUE
          /\ search'.asked = search.asked
          /\ search'.failed = search.failed /\ search'.pruned = search.pruned
        BY <1>1, <2>1, SearchSetFields DEF SearchFields
    <2>3. ASSUME Unambiguous(search.asked)
          PROVE  TooDeep(search.asked) \/ ~Near(search.asked)
        <3>1. /\ Top.tx \in Tx /\ NextMsg \in Msg /\ Sends(Top.tx, NextMsg)
              /\ Root[Top.tx] = Root[search.asked] /\ Level[Top.tx] = Depth - 1 /\ Depth \in Nat
            BY <1>1, <1>2, <1>4, <2>3, OnTop DEF FrameInv, Top
        <3>2. SUFFICES ASSUME Near(search.asked) PROVE TooDeep(search.asked)
            OBVIOUS
        <3>3. PICK v \in Tx : InMsg[v] = NextMsg
            BY <3>1, <3>2 DEF Near
        <3>4. Root[v] = Root[Top.tx] /\ Level[v] = Level[Top.tx] + 1
            BY <1>4, <3>1, <3>3, Below DEF LedFrom
        <3>5. Level[v] > MaxDepth
            BY <1>4, <3>1, <3>4
        <3> QED
            BY <3>1, <3>4, <3>5 DEF TooDeep
    <2>4. ASSUME Unambiguous(search.asked) PROVE ClearInv'
        BY <2>2, <2>3, <2>4 DEF ClearInv, Back, Down, Looking, SearchAt, Excused
    <2> QED
        BY <1>1, <2>2, <2>4 DEF SearchInv, SearchAt
<1>5. CASE NextMsg # None /\ ~(Depth > MaxDepth)
    <2> DEFINE look == [account |-> Destination[NextMsg], lt |-> CreatedLt[NextMsg],
                        block |-> BlockOf[Top.tx], back |-> FALSE, near |-> FALSE]
    <2>1. SearchSet([pc |-> "cache", depth |-> Depth, look |-> look])
        BY <1>5 DEF NextChild, Look
    <2>2. /\ DOMAIN search' = SearchFields /\ search'.pc = "cache"
          /\ search'.asked = search.asked /\ search'.look = look
          /\ search'.stack = search.stack
          /\ search'.failed = search.failed /\ search'.pruned = search.pruned
        <3> HIDE DEF look
        <3> QED
            BY <1>1, <2>1, SearchSetFields DEF SearchFields
    <2>3. ASSUME Unambiguous(search.asked) PROVE ClearInv'
        <3>1. /\ search'.look.back = FALSE /\ search'.look.near = FALSE
              /\ search'.look.account = Destination[NextMsg] /\ search'.look.lt = CreatedLt[NextMsg]
              /\ search'.look.block = BlockOf[Top.tx]
              /\ DOMAIN search'.look = {"account", "lt", "block", "back", "near"}
            BY <2>2
        <3> HIDE DEF look
        <3>2. Sought' = NextMsg /\ Here' = Top.tx /\ AllTried' = AllTried
            BY <2>2, <3>1 DEF Sought, Here, AllTried, NextMsg, Top, Depth
        <3>3. NextMsg \in Msg
            BY <1>1, <1>2, <1>5, <2>3, OnTop
        <3>4. LookInv'
            BY <1>1, <3>1, <3>2, <3>3 DEF LookInv
        <3>5. StackInv'
            BY <1>2, <2>2, <2>3, SameStack
        <3> QED
            BY <2>2, <3>1, <3>4, <3>5 DEF ClearInv, Back, Looking, SearchAt
    <2> QED
        BY <1>1, <2>2, <2>3 DEF SearchInv, SearchAt
<1> QED
    BY <1>3, <1>4, <1>5

\* A trace that is one of the transaction on top goes to the frame below, or is the answer.
LEMMA ReturnTraceStep ==
    ASSUME SearchInv, SearchAt("children"), NEW trace, NEW pruned \in BOOLEAN,
           ReturnTrace(trace, pruned), indexed' \subseteq Tx,
           StackInv => trace \in Traces(search.pruned \/ pruned)[Top.tx]
    PROVE  SearchInv'
<1>1. /\ DOMAIN search = SearchFields /\ search.asked \in Tx
      /\ search.failed \in BOOLEAN /\ search.pruned \in BOOLEAN
    BY DEF SearchInv, SearchAt
<1>2. ASSUME Unambiguous(search.asked) PROVE StackInv
    BY <1>1, <1>2 DEF SearchInv, ClearInv, Down, SearchAt
<1>3. CASE Depth = 1
    <2>1. SearchSet([pc |-> "done", trace |-> trace, pruned |-> search.pruned \/ pruned])
        BY <1>3 DEF ReturnTrace
    <2>2. /\ DOMAIN search' = SearchFields /\ search'.pc = "done" /\ search'.trace = trace
          /\ search'.asked = search.asked
          /\ search'.failed = search.failed /\ search'.pruned = (search.pruned \/ pruned)
        BY <1>1, <2>1, SearchSetFields DEF SearchFields
    <2>3. ASSUME Unambiguous(search.asked)
          PROVE  trace \in Traces(search.pruned \/ pruned)[Root[search.asked]]
        <3>1. Top.tx = Root[search.asked]
            BY <1>2, <1>3, <2>3, OnTop DEF FrameInv, Top
        <3> QED
            BY <1>2, <2>3, <3>1
    <2>4. ASSUME Unambiguous(search.asked) PROVE ClearInv'
        BY <2>2, <2>3, <2>4 DEF ClearInv, Back, Down, Looking, SearchAt, Answered, Traces
    <2> QED
        BY <1>1, <2>2, <2>4 DEF SearchInv, SearchAt
<1>4. CASE Depth # 1
    <2> DEFINE new == WithChild(Depth - 1, trace)
    <2>1. SearchSet([pruned |-> search.pruned \/ pruned, stack |-> new])
        BY <1>4 DEF ReturnTrace
    <2>2. /\ DOMAIN search' = SearchFields
          /\ search'.pc = "children" /\ search'.stack = new
          /\ search'.asked = search.asked
          /\ search'.failed = search.failed /\ search'.pruned = (search.pruned \/ pruned)
        <3> HIDE DEF new
        <3> QED
            BY <1>1, <2>1, SearchSetFields DEF SearchFields, SearchAt
    <2>3. ASSUME Unambiguous(search.asked) PROVE StackInv'
        <3> DEFINE d == Depth - 1
                   f == search.stack[d]
        <3>1. StackInv /\ Top.tx \in Tx /\ d \in 1..Depth /\ d < Len(search.stack) /\ d + 1 = Depth
            <4>1. StackInv /\ Top.tx \in Tx /\ Depth \in Nat \ {0}
                BY <1>2, <2>3, OnTop
            <4>2. Depth = Len(search.stack)
                BY DEF Depth
            <4>3. \A n \in Nat \ {0} : n # 1 => n - 1 \in 1..n /\ n - 1 < n /\ n - 1 + 1 = n
                OBVIOUS
            <4>4. d \in 1..Depth /\ d < Depth /\ d + 1 = Depth
                BY <1>4, <4>1, <4>3
            <4> QED
                BY <4>1, <4>2, <4>4
        <3>2. FrameInv(search.stack, d)
            BY <3>1 DEF StackInv
        <3>3. /\ Len(f.children) < Len(OutMsgs[f.tx])
              /\ InMsg[Top.tx] # None
              /\ InMsg[Top.tx] = OutMsgs[f.tx][Len(f.children) + 1]
            <4> HIDE DEF d
            <4> QED
                BY <3>1, <3>2 DEF FrameInv, Top
        <3>4. trace \in LedTo(Traces(search'.pruned), InMsg[Top.tx])
            BY <2>2, <3>1, <3>3 DEF LedTo
        <3>5. search'.pruned \in BOOLEAN /\ (search.pruned => search'.pruned)
            BY <1>1, <2>2
        <3> HIDE DEF d
        <3>6. search'.stack = WithChild(d, trace)
            BY <2>2 DEF d
        <3> QED
            BY <1>1, <2>2, <3>1, <3>3, <3>4, <3>5, <3>6, ChildStep
    <2>4. ASSUME Unambiguous(search.asked) PROVE ClearInv'
        BY <2>2, <2>3, <2>4 DEF ClearInv, Back, Down, Looking, SearchAt
    <2> QED
        BY <1>1, <2>2, <2>4 DEF SearchInv, SearchAt
<1> QED
    BY <1>3, <1>4

LEMMA GetInterfacesStep ==
    ASSUME SearchInv, GetInterfaces PROVE SearchInv'
<1>1. /\ SearchAt("children") /\ indexed' \subseteq Tx /\ AllTried /\ search.pruned \in BOOLEAN
    BY DEF GetInterfaces, TraceCaches, SearchInv
<1>2. CASE ReturnTrace(Top, FALSE)
    <2>1. ASSUME StackInv PROVE Top \in Traces(search.pruned)[Top.tx]
        <3> DEFINE c == Top.children
                   out == OutMsgs[Top.tx]
        <3>1. /\ Top.tx \in Tx /\ Top \in Frames /\ c \in Seq(Child) /\ Len(c) = Len(out)
              /\ out \in Seq(Msg \cup {None}) /\ Len(c) \in Nat
            BY <1>1, <2>1, OnTop DEF AllTried
        <3>2. Top = [tx |-> Top.tx, children |-> c]
            BY <3>1 DEF Frames
        <3>3. DOMAIN out = 1..Len(c) /\ c = [i \in 1..Len(c) |-> c[i]]
            BY <3>1
        <3>4. \A i \in 1..Len(c) : c[i] \in LedTo(Traces(search.pruned), out[i])
            BY <2>1, OnTop DEF FrameInv, Top
        <3> HIDE DEF c, out
        <3>5. [tx |-> Top.tx, children |-> c] \in Joined(Traces(search.pruned), Top.tx)
            BY <3>1, <3>3, <3>4, JoinedTrace DEF out
        <3>6. Top \in Joined(Traces(search.pruned), Top.tx)
            BY <3>2, <3>5
        <3> QED
            BY <1>1, <3>1, <3>6, WholeTraces, PrunedTraces DEF Traces
    <2>2. (search.pruned \/ FALSE) = search.pruned
        BY <1>1
    <2> QED
        BY <1>1, <1>2, <2>1, <2>2, ReturnTraceStep
<1>3. CASE ReturnTrace(EmptyTrace, TRUE)
    <2>1. ASSUME StackInv PROVE EmptyTrace \in Traces(search.pruned \/ TRUE)[Top.tx]
        BY <2>1, OnTop, PrunedTraces DEF Traces
    <2> QED
        BY <1>1, <1>3, <2>1, ReturnTraceStep
<1> QED
    BY <1>2, <1>3 DEF GetInterfaces

LEMMA GetTransactionStep ==
    ASSUME SearchInv, NEW t \in Tx, GetTransaction(t) PROVE SearchInv'
<1>1. /\ search = NoSearch /\ indexed' \subseteq Tx /\ DOMAIN search = SearchFields
    BY DEF GetTransaction, TraceCaches, SearchInv
<1>2. /\ search.depth = 0 /\ search.stack = <<>>
      /\ search.failed = FALSE /\ search.pruned = FALSE
    BY <1>1 DEF NoSearch
<1>3. CASE t \in indexed
    <2>1. SearchSet([pc |-> "root", asked |-> t, tx |-> t])
        BY <1>3 DEF GetTransaction
    <2>2. /\ DOMAIN search' = SearchFields
          /\ search'.pc = "root" /\ search'.asked = t /\ search'.tx = t
          /\ search'.depth = 0 /\ search'.stack = <<>>
          /\ search'.failed = FALSE /\ search'.pruned = FALSE
        BY <1>1, <1>2, <2>1, SearchSetFields DEF SearchFields
    <2>3. BackInv'
        BY <2>2, Levels DEF BackInv
    <2>4. ClearInv'
        BY <2>2, <2>3 DEF ClearInv, Down, Looking, SearchAt
    <2> QED
        BY <1>1, <2>2, <2>4 DEF SearchInv, SearchAt
<1>4. CASE t \notin indexed
    <2>1. SearchSet([pc |-> "error", asked |-> t, failed |-> TRUE])
        BY <1>4 DEF GetTransaction
    <2>2. /\ DOMAIN search' = SearchFields
          /\ search'.pc = "error" /\ search'.asked = t
          /\ search'.failed = TRUE /\ search'.pruned = FALSE
        BY <1>1, <1>2, <2>1, SearchSetFields DEF SearchFields
    <2>3. ClearInv'
        BY <2>2 DEF ClearInv, Back, Down, Looking, SearchAt
    <2> QED
        BY <1>1, <2>2, <2>3 DEF SearchInv, SearchAt
<1> QED
    BY <1>3, <1>4

\* The invariant speaks of the index only to say that it holds transactions.
LEMMA SameSearch ==
    ASSUME SearchInv, indexed' \subseteq Tx, search' = search PROVE SearchInv'
<1>1. ClearInv => ClearInv'
    <2>1. StackInv => StackInv'
        BY SameStack
    <2>2. LookInv => LookInv'
        <3>1. Sought' = Sought /\ Here' = Here /\ AllTried' = AllTried
            BY DEF Sought, Here, AllTried, NextMsg, Top, Depth
        <3>2. NotIn(BlockOf[Here]) => NotIn(BlockOf[Here])'
            BY <3>1 DEF NotIn
        <3> QED
            BY <3>1, <3>2 DEF LookInv
    <2> QED
        BY <2>1, <2>2 DEF ClearInv, Back, Down, Looking, BackInv, Answered, Excused, SearchAt
<1> QED
    BY <1>1 DEF SearchInv, SearchAt

LEMMA SearchStep == SearchInv /\ [TraceNext]_traceVars => SearchInv'
<1> SUFFICES ASSUME SearchInv, [TraceNext]_traceVars PROVE SearchInv'
    OBVIOUS
<1>1. CASE SearchTxInCache
    BY <1>1, SearchTxInCacheStep
<1>2. CASE SearchTransactionInBlock
    BY <1>2, SearchTransactionInBlockStep
<1>3. CASE FindRoot
    BY <1>3, FindRootStep
<1>4. CASE NextChild
    BY <1>4, NextChildStep
<1>5. CASE GetInterfaces
    BY <1>5, GetInterfacesStep
<1>6. ASSUME NEW t \in Tx, GetTransaction(t) PROVE SearchInv'
    BY <1>6, GetTransactionStep
<1>7. ASSUME NEW t \in Tx, IndexTx(t) PROVE SearchInv'
    <2>1. search' = search /\ indexed' \subseteq Tx
        BY <1>7, TraceAssumption DEF IndexTx, SearchInv
    <2> QED
        BY <2>1, SameSearch
<1>8. CASE UNCHANGED traceVars
    <2>1. search' = search /\ indexed' \subseteq Tx
        BY <1>8 DEF traceVars, SearchInv
    <2> QED
        BY <2>1, SameSearch
<1> QED
    BY <1>1, <1>2, <1>3, <1>4, <1>5, <1>6, <1>7, <1>8 DEF TraceNext, GetTrace

\* Whatever the index holds and gets meanwhile, and whichever calls fail: GetTrace answers the
\* trace of the transaction asked for, less only the subtrees of accounts whose interfaces could
\* not be read, as long as account and created lt tell its messages from others. It answers unless
\* a call failed, the trace is deeper than the limit, one of its messages is of an account to
\* itself, or one went to another shard or took more than a block.
THEOREM TracesAreRight == TraceSpec => []TraceIsRight
<1>1. TraceSpec => []SearchInv
    BY SearchInitially, SearchStep, PTL DEF TraceSpec
<1> QED
    BY <1>1, SearchRight, PTL
=============================================================================
