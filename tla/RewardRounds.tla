---------------------------- MODULE RewardRounds ----------------------------
(***************************************************************************)
(* pkg/rewards/service/rounds.go, shared.go, pool.go: what the rewards     *)
(* service tells of a validation round.  FetchRoundRewards ("rewards")     *)
(* looks up a block of the round, walks from the times of config 34 to the *)
(* blocks where the election id changes, and shares the bonuses of the     *)
(* election among its validators and their nominators.                     *)
(* FetchValidationRounds ("rounds") tells the boundaries only.             *)
(*                                                                         *)
(* Lite servers are external: every call may fail, and a block looked up   *)
(* by time is either neighbour of that time.  FetchValidationRounds has a  *)
(* limit of 1, so the loop over further rounds never runs.                 *)
(***************************************************************************)
EXTENDS Integers, FiniteSets, FiniteSetsExt

CONSTANTS
    LastSeqno,  \* the last masterchain block; there are 0..LastSeqno
    Utime,      \* Utime[b]
    Since,      \* Since[b]: since of config 34 at b, the id of its election
    Until,      \* Until[e]: until of config 34 in the round of e
    Now,        \* time.Now()
    MaxBoundarySearch,
    Key,        \* public keys of validators
    Frozen,     \* Frozen[e]: key -> true stake, of the validators of election e
    Bonuses,    \* Bonuses[e]
    Past,       \* Past[b]: the elections past_elections lists at b
    Amounts,    \* Amounts[k]: nominator -> amount in the pool of validator k
    RewardShare,\* RewardShare[k]: of 10000
    Times,      \* unix times asked for
    Nil

Seqno == 0..LastSeqno
Elections == {Since[b] : b \in Seqno}

\* The block after t and the block before it.
NearestBlocks(t) == {b \in Seqno :
    \/ Utime[b] >= t /\ \A c \in Seqno : Utime[c] >= t => b <= c
    \/ Utime[b] <= t /\ \A c \in Seqno : Utime[c] <= t => b >= c}

\* Where a walk from the blocks nearest to t may find that the round changes:
\* between a block and the next.
Changes(t) == {b \in 0..LastSeqno - 1 :
    /\ Since[b] # Since[b + 1]
    /\ \E base \in NearestBlocks(t) :
          b \in base - MaxBoundarySearch .. base + MaxBoundarySearch - 1}

\* Rounds last longer than two walks: at the time a round begins no other does, and
\* when its time is up no other ends.  It may begin late, or out of reach.
ASSUME RoundsApart ==
    /\ LastSeqno \in Nat /\ MaxBoundarySearch \in Nat \ {0}
    /\ \A e \in Elections :
          /\ \A b \in Changes(e) : Since[b + 1] = e
          /\ \A b \in Changes(Until[e]) : Since[b] = e

\* Stakes, bonuses and deposits are amounts; elections are numbered by their time.
ASSUME AmountsKnown ==
    /\ \A b \in Seqno : IsFiniteSet(Past[b]) /\ Past[b] \subseteq Nat
    /\ \A e \in Elections \cup UNION {Past[b] : b \in Seqno} :
          /\ IsFiniteSet(DOMAIN Frozen[e]) /\ DOMAIN Frozen[e] \subseteq Key
          /\ \A k \in DOMAIN Frozen[e] : Frozen[e][k] \in Nat
    /\ \A e \in Elections : Bonuses[e] \in Nat
    /\ \A k \in Key :
          /\ IsFiniteSet(DOMAIN Amounts[k]) /\ RewardShare[k] \in Nat
          /\ \A n \in DOMAIN Amounts[k] : Amounts[k][n] \in Nat

VARIABLE fetch   \* a request, at fetch.pc

\* A walk of findElectionBoundary: i steps were made from block base, of
\* election eid.  ret says what it was called for.  missed counts the lookups
\* that failed each way (history).
NoWalk == [ret |-> "none", base |-> 0, eid |-> 0, fwd |-> 0, bwd |-> 0, i |-> 0,
           missedFwd |-> 0, missedBwd |-> 0]
NoReply == [start |-> 0, end |-> 0, prev |-> Nil, next |-> Nil,
            election |-> Nil, finished |-> FALSE]

RoundInit == fetch = [pc |-> "idle", kind |-> "rewards", query |-> "block",
    value |-> 0, anchor |-> 0, walk |-> NoWalk, reply |-> NoReply,
    rewards |-> Nil, shares |-> Nil]

FetchAt(pc) == fetch.pc = pc
SetFetch(fields) == fetch' = [f \in DOMAIN fetch |->
    IF f \in DOMAIN fields THEN fields[f] ELSE fetch[f]]
FetchFails == SetFetch([pc |-> "error"])
Reply(fields) == [f \in DOMAIN NoReply |->
    IF f \in DOMAIN fields THEN fields[f] ELSE fetch.reply[f]]

AskRounds(kind, query, value) ==
    /\ FetchAt("idle")
    /\ SetFetch([pc |-> "anchor", kind |-> kind, query |-> query, value |-> value])

\* FetchValidationRounds looks at block and election_id, else takes the head.
Anchors ==
    CASE fetch.query = "block" -> {fetch.value} \cap Seqno
      [] fetch.query = "election_id"
         \/ (fetch.query = "unixtime" /\ fetch.kind = "rewards") ->
             NearestBlocks(fetch.value)
      [] OTHER -> {LastSeqno}

\* getAnchorExt
GetAnchor ==
    /\ FetchAt("anchor")
    /\ FetchFails \/ \E b \in Anchors : SetFetch([pc |-> "round", anchor |-> b])

-----------------------------------------------------------------------------
(* findElectionBoundary *)

WalkFrom(t, ret, reply) ==
    \E b \in NearestBlocks(t) :
        SetFetch([pc |-> "base", reply |-> reply,
             walk |-> [NoWalk EXCEPT !.ret = ret, !.base = b, !.fwd = b, !.bwd = b]])

\* What its callers do with a boundary between blocks b and b + 1, if any.
Return(walk, b) ==
    IF b = Nil
    THEN IF walk.ret = "roundEnd"
         THEN WalkFrom(fetch.reply.election, "prev", fetch.reply)
         ELSE SetFetch([pc |-> "error", walk |-> walk])
    ELSE CASE walk.ret = "start" ->
                 WalkFrom(Until[Since[fetch.anchor]], "end",
                     Reply([start |-> b + 1, prev |-> Since[b],
                            election |-> Since[b + 1]]))
           [] walk.ret = "end" ->
                 SetFetch([pc |-> "data", walk |-> walk,
                      reply |-> Reply([end |-> b, next |-> Since[b + 1]])])
           [] walk.ret = "roundEnd" ->
                 WalkFrom(fetch.reply.election, "prev", Reply([end |-> b]))
           [] walk.ret = "prev" ->
                 SetFetch([pc |-> "done", walk |-> walk,
                      reply |-> Reply([prev |-> Since[b],
                          next |-> IF fetch.reply.finished
                                   THEN Until[fetch.reply.election] ELSE Nil])])

\* The lookup by time or config 34 at that block fails, or the walk begins.
BoundaryBase ==
    /\ FetchAt("base")
    /\ \/ Return(fetch.walk, Nil)
       \/ SetFetch([pc |-> "forward",
               walk |-> [fetch.walk EXCEPT !.eid = Since[fetch.walk.base]]])

\* Mutant: a block that could not be looked up counts as looked at.
StepOver(walk) == [walk EXCEPT !.fwd = @ + 1, !.missedFwd = @ + 1]
MissForward(walk) == [walk EXCEPT !.missedFwd = @ + 1]

\* One step forward: the lookup of the block fails, which is passed over, or
\* config 34 cannot be read, which ends it, or the block is looked at.
Forward ==
    /\ FetchAt("forward")
    /\ LET w == fetch.walk
           b == w.fwd + 1
       IN \/ SetFetch([pc |-> "backward", walk |-> MissForward(w)])
          \/ b <= LastSeqno /\ Return(w, Nil)
          \/ /\ b <= LastSeqno
             /\ IF Since[b] # w.eid
                THEN Return(w, w.fwd)
                ELSE SetFetch([pc |-> "backward", walk |-> [w EXCEPT !.fwd = b]])

\* The end of a turn of the loop.
Turn(walk) ==
    IF walk.i + 1 = MaxBoundarySearch
    THEN Return([walk EXCEPT !.i = @ + 1], Nil)
    ELSE SetFetch([pc |-> "forward", walk |-> [walk EXCEPT !.i = @ + 1]])

Backward ==
    /\ FetchAt("backward")
    /\ LET w == fetch.walk
           b == w.bwd - 1
       IN \/ Turn([w EXCEPT !.missedBwd = @ + 1])
          \/ b >= 0 /\ Return(w, Nil)
          \/ /\ b >= 0
             /\ IF Since[b] # w.eid
                THEN Return(w, b)
                ELSE Turn([w EXCEPT !.bwd = b])

-----------------------------------------------------------------------------
(* FetchRoundRewards and FetchValidationRounds *)

\* getConfigParam34 at the anchor, then the first walk.
ReadRound ==
    /\ FetchAt("round") /\ fetch.kind = "rewards"
    /\ LET since == Since[fetch.anchor] IN
       \/ FetchFails
       \/ IF Until[since] > Now THEN FetchFails ELSE WalkFrom(since, "start", NoReply)

\* Without config 34 or the start of the round the answer has no round.
ReadAnchorRound ==
    /\ FetchAt("round") /\ fetch.kind = "rounds"
    /\ LET since == Since[fetch.anchor] IN
       \/ SetFetch([pc |-> "done"])
       \/ \E b \in NearestBlocks(since) :
             IF Until[since] < Now
             THEN WalkFrom(Until[since], "roundEnd",
                      Reply([election |-> since, start |-> b, finished |-> TRUE]))
             ELSE WalkFrom(since, "prev", Reply([election |-> since, start |-> b]))

\* getAllPoolAddresses: of all the elections with the key the newest counts.
PoolStake(b, k) ==
    LET of == {e \in Past[b] : k \in DOMAIN Frozen[e]}
    IN IF of = {} THEN 0 ELSE Frozen[Max(of)][k]

MulDiv(a, b, c) == (a * b) \div c
Sum(f) == MapThenSumSet(LAMBDA x : f[x], DOMAIN f)

\* Mutant: all stakes of the elector, not those of the validators of the round.
TotalOfAll(b, validators) == Sum([k \in Key |-> PoolStake(b, k)])
\* buildValidatorRows
TotalTrueStake(b, validators) == Sum([k \in validators |-> PoolStake(b, k)])

\* The validator's own share of a reward, and those of the nominators.
Own(k, reward) ==
    LET own == MulDiv(reward, RewardShare[k], 10000)
    IN IF own > reward THEN reward ELSE own
Split(k, reward) ==
    [own |-> Own(k, reward),
     nominators |-> [n \in DOMAIN Amounts[k] |->
         MulDiv(reward - Own(k, reward), Amounts[k][n], Sum(Amounts[k]))]]

\* Nominators who have only pending deposits: MulDiv by their sum panics.
DividesByZero(k) == DOMAIN Amounts[k] # {} /\ \A n \in DOMAIN Amounts[k] : Amounts[k][n] = 0

\* computeValidatorRewards; the data of a pool in known could be read.
ShareOut(rewards, known) ==
    IF \E k \in known : DividesByZero(k)
    THEN SetFetch([pc |-> "panic"])
    ELSE SetFetch([pc |-> "done", rewards |-> rewards,
              shares |-> [k \in known |-> Split(k, rewards[k])]])

\* fetchRoundData at the last block of the round and, for the past elections,
\* at the first block of the next one.
FetchRoundData ==
    /\ FetchAt("data")
    /\ \/ FetchFails
       \/ LET b == fetch.reply.end
              validators == DOMAIN Frozen[Since[b]]
              total == TotalTrueStake(b, validators)
          IN IF total = 0 \/ fetch.reply.election \notin Past[b + 1]
             THEN FetchFails
             ELSE \E known \in SUBSET validators :
                 ShareOut([k \in validators |->
                     MulDiv(Bonuses[fetch.reply.election], PoolStake(b, k), total)], known)

Fetch == GetAnchor \/ BoundaryBase \/ Forward \/ Backward \/ ReadRound
         \/ ReadAnchorRound \/ FetchRoundData

RoundNext ==
    \/ Fetch
    \/ \E kind \in {"rewards", "rounds"} :
          \/ \E b \in Seqno : AskRounds(kind, "block", b)
          \/ \E e \in Elections : AskRounds(kind, "election_id", e)
          \/ \E t \in Times : AskRounds(kind, "unixtime", t)
          \/ kind = "rounds" /\ AskRounds(kind, "none", 0)

RoundSpec == RoundInit /\ [][RoundNext]_fetch

-----------------------------------------------------------------------------
(* Properties *)

\* e begins with block first and ends with block last.
FirstBlock(e, b) == Since[b] = e /\ b > 0 /\ Since[b - 1] # e
LastBlock(e, b) == Since[b] = e /\ b < LastSeqno /\ Since[b + 1] # e

(***************************************************************************)
(* Whatever lookups fail on the way: the blocks and the neighbours of the  *)
(* round in an answer are its own, for FetchRoundRewards both ends and for *)
(* FetchValidationRounds the end and the round before; and a walk that     *)
(* ends without a boundary had none in reach: a lookup that fails costs a  *)
(* step of its side, and no more.                                          *)
(***************************************************************************)
RoundIsExact ==
    /\ (FetchAt("done") \/ FetchAt("data") \/ FetchAt("panic")) /\ fetch.kind = "rewards" =>
          LET r == fetch.reply IN
          /\ r.election = Since[fetch.anchor]
          /\ FirstBlock(r.election, r.start) /\ LastBlock(r.election, r.end)
          /\ r.prev = Since[r.start - 1] /\ r.next = Since[r.end + 1]
    /\ FetchAt("done") /\ fetch.kind = "rounds" /\ fetch.reply.election # Nil =>
          LET r == fetch.reply IN
          /\ \E b \in Seqno : FirstBlock(r.election, b) /\ r.prev = Since[b - 1]
          /\ r.end # 0 => LastBlock(r.election, r.end)
    /\ FetchAt("error") /\ fetch.walk.i = MaxBoundarySearch =>
          LET w == fetch.walk IN
          \A b \in 0..LastSeqno - 1 : Since[b] # Since[b + 1] =>
              IF b >= w.base THEN b + 1 - w.base > MaxBoundarySearch - w.missedFwd
                             ELSE w.base - b > MaxBoundarySearch - w.missedBwd

\* The bonuses are given out but for the rounding, less than one nanogram for
\* each validator, and so is the reward of a validator to its pool.
RewardsFitBonuses ==
    FetchAt("done") /\ fetch.kind = "rewards" =>
        LET bonuses == Bonuses[fetch.reply.election] IN
        /\ Sum(fetch.rewards) <= bonuses
        /\ Sum(fetch.rewards) > bonuses - Cardinality(DOMAIN fetch.rewards)
        /\ \A k \in DOMAIN fetch.shares :
              LET n == Cardinality(DOMAIN Amounts[k])
                  told == fetch.shares[k].own + Sum(fetch.shares[k].nominators)
              IN /\ told <= fetch.rewards[k]
                 /\ n > 0 => told > fetch.rewards[k] - n

\* What is told of a round: where it begins and ends, and who earns how much.
RewardsAreRight == RoundIsExact /\ RewardsFitBonuses

\* A request is on its way.
Fetching == fetch.pc \notin {"idle", "done", "error", "panic"}
=============================================================================
