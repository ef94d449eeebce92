------------------------------ MODULE RoundStats ------------------------------
(***************************************************************************)
(* pkg/rewards/service/stats.go with the iterators of pkg/core/elector.go: *)
(* Stats keeps the last maxRounds validation rounds, oldest first.  One    *)
(* goroutine walks back from the current round, two rounds to a config,    *)
(* until it meets a round it has, and sleeps to the end of the newest.     *)
(*                                                                         *)
(* Rounds are numbered; UtimeUntil of one is UtimeSince of the next, unless *)
(* the next is in Late: elections failed and the validators went on.  Of   *)
(* what the elector knows about a round (its bonuses) only this is kept:   *)
(* whether it was read before or after the end of the round.               *)
(***************************************************************************)
EXTENDS Naturals, FiniteSetsExt, SequencesExt

CONSTANTS
    MaxRounds,  \* maxRounds: 101, fewer for TLC
    FirstRound,      \* the current round when the service starts
    LastRound,       \* bound: the last round
    Late,       \* rounds that began after UtimeUntil of the one before
    MaxPast,    \* bound: rounds an elector state tells about
    MaxFails    \* bound: updates that end with an error

ASSUME RoundStatsAssumption ==
    /\ MaxRounds \in Nat \ {0} /\ MaxPast \in Nat \ {0} /\ MaxFails \in Nat
    /\ FirstRound \in Nat /\ FirstRound > MaxRounds + 1 /\ LastRound \in Nat /\ FirstRound <= LastRound
    /\ Late \subseteq 0..LastRound

Round == 0..LastRound
ElectorRound == [id : Round, ended : BOOLEAN]

VARIABLES
    cur,     \* the round of the validators at the head of the chain
    over,    \* the clock has passed its UtimeUntil
    rounds,  \* Stats.rounds
    proc,    \* updateProc: control point
    next,    \* the round the iterators are at
    batch,   \* rounds left of the two of a config
    past,    \* pastElections: how many are left, and
    asOf,    \*   the last round that was over for them
    fails    \* updates that ended with an error

chain == <<cur, over>>
walk  == <<next, batch, past, asOf>>
vars  == <<chain, rounds, proc, walk, fails>>

Init ==
    /\ cur = FirstRound /\ over = FALSE
    /\ rounds = <<>>
    /\ proc = "update"
    /\ next = FirstRound /\ batch = 0 /\ past = 0 /\ asOf = 0
    /\ fails = 0

Newest == rounds[Len(rounds)].id

\* EndTime of the round n lies in the past.
Ended(n) == n < cur \/ (n = cur /\ over)

-----------------------------------------------------------------------------
(* updateProc and the iterators. *)

\* Mutant: without rounds there is nothing to wait for.
WakeKnown ==
    /\ proc = "wait"
    /\ rounds # <<>> /\ Ended(Newest)
    /\ proc' = "update"
    /\ UNCHANGED <<chain, rounds, walk, fails>>

\* The end of the newest round, or a minute when there is none.
Wake ==
    /\ proc = "wait"
    /\ rounds # <<>> => Ended(Newest)
    /\ proc' = "update"
    /\ UNCHANGED <<chain, rounds, walk, fails>>

\* The config of the last block has the current round and the one before.
Begin ==
    /\ proc = "update"
    /\ proc' = "elect"
    /\ next' = cur /\ batch' = 2 /\ past' = 0
    /\ UNCHANGED <<chain, rounds, asOf, fails>>

\* The elector's past elections, read from its state at the end of the round, or
\* from its last state when there is no such block yet.
Elect ==
    /\ proc = "elect"
    /\ past' \in 1..MaxPast
    /\ asOf' = IF Ended(next) THEN next ELSE next - 1
    /\ proc' = "push"
    /\ UNCHANGED <<chain, rounds, next, batch, fails>>

-----------------------------------------------------------------------------
(* pushElectorRound. *)

\* Where the round n belongs: after the last that does not start later.
Place(n) == Max({0} \cup {k \in DOMAIN rounds : rounds[k].id <= n})

Known(n) == Place(n) > 0 /\ rounds[Place(n)].id = n

\* Mutant: the newest round comes last, and so does any other.
Appended(v) ==
    LET s == Append(rounds, v)
    IN IF Len(rounds) = MaxRounds THEN Tail(s) ELSE s

\* A full list gives up its oldest round.
Inserted(v) ==
    LET s == InsertAt(rounds, Place(v.id) + 1, v)
    IN IF Len(rounds) = MaxRounds THEN Tail(s) ELSE s

\* Mutant: a round that is there stays as it is.
RenewNot(v) == rounds

\* A round that is there gets what the elector knows of it by now.
Renewed(v) == [rounds EXCEPT ![Place(v.id)] = v]

\* The round goes in and the iterators go on, unless it was there or is too old.
Push ==
    LET v == [id |-> next, ended |-> next <= asOf]
    IN /\ proc = "push"
       /\ \/ /\ Known(next)
             /\ rounds' = Renewed(v) /\ proc' = "wait"
             /\ UNCHANGED walk
          \/ /\ Place(next) = 0 /\ Len(rounds) = MaxRounds
             /\ proc' = "wait"
             /\ UNCHANGED <<rounds, walk>>
          \/ /\ ~Known(next) /\ ~(Place(next) = 0 /\ Len(rounds) = MaxRounds)
             /\ rounds' = Inserted(v)
             /\ next' = next - 1 /\ batch' = batch - 1 /\ past' = past - 1
             /\ proc' = IF batch = 1 THEN "back" ELSE IF past = 1 THEN "elect" ELSE "push"
             /\ UNCHANGED asOf
       /\ UNCHANGED <<chain, fails>>

\* Mutant: the walk goes on with the first round of the config.
BackToFirst ==
    /\ proc = "back"
    /\ IF next + 1 \in Late
       THEN proc' = "wait" /\ UNCHANGED <<next, batch>>
       ELSE /\ \E same \in BOOLEAN : next' = IF same THEN next + 1 ELSE next
            /\ batch' = 2
            /\ proc' = IF past = 0 THEN "elect" ELSE "push"
    /\ UNCHANGED <<chain, rounds, past, asOf, fails>>

\* The block a second before the oldest round so far: its config, or that of the
\* block after it, has the round whose end is the start of the one at hand.  If
\* that one was late there is none, and the update ends without an error.
Back ==
    /\ proc = "back"
    /\ IF next + 1 \in Late
       THEN proc' = "wait" /\ UNCHANGED batch
       ELSE batch' \in {1, 2} /\ proc' = IF past = 0 THEN "elect" ELSE "push"
    /\ UNCHANGED <<chain, rounds, next, past, asOf, fails>>

\* A call to the lite server fails: the update is over, what it pushed stays.
Fail ==
    /\ proc \in {"update", "elect", "back"}
    /\ fails < MaxFails /\ fails' = fails + 1
    /\ proc' = "wait"
    /\ UNCHANGED <<chain, rounds, walk>>

-----------------------------------------------------------------------------
(* The chain. *)

\* The clock reaches UtimeUntil of the current round.  A round lasts for hours, so
\* the service has learnt of it by then if its updates do not fail.
End ==
    /\ ~over /\ over' = TRUE
    /\ fails = 0 => rounds # <<>> /\ Newest = cur
    /\ UNCHANGED <<cur, rounds, proc, walk, fails>>

\* The next validators take over.
Advance ==
    /\ over /\ cur < LastRound
    /\ cur' = cur + 1 /\ over' = FALSE
    /\ UNCHANGED <<rounds, proc, walk, fails>>

Update == Wake \/ Begin \/ Elect \/ Push \/ Back

Next == Update \/ Fail \/ End \/ Advance

Spec == Init /\ [][Next]_vars

\* The goroutine never ends; servers fail only so often.
FairSpec == Spec /\ WF_vars(Update)

-----------------------------------------------------------------------------
(* Properties *)

TypeOK ==
    /\ cur \in FirstRound..LastRound /\ over \in BOOLEAN
    /\ rounds \in Seq(ElectorRound) /\ Len(rounds) <= MaxRounds
    /\ proc \in {"wait", "update", "elect", "push", "back"}
    /\ next \in Round /\ batch \in 0..2 /\ past \in 0..MaxPast /\ asOf \in Round
    /\ fails \in 0..MaxFails

\* Readers take the last round for the current one and look for the latest
\* completed one from the end (GetAPY): rounds are pushed newest first and
\* inserted before the ones of earlier updates, and yet each is there once and
\* they ascend, whatever failed.
OldestFirst ==
    \A i, j \in DOMAIN rounds : i < j => rounds[i].id < rounds[j].id

\* As long as no update failed, whenever the goroutine sleeps the rounds have no
\* hole and reach back as far as they can: to maxRounds of them, or to a round
\* that was late, beyond which the iterator finds none.
History ==
    proc = "wait" /\ fails = 0 =>
        /\ \A i \in DOMAIN rounds : rounds[i].id = Newest - Len(rounds) + i
        /\ Len(rounds) = MaxRounds \/ rounds[1].id \in Late

\* And what it tells of the rounds before the newest, GetAPY's latest completed
\* one among them, was read after they ended.
CompletedAreFinal ==
    proc = "wait" /\ fails = 0 =>
        \A i \in DOMAIN rounds : i < Len(rounds) => rounds[i].ended

\* The service gets to know the current round, although the history it starts from
\* is empty, incomplete or rounds behind.
EventuallyKnown ==
    (rounds # <<>> => Newest < cur) ~> (rounds # <<>> /\ Newest = cur)
=============================================================================
