----------------------------- MODULE RoundProofs -----------------------------
(***************************************************************************)
(* Proofs about the validation rounds of the rewards service.              *)
(*                                                                         *)
(* RoundStats keeps its rounds once each and oldest first, for every       *)
(* maxRounds, every history of elections and any number of updates that    *)
(* fail anywhere, and the history has no hole and is final while no update *)
(* has failed.  The order rests on nothing that the iterators do:          *)
(* pushElectorRound keeps an ascending list ascending whatever round it is *)
(* given.  The rest needs to know where the walk of an update is: at the   *)
(* current round, at the round that was the newest before it, or before    *)
(* the oldest.                                                             *)
(*                                                                         *)
(* RewardRounds tells of a round what is its own (RoundsAreExact): a walk  *)
(* has looked at all blocks between its ends (StepsInv), so that what it   *)
(* finds is where two rounds meet, and which two is a matter of the chain  *)
(* (RoundsApart).  What it shares out is no more than there is, and less   *)
(* by what rounding takes (RewardsRight): MapThenSumSet is a fold, and     *)
(* what a fold of sums computes is compared term by term (Compare).        *)
(***************************************************************************)
EXTENDS RoundStats, RewardRounds, Integers, FiniteSetTheorems, WellFoundedInduction,
        TLAPS

Entry == [id : Int, ended : BOOLEAN]

RoundsInv ==
    /\ cur \in Int /\ next \in Int /\ asOf \in Int
    /\ rounds \in Seq(Entry)
    /\ OldestFirst

\* A set of numbers up to a bound has a greatest one.
LEMMA Greatest ==
    ASSUME NEW n \in Nat, NEW S \in SUBSET (0..n), S # {}
    PROVE  Max(S) \in S /\ \A k \in S : Max(S) >= k
<1> DEFINE R == OpToRel(<, Nat)
           T == {n - k : k \in S}
<1>1. T \in SUBSET Nat /\ T # {}
    <2>1. \A k \in S : n - k \in Nat
        OBVIOUS
    <2> QED
        BY <2>1
<1>2. \A i, j \in Nat : <<i, j>> \in R <=> i < j
    BY DEF OpToRel
<1>3. \E i \in T : \A j \in T : <<j, i>> \notin R
    <2>1. IsWellFoundedOn(R, Nat)
        BY NatLessThanWellFounded
    <2> HIDE DEF R, T
    <2> QED
        BY <1>1, <2>1, WFMin
<1>4. \E m \in S : \A k \in S : m >= k
    <2>1. PICK i \in T : \A j \in T : ~(j < i)
        BY <1>1, <1>2, <1>3
    <2>2. PICK m \in S : i = n - m
        OBVIOUS
    <2>3. ASSUME NEW k \in S PROVE m >= k
        <3>1. n - k \in T
            OBVIOUS
        <3>2. ~(n - k < n - m)
            BY <2>1, <2>2, <3>1
        <3>3. k \in Int /\ m \in Int
            OBVIOUS
        <3> QED
            BY <3>2, <3>3
    <2> QED
        BY <2>3
<1> QED
    BY <1>4 DEF Max

\* Place(n) parts the rounds into those that start no later than n and the rest.
LEMMA PlaceParts ==
    ASSUME RoundsInv, NEW n \in Int
    PROVE  /\ Place(n) \in 0..Len(rounds)
           /\ \A k \in 1..Len(rounds) :
                  IF k <= Place(n) THEN rounds[k].id <= n ELSE rounds[k].id > n
<1> DEFINE L == Len(rounds)
           S == {0} \cup {k \in DOMAIN rounds : rounds[k].id <= n}
<1>1. L \in Nat /\ DOMAIN rounds = 1..L
    BY DEF RoundsInv
<1>2. \A k \in 1..L : rounds[k].id \in Int
    <2>1. \A k \in 1..L : rounds[k] \in Entry
        BY <1>1 DEF RoundsInv
    <2> QED
        BY <2>1 DEF Entry
<1>3. S \in SUBSET (0..L) /\ S # {}
    BY <1>1
<1>4. Place(n) \in S /\ \A k \in S : Place(n) >= k
    <2>1. Place(n) = Max(S)
        BY DEF Place
    <2> HIDE DEF S
    <2> QED
        BY <1>1, <1>3, <2>1, Greatest
<1>5. Place(n) \in 0..L
    BY <1>3, <1>4
<1>6. ASSUME NEW k \in 1..L
      PROVE  IF k <= Place(n) THEN rounds[k].id <= n ELSE rounds[k].id > n
    <2>1. CASE k <= Place(n)
        <3>1. Place(n) \in DOMAIN rounds /\ rounds[Place(n)].id <= n
            BY <1>1, <1>4, <1>5, <2>1
        <3>2. k = Place(n) \/ rounds[k].id < rounds[Place(n)].id
            BY <1>1, <1>5, <2>1, <3>1 DEF RoundsInv, OldestFirst
        <3> QED
            BY <1>1, <1>2, <2>1, <3>1, <3>2
    <2>2. CASE ~(k <= Place(n))
        BY <1>1, <1>2, <1>4, <1>5, <2>2
    <2> QED
        BY <2>1, <2>2
<1> QED
    BY <1>5, <1>6

\* The places of the list with a round inserted.
LEMMA InsertAtParts ==
    ASSUME NEW s \in Seq(Entry), NEW v \in Entry, NEW q \in 1..Len(s) + 1
    PROVE  /\ InsertAt(s, q, v) \in Seq(Entry)
           /\ Len(InsertAt(s, q, v)) = Len(s) + 1
           /\ \A i \in 1..Len(s) + 1 :
                  /\ i < q => InsertAt(s, q, v)[i] = s[i]
                  /\ i = q => InsertAt(s, q, v)[i] = v
                  /\ i > q => InsertAt(s, q, v)[i] = s[i - 1]
<1> DEFINE a == SubSeq(s, 1, q - 1)
           c == SubSeq(s, q, Len(s))
<1>1. InsertAt(s, q, v) = a \o <<v>> \o c
    BY Zenon DEF InsertAt
<1>2. /\ a \in Seq(Entry) /\ Len(a) = q - 1
      /\ \A i \in 1..q - 1 : a[i] = s[i]
    OBVIOUS
<1>3. /\ c \in Seq(Entry) /\ Len(c) = Len(s) - q + 1
      /\ \A i \in 1..Len(s) - q + 1 : c[i] = s[i + q - 1]
    OBVIOUS
<1> HIDE DEF a, c
<1> DEFINE b == a \o <<v>>
<1>4. /\ b \in Seq(Entry) /\ Len(b) = q
      /\ \A i \in 1..q - 1 : b[i] = s[i]
      /\ b[q] = v
    BY <1>2
<1>5. InsertAt(s, q, v) = b \o c
    BY <1>1
<1> HIDE DEF b
<1>6. /\ b \o c \in Seq(Entry) /\ Len(b \o c) = Len(s) + 1
      /\ \A i \in 1..q : (b \o c)[i] = b[i]
      /\ \A i \in 1..Len(s) - q + 1 : (b \o c)[q + i] = c[i]
    BY <1>3, <1>4
<1>7. ASSUME NEW i \in 1..Len(s) + 1, i > q
      PROVE  (b \o c)[i] = s[i - 1]
    <2>1. PICK k \in 1..Len(s) - q + 1 : i = q + k
        <3>1. i - q \in 1..Len(s) - q + 1
            BY <1>7
        <3>2. i = q + (i - q)
            OBVIOUS
        <3> QED
            BY <3>1, <3>2
    <2>2. (b \o c)[i] = s[k + q - 1]
        BY <1>3, <1>6, <2>1
    <2>3. k + q - 1 = i - 1
        BY <2>1
    <2> QED
        BY <2>2, <2>3
<1>8. \A i \in 1..Len(s) + 1 : i < q => (b \o c)[i] = s[i]
    BY <1>4, <1>6
<1>9. \A i \in 1..Len(s) + 1 : i = q => (b \o c)[i] = v
    BY <1>4, <1>6
<1> QED
    BY <1>5, <1>6, <1>7, <1>8, <1>9

Ascending(s) == \A i, j \in DOMAIN s : i < j => s[i].id < s[j].id

LEMMA TailAscends ==
    ASSUME NEW s \in Seq(Entry), s # <<>>, Ascending(s)
    PROVE  Tail(s) \in Seq(Entry) /\ Ascending(Tail(s))
<1>1. /\ Tail(s) \in Seq(Entry) /\ DOMAIN Tail(s) = 1..Len(s) - 1
      /\ \A i \in 1..Len(s) - 1 : Tail(s)[i] = s[i + 1] /\ i + 1 \in DOMAIN s
    OBVIOUS
<1> QED
    BY <1>1 DEF Ascending

LEMMA InsertedAscends ==
    ASSUME RoundsInv, NEW v \in Entry, ~Known(v.id)
    PROVE  Inserted(v) \in Seq(Entry) /\ Ascending(Inserted(v))
<1> DEFINE p == Place(v.id)
           s == InsertAt(rounds, p + 1, v)
           L == Len(rounds)
<1>1. rounds \in Seq(Entry) /\ L \in Nat /\ DOMAIN rounds = 1..L /\ v.id \in Int
    BY DEF RoundsInv, Entry
<1>2. /\ p \in 0..L
      /\ \A k \in 1..L :
            IF k <= p THEN rounds[k].id <= v.id ELSE rounds[k].id > v.id
    BY <1>1, PlaceParts
<1>3. /\ s \in Seq(Entry) /\ Len(s) = L + 1
      /\ \A i \in 1..L + 1 :
            /\ i < p + 1 => s[i] = rounds[i]
            /\ i = p + 1 => s[i] = v
            /\ i > p + 1 => s[i] = rounds[i - 1]
    <2>1. p + 1 \in 1..L + 1
        BY <1>1, <1>2
    <2> QED
        BY <1>1, <2>1, InsertAtParts
<1>4. \A k \in 1..L : rounds[k].id \in Int
    <2>1. \A k \in 1..L : rounds[k] \in Entry
        BY <1>1
    <2> QED
        BY <2>1 DEF Entry
<1>5. \A i, j \in 1..L : i < j => rounds[i].id < rounds[j].id
    BY <1>1 DEF RoundsInv, OldestFirst
<1>6. \A k \in 1..L : k <= p => rounds[k].id < v.id
    <2>1. p > 0 => rounds[p].id # v.id
        BY DEF Known
    <2> QED
        BY <1>1, <1>2, <1>4, <1>5, <2>1
<1>7. Inserted(v) = IF L = MaxRounds THEN Tail(s) ELSE s
    BY DEF Inserted
<1> HIDE DEF p, s
<1>8. Ascending(s)
    <2> SUFFICES ASSUME NEW i \in 1..L + 1, NEW j \in 1..L + 1, i < j
                 PROVE  s[i].id < s[j].id
        BY <1>3 DEF Ascending
    <2>0. \A k \in 1..L + 1 : k <= p => k \in 1..L /\ s[k] = rounds[k]
        BY <1>1, <1>2, <1>3
    <2>1. CASE j <= p
        <3>1. i <= p
            BY <1>1, <1>2, <2>1
        <3>2. i \in 1..L /\ j \in 1..L /\ s[i] = rounds[i] /\ s[j] = rounds[j]
            BY <2>0, <2>1, <3>1
        <3> QED
            BY <1>5, <3>2
    <2>2. CASE j = p + 1
        <3>1. i <= p
            BY <1>1, <1>2, <2>2
        <3>2. i \in 1..L /\ s[i] = rounds[i]
            BY <2>0, <3>1
        <3>3. s[j] = v
            BY <1>3, <2>2
        <3> QED
            BY <1>6, <3>1, <3>2, <3>3
    <2>3. CASE j > p + 1
        <3>1. j - 1 \in 1..L /\ s[j] = rounds[j - 1] /\ rounds[j - 1].id > v.id
            BY <1>1, <1>2, <1>3, <2>3
        <3>2. CASE i <= p
            <4>1. i \in 1..L /\ s[i] = rounds[i]
                BY <2>0, <3>2
            <4>2. i < j - 1
                BY <1>1, <1>2, <2>3, <3>2
            <4> QED
                BY <1>5, <3>1, <4>1, <4>2
        <3>3. CASE i = p + 1
            <4>1. s[i] = v
                BY <1>3, <3>3
            <4> QED
                BY <3>1, <4>1
        <3>4. CASE i > p + 1
            <4>1. i - 1 \in 1..L /\ i - 1 < j - 1 /\ s[i] = rounds[i - 1]
                BY <1>1, <1>2, <1>3, <3>4
            <4> QED
                BY <1>5, <3>1, <4>1
        <3> QED
            BY <1>2, <3>2, <3>3, <3>4
    <2> QED
        BY <1>2, <2>1, <2>2, <2>3
<1>9. s # <<>>
    BY <1>1, <1>3
<1> QED
    BY <1>3, <1>7, <1>8, <1>9, TailAscends

LEMMA RenewedAscends ==
    ASSUME RoundsInv, NEW v \in Entry, Known(v.id)
    PROVE  Renewed(v) \in Seq(Entry) /\ Ascending(Renewed(v))
<1> DEFINE p == Place(v.id)
<1>1. /\ rounds \in Seq(Entry) /\ v.id \in Int
      /\ p \in 1..Len(rounds) /\ rounds[p].id = v.id
    <2>1. rounds \in Seq(Entry) /\ v.id \in Int
        BY DEF RoundsInv, Entry
    <2>2. p \in 0..Len(rounds)
        BY <2>1, PlaceParts
    <2> QED
        BY <2>1, <2>2 DEF Known
<1>2. Renewed(v) = [rounds EXCEPT ![p] = v]
    BY DEF Renewed
<1> HIDE DEF p
<1> DEFINE s == [rounds EXCEPT ![p] = v]
<1>3. /\ s \in Seq(Entry) /\ DOMAIN s = DOMAIN rounds
      /\ \A i \in DOMAIN rounds : s[i].id = rounds[i].id
    BY <1>1
<1> HIDE DEF s
<1>4. Ascending(s)
    BY <1>3 DEF Ascending, RoundsInv, OldestFirst
<1> QED
    BY <1>2, <1>3, <1>4 DEF s

LEMMA InitRoundsInv == Init => RoundsInv
BY RoundStatsAssumption DEF Init, RoundsInv, OldestFirst

LEMMA StepPush == RoundsInv /\ Push => RoundsInv'
<1> SUFFICES ASSUME RoundsInv, Push PROVE RoundsInv'
    OBVIOUS
<1> DEFINE v == [id |-> next, ended |-> next <= asOf]
<1>1. v \in Entry /\ v.id = next
    BY DEF RoundsInv, Entry
<1>2. /\ UNCHANGED <<cur, asOf>>
      /\ next' \in {next, next - 1}
      /\ \/ Known(next) /\ rounds' = Renewed(v)
         \/ ~Known(next) /\ rounds' = Inserted(v)
         \/ rounds' = rounds
    BY DEF Push, walk, chain
<1> HIDE DEF v
<1>3. cur' \in Int /\ next' \in Int /\ asOf' \in Int
    BY <1>2 DEF RoundsInv
<1>4. rounds' \in Seq(Entry) /\ Ascending(rounds')
    <2>1. rounds \in Seq(Entry) /\ Ascending(rounds)
        BY DEF RoundsInv, OldestFirst, Ascending
    <2> QED
        BY <1>1, <1>2, <2>1, RenewedAscends, InsertedAscends
<1> QED
    BY <1>3, <1>4 DEF RoundsInv, OldestFirst, Ascending

LEMMA NextRoundsInv == RoundsInv /\ [Next]_vars => RoundsInv'
<1> SUFFICES ASSUME RoundsInv, [Next]_vars PROVE RoundsInv'
    OBVIOUS
<1>1. ASSUME UNCHANGED rounds, cur' \in Int, next' \in Int, asOf' \in Int
      PROVE  RoundsInv'
    BY <1>1 DEF RoundsInv, OldestFirst
<1>2. cur \in Int /\ next \in Int /\ asOf \in Int
    BY DEF RoundsInv
<1>3. CASE Wake
    BY <1>1, <1>2, <1>3 DEF Wake, chain, walk
<1>4. CASE Begin
    BY <1>1, <1>2, <1>4 DEF Begin, chain
<1>5. CASE Elect
    BY <1>1, <1>2, <1>5 DEF Elect, chain
<1>6. CASE Push
    BY <1>6, StepPush
<1>7. CASE Back
    BY <1>1, <1>2, <1>7 DEF Back, chain
<1>8. CASE Fail
    BY <1>1, <1>2, <1>8 DEF Fail, chain, walk
<1>9. CASE End
    BY <1>1, <1>2, <1>9 DEF End, walk
<1>10. CASE Advance
    BY <1>1, <1>2, <1>10 DEF Advance, walk
<1>11. CASE UNCHANGED vars
    BY <1>1, <1>2, <1>11 DEF vars, chain, walk
<1> QED
    BY <1>3, <1>4, <1>5, <1>6, <1>7, <1>8, <1>9, <1>10, <1>11 DEF Next, Update

\* Wherever updates fail and whichever rounds the elector tells of, the rounds
\* the service keeps ascend and none is there twice.
THEOREM AlwaysOldestFirst == Spec => []OldestFirst
<1>1. RoundsInv => OldestFirst
    BY DEF RoundsInv
<1> QED
    BY <1>1, InitRoundsInv, NextRoundsInv, PTL DEF Spec

-----------------------------------------------------------------------------
(* The history has no hole and is final. *)

\* Rounds without a hole, as far back as they can be.
Gapless == \A i \in DOMAIN rounds : rounds[i].id = Newest - Len(rounds) + i
Deep == Len(rounds) = MaxRounds \/ rounds[1].id \in Late

\* All rounds but the last k are final.
FinalBut(k) == \A i \in DOMAIN rounds : i <= Len(rounds) - k => rounds[i].ended

\* What is known of the current round: it is the newest or the one after it.
UpToDate ==
    /\ rounds = <<>> => ~over
    /\ rounds # <<>> => Newest = cur \/ (Newest = cur - 1 /\ ~over)

Settled == rounds # <<>> => Deep /\ FinalBut(1)

Asleep == proc = "wait" /\ rounds # <<>> /\ Settled

Woken == proc = "update" /\ Settled

\* The walk is at the current round.
Starting ==
    /\ proc \in {"elect", "push"} /\ batch = 2
    /\ Settled
    /\ next = cur \/ (rounds # <<>> /\ next = Newest)
    /\ proc = "push" => asOf >= next - 1

\* It is at the round that was the newest, the only other that may not be final.
Renewing ==
    /\ proc \in {"elect", "push"}
    /\ Len(rounds) > 1 /\ next = Newest - 1
    /\ Deep /\ FinalBut(2)
    /\ proc = "push" => asOf >= next

\* It is before the oldest round.
Filling ==
    /\ proc \in {"elect", "push", "back"}
    /\ rounds # <<>> /\ next = rounds[1].id - 1
    /\ FinalBut(1)
    /\ proc # "elect" => asOf >= next

WalkInv ==
    /\ Gapless /\ UpToDate
    /\ Asleep \/ Woken \/ Starting \/ Renewing \/ Filling

HistoryInv == fails = 0 => WalkInv

\* The rounds are numbered one after the other.
LEMMA Numbered ==
    ASSUME RoundsInv, Gapless
    PROVE  /\ Len(rounds) \in Nat /\ DOMAIN rounds = 1..Len(rounds)
           /\ rounds = <<>> <=> Len(rounds) = 0
           /\ \A i \in 1..Len(rounds) :
                  /\ rounds[i] \in Entry /\ rounds[i].id \in Int
                  /\ rounds[i].id = Newest - Len(rounds) + i
           /\ rounds # <<>> => Newest \in Int /\ Newest = rounds[Len(rounds)].id
<1>1. /\ Len(rounds) \in Nat /\ DOMAIN rounds = 1..Len(rounds)
      /\ rounds = <<>> <=> Len(rounds) = 0
      /\ \A i \in 1..Len(rounds) : rounds[i] \in Entry
    BY DEF RoundsInv
<1>2. \A i \in 1..Len(rounds) : rounds[i].id \in Int
    BY <1>1 DEF Entry
<1>3. \A i \in 1..Len(rounds) : rounds[i].id = Newest - Len(rounds) + i
    BY <1>1 DEF Gapless
<1>4. rounds # <<>> => Newest \in Int /\ Newest = rounds[Len(rounds)].id
    <2>1. rounds # <<>> => Len(rounds) \in 1..Len(rounds)
        BY <1>1
    <2> QED
        BY <1>2, <2>1 DEF Newest
<1> QED
    BY <1>1, <1>2, <1>3, <1>4

\* Where the rounds go that the walk comes to.
LEMMA Places ==
    ASSUME RoundsInv, Gapless, NEW n \in Int
    PROVE  /\ rounds = <<>> => Place(n) = 0
           /\ rounds # <<>> =>
                /\ n \in {Newest, Newest + 1} => Place(n) = Len(rounds)
                /\ n = Newest - 1 => Place(n) = Len(rounds) - 1
                /\ n = rounds[1].id - 1 => Place(n) = 0
<1> PICK L : L = Len(rounds)
    OBVIOUS
<1> PICK p : p = Place(n)
    OBVIOUS
<1>1. /\ L \in Nat /\ p \in 0..L
      /\ \A k \in 1..L :
            IF k <= p THEN rounds[k].id <= n ELSE rounds[k].id > n
    BY Numbered, PlaceParts
<1>2. /\ rounds = <<>> <=> L = 0
      /\ \A i \in 1..L : rounds[i].id = Newest - L + i
      /\ rounds # <<>> => Newest \in Int
    BY Numbered
<1>3. rounds = <<>> => p = 0
    BY <1>1, <1>2
<1>4. ASSUME rounds # <<>>
      PROVE  /\ n \in {Newest, Newest + 1} => p = L
             /\ n = Newest - 1 => p = L - 1
             /\ n = rounds[1].id - 1 => p = 0
    <2>1. L >= 1 /\ 1 \in 1..L /\ L \in 1..L
        BY <1>1, <1>2, <1>4
    <2>2. /\ rounds[1].id = Newest - L + 1
          /\ rounds[L].id = Newest
          /\ L > 1 => L - 1 \in 1..L /\ rounds[L - 1].id = Newest - 1
        BY <1>1, <1>2, <1>4, <2>1
    <2>3. n \in {Newest, Newest + 1} => p = L
        BY <1>1, <1>2, <1>4, <2>1, <2>2
    <2>4. n = Newest - 1 => p = L - 1
        BY <1>1, <1>2, <1>4, <2>1, <2>2
    <2>5. n = rounds[1].id - 1 => p = 0
        BY <1>1, <1>2, <1>4, <2>1, <2>2
    <2> QED
        BY <2>3, <2>4, <2>5
<1> QED
    BY <1>3, <1>4

\* The rounds with v after the newest or before the oldest.
LEMMA InsertedParts ==
    ASSUME RoundsInv, NEW v \in Entry, Place(v.id) \in 0..Len(rounds),
           NEW s, s = InsertAt(rounds, Place(v.id) + 1, v)
    PROVE  /\ s \in Seq(Entry) /\ Len(s) = Len(rounds) + 1
           /\ \A i \in 1..Len(rounds) + 1 :
                  /\ i <= Place(v.id) => s[i] = rounds[i]
                  /\ i = Place(v.id) + 1 => s[i] = v
                  /\ i > Place(v.id) + 1 => s[i] = rounds[i - 1]
           /\ Inserted(v) = IF Len(rounds) = MaxRounds THEN Tail(s) ELSE s
<1>1. rounds \in Seq(Entry) /\ Len(rounds) \in Nat
    BY DEF RoundsInv
<1> PICK p : p = Place(v.id)
    OBVIOUS
<1>2. p + 1 \in 1..Len(rounds) + 1
    BY <1>1
<1>3. /\ s \in Seq(Entry) /\ Len(s) = Len(rounds) + 1
      /\ \A i \in 1..Len(rounds) + 1 :
            /\ i < p + 1 => s[i] = rounds[i]
            /\ i = p + 1 => s[i] = v
            /\ i > p + 1 => s[i] = rounds[i - 1]
    BY <1>1, <1>2, InsertAtParts
<1>4. Inserted(v) = IF Len(rounds) = MaxRounds THEN Tail(s) ELSE s
    BY DEF Inserted
<1> QED
    BY <1>1, <1>2, <1>3, <1>4

\* The first round of all.
LEMMA PushFirst ==
    ASSUME RoundsInv, WalkInv, RoundsInv', Push, rounds = <<>>
    PROVE  WalkInv'
<1> PICK v : v = [id |-> next, ended |-> next <= asOf]
    OBVIOUS
<1>1. v \in Entry /\ v.id = next /\ next \in Int
    BY DEF RoundsInv, Entry
<1>2. Starting
    BY DEF WalkInv, Asleep, Woken, Renewing, Filling, Push
<1>3. Place(next) = 0 /\ Len(rounds) = 0 /\ Len(rounds) # MaxRounds
    BY <1>1, Places, RoundStatsAssumption DEF WalkInv
<1>4. /\ UNCHANGED <<cur, over, asOf>>
      /\ rounds' = Inserted(v) /\ next' = next - 1 /\ proc' \in {"elect", "push"}
    <2>1. ~Known(next)
        BY <1>3 DEF Known
    <2> QED
        BY <1>2, <1>3, <2>1 DEF Push, Starting, chain
<1>5. Len(rounds') = 1 /\ DOMAIN rounds' = 1..1 /\ rounds'[1] = v
    <2>1. PICK s : s = InsertAt(rounds, Place(v.id) + 1, v)
        OBVIOUS
    <2>2. Len(s) = 1 /\ s[1] = v /\ s \in Seq(Entry) /\ rounds' = s
        BY <1>1, <1>3, <1>4, <2>1, InsertedParts
    <2> QED
        BY <2>2
<1>6. rounds' # <<>> /\ Newest' = next
    BY <1>1, <1>5 DEF Newest
<1>7. Gapless'
    BY <1>1, <1>5, <1>6 DEF Gapless
<1>8. UpToDate'
    BY <1>2, <1>4, <1>6 DEF UpToDate, Starting
<1>9. (FinalBut(1))'
    BY <1>5 DEF FinalBut
<1>10. Filling'
    <2>1. rounds'[1].id - 1 = next'
        BY <1>1, <1>4, <1>5
    <2>2. next = cur /\ proc = "push" /\ asOf >= next - 1
        BY <1>2 DEF Starting, Push
    <2> QED
        BY <1>4, <1>6, <1>9, <2>1, <2>2 DEF Filling
<1> QED
    BY <1>7, <1>8, <1>10 DEF WalkInv

\* A round that is there.
LEMMA PushKnown ==
    ASSUME RoundsInv, WalkInv, RoundsInv', Push, rounds # <<>>,
           (Starting /\ next = Newest) \/ Renewing
    PROVE  WalkInv'
<1> PICK v : v = [id |-> next, ended |-> next <= asOf]
    OBVIOUS
<1> PICK p : p = Place(next)
    OBVIOUS
<1> PICK L : L = Len(rounds)
    OBVIOUS
<1>1. v \in Entry /\ v.id = next /\ next \in Int /\ asOf \in Int
    BY DEF RoundsInv, Entry
<1>2. /\ L \in Nat \ {0} /\ DOMAIN rounds = 1..L
      /\ \A i \in 1..L : /\ rounds[i] \in Entry /\ rounds[i].id \in Int
                         /\ rounds[i].id = Newest - L + i
      /\ Newest \in Int /\ Newest = rounds[L].id
    BY Numbered DEF WalkInv
<1>3. /\ p \in 1..L /\ rounds[p].id = next
      /\ (next = Newest /\ p = L) \/ (next = Newest - 1 /\ p = L - 1)
    <2>1. CASE Starting /\ next = Newest
        <3>1. p = L
            BY <1>1, <2>1, Places DEF WalkInv
        <3>2. L \in 1..L
            BY <1>2
        <3> QED
            BY <1>2, <2>1, <3>1, <3>2
    <2>2. CASE Renewing
        <3>1. p = L - 1 /\ L > 1 /\ next = Newest - 1
            BY <1>1, <2>2, Places DEF WalkInv, Renewing
        <3>2. p \in 1..L /\ rounds[p].id = Newest - L + p
            <4>1. p \in 1..L
                BY <1>2, <3>1
            <4> QED
                BY <1>2, <4>1
        <3>3. rounds[p].id = next
            <4>1. Newest - L + (L - 1) = Newest - 1
                BY <1>2
            <4> QED
                BY <3>1, <3>2, <4>1
        <3> QED
            BY <3>1, <3>2, <3>3
    <2> QED
        BY <2>1, <2>2
<1>4. Known(next) /\ Place(next) # 0
    BY <1>2, <1>3 DEF Known
<1>5. /\ UNCHANGED <<cur, over>>
      /\ rounds' = [rounds EXCEPT ![p] = v] /\ proc' = "wait"
    BY <1>1, <1>4 DEF Push, Renewed, chain
<1>6. /\ DOMAIN rounds' = 1..L /\ Len(rounds') = L
      /\ rounds'[p] = v /\ \A i \in 1..L : i # p => rounds'[i] = rounds[i]
    BY <1>2, <1>5 DEF RoundsInv
<1>7. \A i \in 1..L : rounds'[i].id = rounds[i].id
    BY <1>1, <1>3, <1>6
<1>8. rounds' # <<>> /\ Newest' = Newest
    BY <1>2, <1>6, <1>7 DEF Newest
<1>9. Gapless'
    BY <1>2, <1>6, <1>7, <1>8 DEF Gapless
<1>10. UpToDate'
    BY <1>5, <1>8 DEF UpToDate, WalkInv
<1>11. Deep'
    <2>1. Deep
        BY DEF Starting, Settled, Renewing
    <2> QED
        BY <1>2, <1>6, <1>7, <2>1 DEF Deep
<1>12. (FinalBut(1))'
    <2> SUFFICES ASSUME NEW i \in 1..L, i <= L - 1 PROVE rounds'[i].ended
        BY <1>6 DEF FinalBut
    <2>1. CASE Starting /\ next = Newest
        <3>1. p = L /\ FinalBut(1)
            BY <1>2, <1>3, <2>1 DEF Starting, Settled
        <3>2. rounds[i].ended
            BY <1>2, <3>1 DEF FinalBut
        <3>3. i # p
            BY <1>2, <3>1
        <3> QED
            BY <1>6, <3>2, <3>3
    <2>2. CASE Renewing
        <3>1. p = L - 1 /\ FinalBut(2) /\ asOf >= next
            BY <1>2, <1>3, <2>2 DEF Renewing, Push
        <3>2. CASE i = p
            <4>1. v.ended = (next <= asOf)
                OBVIOUS
            <4> QED
                BY <1>1, <1>6, <3>1, <3>2, <4>1
        <3>3. CASE i # p
            <4>1. i <= L - 2
                BY <1>2, <3>1, <3>3
            <4>2. rounds[i].ended
                BY <1>2, <3>1, <4>1 DEF FinalBut
            <4> QED
                BY <1>6, <3>3, <4>2
        <3> QED
            BY <3>2, <3>3
    <2> QED
        BY <2>1, <2>2
<1> QED
    BY <1>5, <1>8, <1>9, <1>10, <1>11, <1>12 DEF WalkInv, Asleep, Settled

\* The round after the newest.
LEMMA PushNewest ==
    ASSUME RoundsInv, WalkInv, RoundsInv', Push, rounds # <<>>,
           Starting, next # Newest
    PROVE  WalkInv'
<1> PICK v : v = [id |-> next, ended |-> next <= asOf]
    OBVIOUS
<1> PICK L : L = Len(rounds)
    OBVIOUS
<1>1. v \in Entry /\ v.id = next /\ next \in Int /\ asOf \in Int
    BY DEF RoundsInv, Entry
<1>2. /\ L \in Nat \ {0} /\ DOMAIN rounds = 1..L
      /\ \A i \in 1..L : /\ rounds[i] \in Entry /\ rounds[i].id \in Int
                         /\ rounds[i].id = Newest - L + i
      /\ Newest \in Int /\ Newest = rounds[L].id
    BY Numbered DEF WalkInv
<1>3. next = cur /\ next = Newest + 1 /\ batch = 2 /\ Deep /\ FinalBut(1)
      /\ asOf >= next - 1 /\ ~over
    <2>1. next = cur /\ batch = 2 /\ Deep /\ FinalBut(1) /\ asOf >= next - 1
        BY DEF Starting, Settled, Push
    <2>2. Newest = cur - 1 /\ ~over
        BY <2>1 DEF WalkInv, UpToDate
    <2> QED
        BY <1>1, <2>1, <2>2
<1>4. Place(next) = L
    BY <1>1, <1>3, Places DEF WalkInv
<1>5. /\ UNCHANGED <<cur, over, asOf>>
      /\ rounds' = Inserted(v) /\ next' = next - 1 /\ proc' \in {"elect", "push"}
    <2>1. ~Known(next) /\ Place(next) # 0
        BY <1>2, <1>3, <1>4 DEF Known
    <2> QED
        BY <1>3, <2>1 DEF Push, chain
<1>6. PICK s : s = InsertAt(rounds, Place(v.id) + 1, v)
    OBVIOUS
<1>7. /\ s \in Seq(Entry) /\ Len(s) = L + 1
      /\ \A i \in 1..L : s[i] = rounds[i]
      /\ s[L + 1] = v
      /\ rounds' = IF L = MaxRounds THEN Tail(s) ELSE s
    <2>1. Place(v.id) \in 0..Len(rounds)
        BY <1>1, <1>2, <1>4
    <2>2. /\ s \in Seq(Entry) /\ Len(s) = Len(rounds) + 1
          /\ \A i \in 1..Len(rounds) + 1 :
                /\ i <= Place(v.id) => s[i] = rounds[i]
                /\ i = Place(v.id) + 1 => s[i] = v
          /\ Inserted(v) = IF Len(rounds) = MaxRounds THEN Tail(s) ELSE s
        BY <1>1, <1>6, <2>1, InsertedParts
    <2>3. L \in Nat /\ L + 1 \in 1..L + 1 /\ \A i \in 1..L : i \in 1..L + 1 /\ i <= L
        BY <1>2
    <2>4. Place(v.id) = L /\ Len(rounds) = L
        BY <1>1, <1>4
    <2> QED
        BY <1>5, <2>2, <2>3, <2>4
<1>8. PICK t \in {0, 1}, M \in Nat \ {0} :
          /\ M = L + 1 - t /\ t = IF L = MaxRounds THEN 1 ELSE 0
          /\ Len(rounds') = M /\ DOMAIN rounds' = 1..M
          /\ \A i \in 1..M : rounds'[i] = s[i + t]
    <2>1. CASE L = MaxRounds
        <3>1. /\ Len(Tail(s)) = L /\ DOMAIN Tail(s) = 1..L
              /\ \A i \in 1..L : Tail(s)[i] = s[i + 1]
            BY <1>2, <1>7
        <3> QED
            BY <1>2, <1>7, <2>1, <3>1
    <2>2. CASE L # MaxRounds
        <3>1. Len(s) = L + 1 /\ DOMAIN s = 1..L + 1 /\ L + 1 \in Nat \ {0}
            BY <1>2, <1>7
        <3>2. \A i \in 1..L + 1 : i + 0 = i
            BY <1>2
        <3> QED
            BY <1>2, <1>7, <2>2, <3>1, <3>2
    <2> QED
        BY <2>1, <2>2
<1>9. \A i \in 1..M : i < M => i + t \in 1..L /\ rounds'[i] = rounds[i + t]
    BY <1>2, <1>7, <1>8
<1>10. M \in 1..M /\ rounds'[M] = v
    BY <1>2, <1>7, <1>8
<1>11. rounds' # <<>> /\ Newest' = next
    BY <1>1, <1>8, <1>10 DEF Newest
<1>12. Gapless'
    <2>1. ASSUME NEW i \in 1..M PROVE rounds'[i].id = next - M + i
        <3>1. CASE i = M
            BY <1>1, <1>10, <3>1
        <3>2. CASE i < M
            <4>1. rounds'[i].id = Newest - L + (i + t)
                BY <1>2, <1>9, <3>2
            <4>2. /\ L \in Int /\ Newest \in Int /\ i \in Int /\ t \in Int
                  /\ M = L + 1 - t
                BY <1>2, <1>8
            <4>3. Newest - L + (i + t) = Newest + 1 - M + i
                BY <4>2
            <4>4. next = Newest + 1
                BY <1>3
            <4> QED
                BY <4>1, <4>2, <4>3, <4>4
        <3> QED
            BY <3>1, <3>2
    <2> QED
        BY <1>8, <1>11, <2>1 DEF Gapless
<1>13. UpToDate'
    BY <1>3, <1>5, <1>11 DEF UpToDate
<1>14. Deep'
    <2>1. CASE L = MaxRounds
        BY <1>2, <1>8, <2>1 DEF Deep
    <2>2. CASE L # MaxRounds
        <3>1. 1 \in 1..M /\ 1 < M /\ rounds'[1] = rounds[1]
            BY <1>2, <1>8, <1>9, <2>2
        <3> QED
            BY <1>3, <2>2, <3>1 DEF Deep
    <2> QED
        BY <2>1, <2>2
<1>15. (FinalBut(2))' /\ (M = 1 => (FinalBut(1))')
    <2>1. ASSUME NEW i \in 1..M, i <= M - 2 PROVE rounds'[i].ended
        <3>1. i + t \in 1..L /\ rounds'[i] = rounds[i + t]
            BY <1>8, <1>9, <2>1
        <3>2. i + t <= L - 1
            BY <1>2, <1>8, <2>1
        <3> QED
            BY <1>2, <1>3, <3>1, <3>2 DEF FinalBut
    <2>2. (FinalBut(2))'
        BY <1>8, <2>1 DEF FinalBut
    <2>3. M = 1 => (FinalBut(1))'
        BY <1>8 DEF FinalBut
    <2> QED
        BY <2>2, <2>3
<1>16. next' = next - 1 /\ asOf' >= next' /\ next' \in Int
    BY <1>1, <1>3, <1>5
<1>17. Renewing' \/ Filling'
    <2>1. CASE M = 1
        <3>1. rounds'[1].id - 1 = next'
            BY <1>1, <1>10, <1>16, <2>1
        <3> QED
            BY <1>5, <1>11, <1>15, <1>16, <2>1, <3>1 DEF Filling
    <2>2. CASE M # 1
        <3>1. Len(rounds') > 1 /\ next' = Newest' - 1
            BY <1>8, <1>11, <1>16, <2>2
        <3> QED
            BY <1>5, <1>14, <1>15, <1>16, <3>1 DEF Renewing
    <2> QED
        BY <2>1, <2>2
<1> QED
    BY <1>12, <1>13, <1>17 DEF WalkInv

\* The round before the oldest.
LEMMA PushOldest ==
    ASSUME RoundsInv, WalkInv, RoundsInv', Push, Filling
    PROVE  WalkInv'
<1> PICK v : v = [id |-> next, ended |-> next <= asOf]
    OBVIOUS
<1> PICK L : L = Len(rounds)
    OBVIOUS
<1>1. v \in Entry /\ v.id = next /\ next \in Int /\ asOf \in Int
    BY DEF RoundsInv, Entry
<1>2. /\ L \in Nat \ {0} /\ DOMAIN rounds = 1..L
      /\ \A i \in 1..L : /\ rounds[i] \in Entry /\ rounds[i].id \in Int
                         /\ rounds[i].id = Newest - L + i
      /\ Newest \in Int /\ Newest = rounds[L].id
    BY Numbered DEF WalkInv, Filling
<1>3. next = rounds[1].id - 1 /\ FinalBut(1) /\ asOf >= next /\ next = Newest - L
    BY <1>1, <1>2 DEF Filling, Push
<1>4. Place(next) = 0 /\ ~Known(next)
    <2>1. Place(next) = 0
        BY <1>1, <1>3, Places DEF WalkInv, Filling
    <2> QED
        BY <2>1 DEF Known
<1>5. UNCHANGED <<cur, over, asOf>> /\ UpToDate
    BY DEF Push, chain, walk, WalkInv
<1>6. CASE L = MaxRounds
    <2>1. UNCHANGED rounds /\ proc' = "wait"
        BY <1>4, <1>6 DEF Push
    <2>2. Gapless' /\ UpToDate'
        BY <1>5, <2>1 DEF WalkInv, Gapless, UpToDate, Newest
    <2>3. Deep' /\ (FinalBut(1))'
        BY <1>3, <1>6, <2>1 DEF Deep, FinalBut
    <2>4. Asleep'
        BY <2>1, <2>3 DEF Asleep, Settled, Filling
    <2> QED
        BY <2>2, <2>4 DEF WalkInv
<1>7. CASE L # MaxRounds
    <2>1. /\ rounds' = Inserted(v) /\ next' = next - 1
          /\ proc' \in {"elect", "push", "back"}
        BY <1>4, <1>7 DEF Push
    <2>2. PICK s : s = InsertAt(rounds, Place(v.id) + 1, v)
        OBVIOUS
    <2>3. Place(v.id) = 0 /\ Place(v.id) \in 0..Len(rounds)
        BY <1>1, <1>2, <1>4
    <2>4. /\ Len(rounds') = L + 1 /\ DOMAIN rounds' = 1..L + 1
          /\ rounds'[1] = v
          /\ \A i \in 1..L + 1 : i > 1 => rounds'[i] = rounds[i - 1]
        <3>1. /\ s \in Seq(Entry) /\ Len(s) = L + 1
              /\ s[1] = v /\ \A i \in 1..L + 1 : i > 1 => s[i] = rounds[i - 1]
              /\ rounds' = s
            BY <1>1, <1>2, <1>7, <2>1, <2>2, <2>3, InsertedParts
        <3> QED
            BY <3>1
    <2>5. rounds' # <<>> /\ Newest' = Newest
        <3>1. L + 1 > 1 /\ L + 1 \in 1..L + 1 /\ L + 1 - 1 = L
            BY <1>2
        <3>2. rounds'[L + 1] = rounds[L]
            BY <2>4, <3>1
        <3> QED
            BY <1>2, <2>4, <3>2 DEF Newest
    <2>6. Gapless'
        <3>1. ASSUME NEW i \in 1..L + 1
              PROVE  rounds'[i].id = Newest - (L + 1) + i
            <4>1. CASE i = 1
                <5>1. Newest - L = Newest - (L + 1) + 1
                    BY <1>2
                <5> QED
                    BY <1>1, <1>3, <2>4, <4>1, <5>1
            <4>2. CASE i > 1
                <5>1. i - 1 \in 1..L /\ rounds'[i] = rounds[i - 1]
                    BY <1>2, <2>4, <4>2
                <5>2. rounds'[i].id = Newest - L + (i - 1)
                    BY <1>2, <5>1
                <5>3. L \in Int /\ Newest \in Int /\ i \in Int
                    BY <1>2
                <5>4. Newest - L + (i - 1) = Newest - (L + 1) + i
                    BY <5>3
                <5> QED
                    BY <5>2, <5>4
            <4> QED
                BY <4>1, <4>2
        <3> QED
            BY <2>4, <2>5, <3>1 DEF Gapless
    <2>7. UpToDate'
        BY <1>5, <2>5 DEF UpToDate, Filling
    <2>8. (FinalBut(1))'
        <3> SUFFICES ASSUME NEW i \in 1..L + 1, i <= L PROVE rounds'[i].ended
            BY <1>2, <2>4 DEF FinalBut
        <3>1. CASE i = 1
            <4>1. v.ended = (next <= asOf)
                OBVIOUS
            <4> QED
                BY <1>1, <1>3, <2>4, <3>1, <4>1
        <3>2. CASE i > 1
            <4>1. i - 1 \in 1..L /\ i - 1 <= L - 1 /\ rounds'[i] = rounds[i - 1]
                BY <1>2, <2>4, <3>2
            <4> QED
                BY <1>2, <1>3, <4>1 DEF FinalBut
        <3> QED
            BY <3>1, <3>2
    <2>9. Filling'
        <3>1. next' = rounds'[1].id - 1 /\ asOf' >= next'
            BY <1>1, <1>3, <1>5, <2>1, <2>4
        <3> QED
            BY <2>1, <2>5, <2>8, <3>1 DEF Filling
    <2> QED
        BY <2>6, <2>7, <2>9 DEF WalkInv
<1> QED
    BY <1>6, <1>7

LEMMA PushWalkInv == RoundsInv /\ WalkInv /\ RoundsInv' /\ Push => WalkInv'
<1> SUFFICES ASSUME RoundsInv, WalkInv, RoundsInv', Push PROVE WalkInv'
    OBVIOUS
<1>1. Starting \/ Renewing \/ Filling
    BY DEF WalkInv, Asleep, Woken, Push
<1>2. CASE rounds = <<>>
    BY <1>2, PushFirst
<1>3. CASE rounds # <<>> /\ Starting
    BY <1>3, PushKnown, PushNewest
<1>4. CASE rounds # <<>> /\ Renewing
    BY <1>4, PushKnown
<1>5. CASE Filling
    BY <1>5, PushOldest
<1> QED
    BY <1>1, <1>2, <1>3, <1>4, <1>5

\* An update that reads from the elector changes no round.
LEMMA WalkStays ==
    ASSUME UNCHANGED <<cur, over, rounds>>, WalkInv
    PROVE  /\ Gapless' /\ UpToDate'
           /\ Settled => Settled'
           /\ Deep => Deep'
           /\ FinalBut(1) => (FinalBut(1))'
           /\ FinalBut(2) => (FinalBut(2))'
BY DEF WalkInv, Gapless, UpToDate, Settled, Deep, FinalBut, Newest

LEMMA ElectWalkInv == RoundsInv /\ WalkInv /\ Elect => WalkInv'
<1> SUFFICES ASSUME RoundsInv, WalkInv, Elect PROVE WalkInv'
    OBVIOUS
<1>1. /\ UNCHANGED <<cur, over, rounds, next, batch>> /\ proc' = "push"
      /\ asOf' = IF Ended(next) THEN next ELSE next - 1
    BY DEF Elect, chain
<1>2. cur \in Int /\ next \in Int
    BY DEF RoundsInv
<1>3. /\ Gapless' /\ UpToDate' /\ Newest' = Newest
      /\ Settled => Settled'
      /\ Deep => Deep'
      /\ FinalBut(1) => (FinalBut(1))'
      /\ FinalBut(2) => (FinalBut(2))'
    BY <1>1, WalkStays DEF Newest
<1>4. Starting \/ Renewing \/ Filling
    BY DEF WalkInv, Asleep, Woken, Elect
<1>5. CASE Starting
    <2>1. asOf' >= next' - 1
        BY <1>1, <1>2
    <2>2. Starting'
        BY <1>1, <1>3, <1>5, <2>1 DEF Starting
    <2> QED
        BY <1>3, <2>2 DEF WalkInv
\* A round before the newest has ended.
<1>6. ASSUME rounds # <<>>, next < Newest PROVE asOf' >= next'
    <2>1. Newest \in Int /\ Newest <= cur
        BY <1>2, <1>6, Numbered DEF WalkInv, UpToDate
    <2>2. Ended(next)
        BY <1>2, <1>6, <2>1 DEF Ended
    <2> QED
        BY <1>1, <1>2, <2>2
<1>7. CASE Renewing
    <2>1. rounds # <<>> /\ next < Newest
        BY <1>2, <1>7, Numbered DEF Renewing, WalkInv
    <2>2. Renewing'
        BY <1>1, <1>3, <1>6, <1>7, <2>1 DEF Renewing
    <2> QED
        BY <1>3, <2>2 DEF WalkInv
<1>8. CASE Filling
    <2>1. rounds # <<>> /\ next < Newest
        <3>1. /\ Len(rounds) \in Nat \ {0} /\ 1 \in 1..Len(rounds) /\ Newest \in Int
              /\ rounds[1].id = Newest - Len(rounds) + 1
            BY <1>8, Numbered DEF Filling, WalkInv
        <3> QED
            BY <1>8, <3>1 DEF Filling
    <2>2. Filling'
        BY <1>1, <1>3, <1>6, <1>8, <2>1 DEF Filling
    <2> QED
        BY <1>3, <2>2 DEF WalkInv
<1> QED
    BY <1>4, <1>5, <1>7, <1>8

LEMMA BackWalkInv == RoundsInv /\ WalkInv /\ Back => WalkInv'
<1> SUFFICES ASSUME RoundsInv, WalkInv, Back PROVE WalkInv'
    OBVIOUS
<1>1. /\ UNCHANGED <<cur, over, rounds, next, asOf>>
      /\ IF next + 1 \in Late THEN proc' = "wait" ELSE proc' \in {"elect", "push"}
    BY DEF Back, chain
<1>2. /\ Gapless' /\ UpToDate' /\ Newest' = Newest
      /\ Deep => Deep'
      /\ FinalBut(1) => (FinalBut(1))'
    BY <1>1, WalkStays DEF Newest
<1>3. Filling
    BY DEF WalkInv, Asleep, Woken, Starting, Renewing, Back
<1>4. CASE next + 1 \in Late
    <2>1. rounds[1].id \in Int
        <3>1. 1 \in 1..Len(rounds)
            BY <1>3, Numbered DEF Filling, WalkInv
        <3> QED
            BY <3>1, Numbered DEF WalkInv
    <2>2. Deep
        BY <1>3, <1>4, <2>1 DEF Filling, Deep
    <2>3. Asleep'
        BY <1>1, <1>2, <1>3, <1>4, <2>2 DEF Asleep, Settled, Filling
    <2> QED
        BY <1>2, <2>3 DEF WalkInv
<1>5. CASE next + 1 \notin Late
    <2>1. Filling'
        BY <1>1, <1>2, <1>3, <1>5 DEF Filling, Back
    <2> QED
        BY <1>2, <2>1 DEF WalkInv
<1> QED
    BY <1>4, <1>5

WalkingInv == RoundsInv /\ fails \in Nat /\ HistoryInv

LEMMA NextWalkingInv == WalkingInv /\ [Next]_vars => WalkingInv'
<1> SUFFICES ASSUME WalkingInv, [Next]_vars PROVE WalkingInv'
    OBVIOUS
<1>1. RoundsInv'
    BY NextRoundsInv DEF WalkingInv
<1>2. fails' \in Nat /\ (fails' = 0 => fails = 0 /\ ~Fail)
    <2>1. UNCHANGED fails \/ Fail
        BY DEF Next, Update, Wake, Begin, Elect, Push, Back, Fail, End, Advance, vars
    <2>2. Fail => fails' = fails + 1
        BY DEF Fail
    <2> QED
        BY <2>1, <2>2 DEF WalkingInv
<1> SUFFICES ASSUME fails' = 0 PROVE WalkInv'
    BY <1>1, <1>2 DEF WalkingInv, HistoryInv
<1>3. RoundsInv /\ WalkInv /\ fails = 0
    BY <1>2 DEF WalkingInv, HistoryInv
<1>4. CASE Wake
    <2>1. UNCHANGED <<cur, over, rounds>> /\ Asleep /\ proc' = "update"
        BY <1>3, <1>4
        DEF WalkInv, Wake, Woken, Starting, Renewing, Filling, chain
    <2>2. Gapless' /\ UpToDate' /\ Woken'
        BY <1>3, <2>1, WalkStays DEF Asleep, Woken
    <2> QED
        BY <2>2 DEF WalkInv
<1>5. CASE Begin
    <2>1. UNCHANGED <<cur, over, rounds>> /\ Woken
        BY <1>3, <1>5
        DEF WalkInv, Begin, Asleep, Starting, Renewing, Filling, chain
    <2>2. Gapless' /\ UpToDate' /\ Settled'
        BY <1>3, <2>1, WalkStays DEF Woken
    <2>3. Starting'
        BY <1>5, <2>1, <2>2 DEF Begin, Starting
    <2> QED
        BY <2>2, <2>3 DEF WalkInv
<1>6. CASE Elect
    BY <1>3, <1>6, ElectWalkInv
<1>7. CASE Push
    BY <1>1, <1>3, <1>7, PushWalkInv
<1>8. CASE Back
    BY <1>3, <1>8, BackWalkInv
<1>9. CASE End
    <2>1. /\ UNCHANGED <<cur, rounds, proc, next, batch, past, asOf>>
          /\ rounds # <<>> /\ Newest = cur
        BY <1>3, <1>9 DEF End, walk
    <2>2. Gapless' /\ UpToDate'
        BY <1>3, <2>1 DEF WalkInv, Gapless, UpToDate, Newest
    <2>3. /\ Asleep => Asleep'
          /\ Woken => Woken'
          /\ Starting => Starting'
          /\ Renewing => Renewing'
          /\ Filling => Filling'
        BY <2>1 DEF Asleep, Woken, Starting, Renewing, Filling, Settled, Deep,
                    FinalBut, Newest
    <2> QED
        BY <1>3, <2>2, <2>3 DEF WalkInv
\* The walk is not at the current round when there is a new one, unless it is the
\* newest of the rounds.
<1>10. CASE Advance
    <2>1. /\ UNCHANGED <<rounds, proc, next, batch, past, asOf>>
          /\ over /\ cur' = cur + 1 /\ ~over'
        BY <1>10 DEF Advance, walk
    <2>2. rounds # <<>> /\ Newest = cur
        BY <1>3, <2>1 DEF WalkInv, UpToDate
    <2>3. Newest' = cur' - 1
        BY <1>3, <2>1, <2>2 DEF Newest, RoundsInv
    <2>4. Gapless' /\ UpToDate'
        BY <1>3, <2>1, <2>2, <2>3 DEF WalkInv, Gapless, UpToDate, Newest
    <2>5. /\ Asleep => Asleep'
          /\ Woken => Woken'
          /\ Starting => Starting'
          /\ Renewing => Renewing'
          /\ Filling => Filling'
        BY <2>1, <2>2 DEF Asleep, Woken, Starting, Renewing, Filling, Settled,
                          Deep, FinalBut, Newest
    <2> QED
        BY <1>3, <2>4, <2>5 DEF WalkInv
<1>11. CASE UNCHANGED vars
    BY <1>3, <1>11
    DEF vars, chain, walk, WalkInv, Gapless, UpToDate, Asleep, Woken, Starting,
        Renewing, Filling, Settled, Deep, FinalBut, Newest
<1> QED
    BY <1>2, <1>4, <1>5, <1>6, <1>7, <1>8, <1>9, <1>10, <1>11 DEF Next, Update

LEMMA WalkingInvariant == Spec => []WalkingInv
<1>1. Init => WalkingInv
    <2> SUFFICES ASSUME Init PROVE WalkingInv
        OBVIOUS
    <2>1. rounds = <<>> /\ proc = "update" /\ ~over /\ fails = 0
        BY DEF Init
    <2>2. WalkInv
        BY <2>1 DEF WalkInv, Gapless, UpToDate, Woken, Settled
    <2> QED
        BY <2>1, <2>2, InitRoundsInv DEF WalkingInv, HistoryInv
<1> QED
    BY <1>1, NextWalkingInv, PTL DEF Spec

\* As long as no call failed, the rounds the sleeping goroutine leaves have no
\* hole and go back to maxRounds of them or to a late one, wherever the walk of
\* an update was interrupted by the end of a round or the next validators.
THEOREM HistoryReachesBack == Spec => []History
<1>1. WalkingInv => History
    <2> SUFFICES ASSUME WalkingInv, proc = "wait", fails = 0
                 PROVE  Gapless /\ Deep
        BY DEF History, Gapless, Deep
    <2> QED
        BY DEF WalkingInv, HistoryInv, WalkInv, Asleep, Woken, Starting, Renewing,
               Filling, Settled
<1> QED
    BY <1>1, WalkingInvariant, PTL

\* And what it kept of every round before the newest was read after that round
\* had ended, although the newest is read while it lasts.
THEOREM CompletedStayFinal == Spec => []CompletedAreFinal
<1>1. WalkingInv => CompletedAreFinal
    <2> SUFFICES ASSUME WalkingInv, proc = "wait", fails = 0,
                        NEW i \in DOMAIN rounds, i < Len(rounds)
                 PROVE  rounds[i].ended
        BY DEF CompletedAreFinal
    <2>1. FinalBut(1) /\ Gapless /\ RoundsInv
        BY DEF WalkingInv, HistoryInv, WalkInv, Asleep, Woken, Starting, Renewing,
               Filling, Settled
    <2>2. i <= Len(rounds) - 1
        BY <2>1, Numbered
    <2> QED
        BY <2>1, <2>2 DEF FinalBut
<1> QED
    BY <1>1, WalkingInvariant, PTL

-----------------------------------------------------------------------------
(* The round that FetchRoundRewards and FetchValidationRounds tell of. *)

FetchFields == {"pc", "kind", "query", "value", "anchor", "walk", "reply",
                "rewards", "shares"}
ReplyFields == {"start", "end", "prev", "next", "election", "finished"}
Walks == [ret : {"none", "start", "end", "roundEnd", "prev"}, base : Int,
          eid : Elections \cup {0}, fwd : Int, bwd : Int, i : Nat,
          missedFwd : Nat, missedBwd : Nat]

FetchShape ==
    /\ DOMAIN fetch = FetchFields
    /\ fetch.kind \in {"rewards", "rounds"}
    /\ fetch.walk \in Walks
    /\ DOMAIN fetch.reply = ReplyFields
    /\ fetch.pc \notin {"idle", "anchor", "error"} => fetch.anchor \in Seqno

Walking == fetch.pc \in {"base", "forward", "backward"}

\* The time around which a walk looks for a change.
Around(ret) == IF ret \in {"start", "prev"} THEN Since[fetch.anchor]
               ELSE Until[Since[fetch.anchor]]

\* A walk has looked at all blocks from bwd to fwd, in as many steps each way as it
\* is far from its base or has failed, and they are all of one round.
StepsInv ==
    LET w == fetch.walk IN
    Walking =>
        /\ w.ret \in IF fetch.kind = "rewards" THEN {"start", "end"}
                     ELSE {"roundEnd", "prev"}
        /\ w.base \in NearestBlocks(Around(w.ret))
        /\ w.fwd - w.base + w.missedFwd = IF FetchAt("backward") THEN w.i + 1 ELSE w.i
        /\ w.base - w.bwd + w.missedBwd = w.i
        /\ 0 <= w.bwd /\ w.bwd <= w.base /\ w.base <= w.fwd /\ w.fwd <= LastSeqno
        /\ FetchAt("base") => w.bwd = w.base /\ w.fwd = w.base
        /\ ~FetchAt("base") => \A b \in w.bwd..w.fwd : Since[b] = w.eid

\* A walk that has come to its end has not found anything.
EndedInv ==
    LET w == fetch.walk IN
    /\ ~FetchAt("error") => w.i < MaxBoundarySearch
    /\ w.i >= MaxBoundarySearch =>
          \A b \in 0..LastSeqno - 1 : Since[b] # Since[b + 1] =>
              IF b >= w.base THEN b + 1 - w.base > MaxBoundarySearch - w.missedFwd
                             ELSE w.base - b > MaxBoundarySearch - w.missedBwd

HasStart(r) ==
    /\ r.election = Since[fetch.anchor] /\ r.start \in Seqno
    /\ FirstBlock(r.election, r.start) /\ r.prev = Since[r.start - 1]
HasEnd(r) ==
    /\ r.end \in Seqno
    /\ LastBlock(r.election, r.end) /\ r.next = Since[r.end + 1]

\* What was found so far is right.
RewardsReply ==
    fetch.kind = "rewards" =>
        /\ (Walking /\ fetch.walk.ret = "end") \/ fetch.pc \in {"data", "done", "panic"}
              => HasStart(fetch.reply)
        /\ fetch.pc \in {"data", "done", "panic"} => HasEnd(fetch.reply)
RoundsReply ==
    LET r == fetch.reply IN
    fetch.kind = "rounds" =>
        /\ Walking => r.election = Since[fetch.anchor]
        /\ fetch.pc = "done" /\ r.election # Nil =>
              \E b \in Seqno : FirstBlock(r.election, b) /\ r.prev = Since[b - 1]
        /\ (Walking \/ fetch.pc = "done") /\ r.end # 0 =>
              LastBlock(r.election, r.end)

FetchInv ==
    /\ FetchShape /\ StepsInv /\ EndedInv /\ RewardsReply /\ RoundsReply
    /\ fetch.pc \in {"idle", "anchor", "round"} => fetch.reply = NoReply
    /\ fetch.kind = "rounds" => fetch.pc \notin {"data", "panic"}

LEMMA FetchInitially == RoundInit => FetchInv
<1> SUFFICES ASSUME RoundInit PROVE FetchInv
    OBVIOUS
<1> USE RoundsApart
<1>1. /\ fetch.pc = "idle" /\ fetch.walk = NoWalk /\ fetch.reply = NoReply
      /\ fetch.kind = "rewards" /\ DOMAIN fetch = FetchFields
    BY DEF RoundInit, FetchFields
<1>2. NoWalk \in Walks /\ DOMAIN NoReply = ReplyFields /\ NoWalk.i = 0
    BY DEF NoWalk, NoReply, Walks, ReplyFields
<1> QED
    BY <1>1, <1>2 DEF FetchInv, FetchShape, StepsInv, EndedInv, RewardsReply,
                      RoundsReply, Walking, FetchAt

\* What SetFetch does to the fields.
LEMMA SetFetchFields ==
    ASSUME NEW fields, DOMAIN fetch = FetchFields, SetFetch(fields)
    PROVE  /\ DOMAIN fetch' = FetchFields
           /\ \A f \in FetchFields :
                fetch'[f] = IF f \in DOMAIN fields THEN fields[f] ELSE fetch[f]
BY DEF SetFetch

\* And what the reply is with some of its fields.
LEMMA ReplyWith ==
    ASSUME NEW fields, DOMAIN fields \subseteq ReplyFields
    PROVE  /\ DOMAIN Reply(fields) = ReplyFields
           /\ \A f \in ReplyFields : Reply(fields)[f] =
                IF f \in DOMAIN fields THEN fields[f] ELSE fetch.reply[f]
BY DEF Reply, NoReply, ReplyFields

\* An error needs nothing.
LEMMA ErrorKeeps ==
    ASSUME FetchShape, FetchShape', fetch'.pc = "error", EndedInv'
    PROVE  FetchInv'
BY DEF FetchInv, StepsInv, RewardsReply, RoundsReply, Walking, FetchAt

\* A walk begins.
LEMMA WalkBegins ==
    ASSUME FetchShape, NEW t, NEW ret, NEW reply, WalkFrom(t, ret, reply),
           fetch.anchor \in Seqno, t = Around(ret), DOMAIN reply = ReplyFields,
           ret \in IF fetch.kind = "rewards" THEN {"start", "end"}
                   ELSE {"roundEnd", "prev"},
           fetch.kind = "rewards" /\ ret = "end" => HasStart(reply),
           fetch.kind = "rounds" =>
              /\ reply.election = Since[fetch.anchor]
              /\ reply.end # 0 => LastBlock(reply.election, reply.end)
    PROVE  FetchInv'
<1> USE RoundsApart
<1>1. PICK b \in NearestBlocks(t) :
         SetFetch([pc |-> "base", reply |-> reply,
             walk |-> [NoWalk EXCEPT !.ret = ret, !.base = b, !.fwd = b, !.bwd = b]])
    BY DEF WalkFrom
<1> DEFINE w == [NoWalk EXCEPT !.ret = ret, !.base = b, !.fwd = b, !.bwd = b]
<1>2. b \in Seqno /\ b \in Int /\ 0 <= b /\ b <= LastSeqno
    BY DEF NearestBlocks, Seqno
<1>3. /\ w \in Walks /\ w.ret = ret /\ w.base = b /\ w.fwd = b /\ w.bwd = b
      /\ w.i = 0 /\ w.missedFwd = 0 /\ w.missedBwd = 0
    BY <1>2 DEF NoWalk, Walks
<1> HIDE DEF w
<1>4. /\ DOMAIN fetch' = FetchFields /\ fetch'.pc = "base" /\ fetch'.walk = w
      /\ fetch'.reply = reply /\ fetch'.kind = fetch.kind
      /\ fetch'.anchor = fetch.anchor
    BY <1>1, SetFetchFields DEF FetchShape, FetchFields, w
<1>5. FetchShape'
    BY <1>3, <1>4 DEF FetchShape
<1>6. StepsInv'
    BY <1>2, <1>3, <1>4 DEF StepsInv, Walking, FetchAt, Around
<1>7. EndedInv'
    BY <1>3, <1>4 DEF EndedInv, FetchAt
<1>8. RewardsReply' /\ RoundsReply'
    BY <1>3, <1>4 DEF RewardsReply, RoundsReply, Walking, HasStart, FirstBlock, LastBlock
<1> QED
    BY <1>4, <1>5, <1>6, <1>7, <1>8 DEF FetchInv

\* A walk that has found nothing: of an end, it is left out of the answer; else there
\* is no answer, and if the walk was at its last step there was nothing in reach.
LEMMA ReturnsNothing ==
    ASSUME FetchInv, Walking, NEW w \in Walks, w.ret = fetch.walk.ret, Return(w, Nil),
           w.i >= MaxBoundarySearch =>
               \A b \in 0..LastSeqno - 1 : Since[b] # Since[b + 1] =>
                   IF b >= w.base THEN b + 1 - w.base > MaxBoundarySearch - w.missedFwd
                                  ELSE w.base - b > MaxBoundarySearch - w.missedBwd
    PROVE  FetchInv'
<1> USE RoundsApart
<1>0. FetchShape /\ fetch.anchor \in Seqno
    BY DEF FetchInv, FetchShape, Walking
<1>1. CASE w.ret = "roundEnd"
    <2>1. WalkFrom(fetch.reply.election, "prev", fetch.reply)
        BY <1>1 DEF Return
    <2>2. fetch.kind = "rounds" /\ DOMAIN fetch.reply = ReplyFields
        BY <1>1 DEF FetchInv, StepsInv, FetchShape
    <2>3. /\ fetch.reply.election = Since[fetch.anchor]
          /\ Around("prev") = Since[fetch.anchor]
        BY <2>2 DEF FetchInv, RoundsReply, Around
    <2>4. fetch.reply.end # 0 => LastBlock(fetch.reply.election, fetch.reply.end)
        BY <2>2 DEF FetchInv, RoundsReply
    <2> QED
        BY <1>0, <2>1, <2>2, <2>3, <2>4, WalkBegins
<1>2. CASE w.ret # "roundEnd"
    <2>1. SetFetch([pc |-> "error", walk |-> w])
        BY <1>2 DEF Return
    <2>2. /\ DOMAIN fetch' = FetchFields /\ fetch'.pc = "error" /\ fetch'.walk = w
          /\ fetch'.reply = fetch.reply /\ fetch'.kind = fetch.kind
        BY <1>0, <2>1, SetFetchFields DEF FetchShape, FetchFields
    <2>3. FetchShape'
        BY <1>0, <2>2 DEF FetchShape
    <2>4. EndedInv'
        BY <2>2 DEF EndedInv, FetchAt
    <2> QED
        BY <1>0, <2>2, <2>3, <2>4, ErrorKeeps
<1> QED
    BY <1>1, <1>2

\* One that gives up before its last step.
LEMMA ReturnsEarly ==
    ASSUME FetchInv, Walking, Return(fetch.walk, Nil)
    PROVE  FetchInv'
<1>1. /\ fetch.walk \in Walks /\ fetch.walk.i \in Nat /\ MaxBoundarySearch \in Nat
      /\ fetch.walk.i < MaxBoundarySearch
    BY RoundsApart DEF FetchInv, FetchShape, EndedInv, Walking, FetchAt, Walks
<1>2. ~(fetch.walk.i >= MaxBoundarySearch)
    BY <1>1
<1> QED
    BY <1>1, <1>2, ReturnsNothing

\* A walk that has found where the round changes: by RoundsApart it is the round it
\* was sent for.
LEMMA ReturnsChange ==
    ASSUME FetchInv, FetchAt("forward") \/ FetchAt("backward"),
           NEW b \in 0..LastSeqno - 1, Since[b] # Since[b + 1],
           b >= fetch.walk.base - MaxBoundarySearch,
           b < fetch.walk.base + MaxBoundarySearch,
           Return(fetch.walk, b)
    PROVE  FetchInv'
<1> DEFINE w == fetch.walk
<1> DEFINE e == Since[fetch.anchor]
<1> USE RoundsApart
<1>0. /\ FetchShape /\ fetch.anchor \in Seqno /\ Walking /\ w \in Walks
      /\ w.i < MaxBoundarySearch /\ w.i \in Nat /\ MaxBoundarySearch \in Nat
      /\ e \in Elections
      /\ b \in Seqno /\ b + 1 \in Seqno /\ b \in Int
    BY DEF FetchInv, FetchShape, Walking, FetchAt, EndedInv, Elections, Seqno, Walks
<1>1. b \in Changes(Around(w.ret))
    <2>1. w.base \in NearestBlocks(Around(w.ret)) /\ w.base \in Int
        BY <1>0 DEF FetchInv, StepsInv, Walks
    <2>2. b \in w.base - MaxBoundarySearch .. w.base + MaxBoundarySearch - 1
        BY <1>0, <2>1
    <2> QED
        BY <2>1, <2>2 DEF Changes
<1>2. w.ret \in {"start", "prev"} => Since[b + 1] = e
    BY <1>0, <1>1 DEF Around
<1>3. w.ret \notin {"start", "prev"} => Since[b] = e
    BY <1>0, <1>1 DEF Around
<1>4. CASE b = Nil
    BY <1>0, <1>4, ReturnsEarly
<1>5. CASE b # Nil /\ w.ret = "start"
    <2> DEFINE reply == Reply([start |-> b + 1, prev |-> Since[b],
                               election |-> Since[b + 1]])
    <2>1. WalkFrom(Until[e], "end", reply)
        BY <1>5 DEF Return
    <2>2. /\ DOMAIN reply = ReplyFields /\ reply.start = b + 1
          /\ reply.prev = Since[b] /\ reply.election = Since[b + 1]
        <3>1. DOMAIN [start |-> b + 1, prev |-> Since[b], election |-> Since[b + 1]]
              = {"start", "prev", "election"}
            OBVIOUS
        <3> QED
            BY <3>1, ReplyWith DEF ReplyFields
    <2> HIDE DEF reply
    <2>3. fetch.kind = "rewards" /\ Around("end") = Until[e]
        BY <1>0, <1>5 DEF FetchInv, StepsInv, FetchShape, Around
    <2>4. HasStart(reply)
        <3>1. b + 1 > 0 /\ b + 1 - 1 = b
            BY <1>0
        <3> QED
            BY <1>0, <1>2, <1>5, <2>2, <3>1 DEF HasStart, FirstBlock
    <2> QED
        BY <1>0, <2>1, <2>2, <2>3, <2>4, WalkBegins
<1>6. CASE b # Nil /\ w.ret = "end"
    <2> DEFINE reply == Reply([end |-> b, next |-> Since[b + 1]])
    <2>1. SetFetch([pc |-> "data", walk |-> w, reply |-> reply])
        BY <1>6 DEF Return
    <2>2. /\ DOMAIN reply = ReplyFields /\ reply.end = b /\ reply.next = Since[b + 1]
          /\ reply.start = fetch.reply.start /\ reply.prev = fetch.reply.prev
          /\ reply.election = fetch.reply.election
        <3>1. DOMAIN [end |-> b, next |-> Since[b + 1]] = {"end", "next"}
            OBVIOUS
        <3> QED
            BY <3>1, ReplyWith DEF ReplyFields
    <2> HIDE DEF reply
    <2>3. /\ DOMAIN fetch' = FetchFields /\ fetch'.pc = "data" /\ fetch'.walk = w
          /\ fetch'.reply = reply /\ fetch'.kind = fetch.kind
          /\ fetch'.anchor = fetch.anchor
        BY <1>0, <2>1, SetFetchFields DEF FetchShape, FetchFields
    <2>4. fetch.kind = "rewards" /\ HasStart(fetch.reply)
        BY <1>0, <1>6 DEF FetchInv, StepsInv, FetchShape, RewardsReply
    <2>5. HasStart(reply)
        BY <2>2, <2>4 DEF HasStart
    <2>6. b < LastSeqno
        BY <1>0 DEF Seqno
    <2>7. HasEnd(reply)
        BY <1>0, <1>3, <1>6, <2>2, <2>5, <2>6 DEF HasStart, HasEnd, LastBlock
    <2>8. FetchShape' /\ EndedInv'
        <3>1. FetchShape'
            BY <1>0, <2>2, <2>3 DEF FetchShape
        <3>2. EndedInv'
            BY <1>0, <2>3 DEF EndedInv, FetchAt
        <3> QED
            BY <3>1, <3>2
    <2>9. RewardsReply'
        BY <2>3, <2>5, <2>7 DEF RewardsReply, HasStart, HasEnd, FirstBlock, LastBlock
    <2> QED
        BY <2>3, <2>4, <2>8, <2>9 DEF FetchInv, StepsInv, RoundsReply, Walking, FetchAt
<1>7. CASE b # Nil /\ w.ret = "roundEnd"
    <2> DEFINE reply == Reply([end |-> b])
    <2>1. WalkFrom(fetch.reply.election, "prev", reply)
        BY <1>7 DEF Return
    <2>2. /\ DOMAIN reply = ReplyFields /\ reply.end = b
          /\ reply.election = fetch.reply.election
        <3>1. DOMAIN [end |-> b] = {"end"}
            OBVIOUS
        <3> QED
            BY <3>1, ReplyWith DEF ReplyFields
    <2> HIDE DEF reply
    <2>3. fetch.kind = "rounds" /\ fetch.reply.election = e /\ Around("prev") = e
        BY <1>0, <1>7 DEF FetchInv, StepsInv, FetchShape, RoundsReply, Around
    <2>4. LastBlock(e, b)
        BY <1>0, <1>3, <1>7 DEF LastBlock, Seqno
    <2> QED
        BY <1>0, <2>1, <2>2, <2>3, <2>4, WalkBegins
<1>8. CASE b # Nil /\ w.ret = "prev"
    <2> DEFINE nextId == IF fetch.reply.finished THEN Until[fetch.reply.election] ELSE Nil
    <2> DEFINE reply == Reply([prev |-> Since[b], next |-> nextId])
    <2>1. SetFetch([pc |-> "done", walk |-> w, reply |-> reply])
        BY <1>8 DEF Return
    <2>2. /\ DOMAIN reply = ReplyFields /\ reply.prev = Since[b]
          /\ reply.end = fetch.reply.end /\ reply.election = fetch.reply.election
        <3>1. DOMAIN [prev |-> Since[b], next |-> nextId] = {"prev", "next"}
            OBVIOUS
        <3> QED
            BY <3>1, ReplyWith DEF ReplyFields
    <2> HIDE DEF reply
    <2>3. /\ DOMAIN fetch' = FetchFields /\ fetch'.pc = "done" /\ fetch'.walk = w
          /\ fetch'.reply = reply /\ fetch'.kind = fetch.kind
          /\ fetch'.anchor = fetch.anchor
        BY <1>0, <2>1, SetFetchFields DEF FetchShape, FetchFields
    <2>4. fetch.kind = "rounds" /\ reply.election = e
        BY <1>0, <1>8, <2>2 DEF FetchInv, StepsInv, FetchShape, RoundsReply
    <2>5. FirstBlock(e, b + 1) /\ reply.prev = Since[b + 1 - 1]
        <3>1. b + 1 > 0 /\ b + 1 - 1 = b
            BY <1>0 DEF Seqno
        <3> QED
            BY <1>0, <1>2, <1>8, <2>2, <3>1 DEF FirstBlock
    <2>6. reply.end # 0 => LastBlock(reply.election, reply.end)
        BY <1>0, <2>2, <2>4 DEF FetchInv, RoundsReply
    <2>7. FetchShape' /\ EndedInv'
        <3>1. FetchShape'
            BY <1>0, <2>2, <2>3 DEF FetchShape
        <3>2. EndedInv'
            BY <1>0, <2>3 DEF EndedInv, FetchAt
        <3> QED
            BY <3>1, <3>2
    <2>8. RoundsReply'
        BY <1>0, <2>3, <2>4, <2>5, <2>6 DEF RoundsReply, Walking, FirstBlock, LastBlock
    <2> QED
        BY <2>3, <2>4, <2>7, <2>8 DEF FetchInv, StepsInv, RewardsReply, Walking, FetchAt
<1> QED
    BY <1>0, <1>4, <1>5, <1>6, <1>7, <1>8 DEF FetchInv, StepsInv

\* What a step of a walk leaves alone, that only moves on.
LEMMA WalksOn ==
    ASSUME FetchInv, Walking, NEW pc \in {"forward", "backward"}, NEW w \in Walks,
           SetFetch([pc |-> pc, walk |-> w]),
           w.ret = fetch.walk.ret, w.base = fetch.walk.base, w.i < MaxBoundarySearch,
           w.fwd - w.base + w.missedFwd = IF pc = "backward" THEN w.i + 1 ELSE w.i,
           w.base - w.bwd + w.missedBwd = w.i,
           0 <= w.bwd, w.bwd <= w.base, w.base <= w.fwd, w.fwd <= LastSeqno,
           \A b \in w.bwd..w.fwd : Since[b] = w.eid
    PROVE  FetchInv'
<1> USE RoundsApart
<1>1. FetchShape /\ fetch.anchor \in Seqno /\ w.i \in Nat /\ MaxBoundarySearch \in Nat
    BY DEF FetchInv, FetchShape, Walking, Walks
<1>2. /\ DOMAIN fetch' = FetchFields /\ fetch'.pc = pc /\ fetch'.walk = w
      /\ fetch'.reply = fetch.reply /\ fetch'.kind = fetch.kind
      /\ fetch'.anchor = fetch.anchor
    BY <1>1, SetFetchFields DEF FetchShape, FetchFields
<1>3. FetchShape'
    BY <1>1, <1>2 DEF FetchShape
<1>4. EndedInv'
    BY <1>1, <1>2 DEF EndedInv, FetchAt
<1>5. StepsInv'
    BY <1>2 DEF FetchInv, StepsInv, Walking, FetchAt, Around
<1>6. RewardsReply'
    BY <1>2 DEF FetchInv, RewardsReply, Walking, HasStart, FirstBlock
<1>7. RoundsReply'
    BY <1>2 DEF FetchInv, RoundsReply, Walking, LastBlock
<1> QED
    BY <1>2, <1>3, <1>4, <1>5, <1>6, <1>7 DEF FetchInv, Walking

LEMMA BoundaryBaseStep == FetchInv /\ BoundaryBase => FetchInv'
<1> SUFFICES ASSUME FetchInv, BoundaryBase PROVE FetchInv'
    OBVIOUS
<1> DEFINE w == fetch.walk
<1> USE RoundsApart
<1>1. /\ Walking /\ w \in Walks /\ w.i < MaxBoundarySearch /\ fetch.pc = "base"
      /\ w.base \in Seqno /\ w.base \in Int
    BY DEF BoundaryBase, FetchAt, Walking, FetchInv, FetchShape, StepsInv, EndedInv,
           NearestBlocks, Seqno
<1>2. CASE Return(w, Nil)
    BY <1>1, <1>2, ReturnsEarly
<1>3. CASE SetFetch([pc |-> "forward", walk |-> [w EXCEPT !.eid = Since[w.base]]])
    <2> DEFINE v == [w EXCEPT !.eid = Since[w.base]]
    <2>1. /\ v \in Walks /\ v.eid = Since[w.base] /\ v.ret = w.ret /\ v.base = w.base
          /\ v.fwd = w.fwd /\ v.bwd = w.bwd /\ v.i = w.i
          /\ v.missedFwd = w.missedFwd /\ v.missedBwd = w.missedBwd
        BY <1>1 DEF Walks, Elections
    <2> HIDE DEF v
    <2>2. /\ w.fwd = w.base /\ w.bwd = w.base
          /\ w.fwd - w.base + w.missedFwd = w.i /\ w.base - w.bwd + w.missedBwd = w.i
          /\ 0 <= w.bwd /\ w.fwd <= LastSeqno
        BY <1>1 DEF FetchInv, StepsInv, FetchAt
    <2>3. \A b \in v.bwd..v.fwd : Since[b] = v.eid
        BY <1>1, <2>1, <2>2
    <2>4. SetFetch([pc |-> "forward", walk |-> v])
        BY <1>3 DEF v
    <2> QED
        BY <1>1, <2>1, <2>2, <2>3, <2>4, WalksOn
<1> QED
    BY <1>2, <1>3 DEF BoundaryBase

\* Where a walk that is under way stands.
LEMMA WalkStands ==
    ASSUME FetchInv, FetchAt("forward") \/ FetchAt("backward")
    PROVE  LET w == fetch.walk IN
           /\ Walking /\ w \in Walks /\ w.i < MaxBoundarySearch
           /\ w.base \in Int /\ w.fwd \in Int /\ w.bwd \in Int /\ w.i \in Nat
           /\ w.missedFwd \in Nat /\ w.missedBwd \in Nat
           /\ w.fwd - w.base + w.missedFwd = IF FetchAt("backward") THEN w.i + 1 ELSE w.i
           /\ w.base - w.bwd + w.missedBwd = w.i
           /\ 0 <= w.bwd /\ w.bwd <= w.base /\ w.base <= w.fwd /\ w.fwd <= LastSeqno
           /\ \A b \in w.bwd..w.fwd : Since[b] = w.eid
           /\ Since[w.fwd] = w.eid /\ Since[w.bwd] = w.eid
BY DEF FetchInv, FetchShape, StepsInv, EndedInv, Walking, FetchAt, Walks

LEMMA ForwardStep == FetchInv /\ Forward => FetchInv'
<1> SUFFICES ASSUME FetchInv, Forward PROVE FetchInv'
    OBVIOUS
<1> DEFINE w == fetch.walk
<1> DEFINE b == w.fwd + 1
<1> USE RoundsApart
<1>1. FetchAt("forward") /\ ~FetchAt("backward")
    BY DEF Forward, FetchAt
<1>2. /\ Walking /\ w \in Walks /\ w.i < MaxBoundarySearch
      /\ w.base \in Int /\ w.fwd \in Int /\ w.bwd \in Int /\ w.i \in Nat
      /\ w.missedFwd \in Nat /\ w.missedBwd \in Nat
      /\ w.fwd - w.base + w.missedFwd = w.i /\ w.base - w.bwd + w.missedBwd = w.i
      /\ 0 <= w.bwd /\ w.bwd <= w.base /\ w.base <= w.fwd /\ w.fwd <= LastSeqno
      /\ Since[w.fwd] = w.eid
    BY <1>1, WalkStands
<1>3. \A c \in w.bwd..w.fwd : Since[c] = w.eid
    BY <1>1, WalkStands
<1>4. CASE SetFetch([pc |-> "backward", walk |-> MissForward(w)])
    <2> DEFINE v == MissForward(w)
    <2>1. /\ v \in Walks /\ v.eid = w.eid /\ v.ret = w.ret /\ v.base = w.base
          /\ v.fwd = w.fwd /\ v.bwd = w.bwd /\ v.i = w.i
          /\ v.missedFwd = w.missedFwd + 1 /\ v.missedBwd = w.missedBwd
        BY <1>2 DEF Walks, MissForward
    <2> HIDE DEF v
    <2>2. /\ v.fwd - v.base + v.missedFwd = v.i + 1 /\ v.base - v.bwd + v.missedBwd = v.i
        BY <1>2, <2>1
    <2>3. SetFetch([pc |-> "backward", walk |-> v])
        BY <1>4 DEF v
    <2> QED
        BY <1>2, <1>3, <2>1, <2>2, <2>3, WalksOn
<1>5. CASE Return(w, Nil)
    BY <1>2, <1>5, ReturnsEarly
<1>6. CASE b <= LastSeqno /\ Since[b] # w.eid /\ Return(w, w.fwd)
    <2>1. /\ w.fwd \in 0..LastSeqno - 1 /\ Since[w.fwd] # Since[w.fwd + 1]
          /\ w.fwd >= w.base - MaxBoundarySearch /\ w.fwd < w.base + MaxBoundarySearch
        BY <1>2, <1>6
    <2> QED
        BY <1>1, <1>6, <2>1, ReturnsChange
<1>7. CASE /\ b <= LastSeqno /\ Since[b] = w.eid
           /\ SetFetch([pc |-> "backward", walk |-> [w EXCEPT !.fwd = b]])
    <2> DEFINE v == [w EXCEPT !.fwd = b]
    <2>1. /\ v \in Walks /\ v.eid = w.eid /\ v.ret = w.ret /\ v.base = w.base
          /\ v.fwd = w.fwd + 1 /\ v.bwd = w.bwd /\ v.i = w.i
          /\ v.missedFwd = w.missedFwd /\ v.missedBwd = w.missedBwd
        BY <1>2 DEF Walks
    <2> HIDE DEF v
    <2>2. /\ v.fwd - v.base + v.missedFwd = v.i + 1 /\ v.base - v.bwd + v.missedBwd = v.i
          /\ v.base <= v.fwd /\ v.fwd <= LastSeqno
        BY <1>2, <1>7, <2>1
    <2>3. \A c \in v.bwd..v.fwd : Since[c] = v.eid
        BY <1>2, <1>3, <1>7, <2>1
    <2>4. SetFetch([pc |-> "backward", walk |-> v])
        BY <1>7 DEF v
    <2> QED
        BY <1>2, <2>1, <2>2, <2>3, <2>4, WalksOn
<1> QED
    BY <1>4, <1>5, <1>6, <1>7 DEF Forward

\* The end of a turn, of a walk that has had its step backward.
LEMMA TurnStep ==
    ASSUME FetchInv, FetchAt("backward"), NEW w \in Walks, Turn(w),
           w.ret = fetch.walk.ret, w.base = fetch.walk.base, w.i = fetch.walk.i,
           w.fwd - w.base + w.missedFwd = w.i + 1,
           w.base - w.bwd + w.missedBwd = w.i + 1,
           0 <= w.bwd, w.bwd <= w.base, w.base <= w.fwd, w.fwd <= LastSeqno,
           \A b \in w.bwd..w.fwd : Since[b] = w.eid
    PROVE  FetchInv'
<1> DEFINE v == [w EXCEPT !.i = @ + 1]
<1> USE RoundsApart
<1>1. /\ v \in Walks /\ v.eid = w.eid /\ v.ret = w.ret /\ v.base = w.base
      /\ v.fwd = w.fwd /\ v.bwd = w.bwd /\ v.i = w.i + 1
      /\ v.missedFwd = w.missedFwd /\ v.missedBwd = w.missedBwd
    BY DEF Walks
<1>2. /\ w.base \in Int /\ w.fwd \in Int /\ w.bwd \in Int /\ w.i \in Nat
      /\ w.missedFwd \in Nat /\ w.missedBwd \in Nat
      /\ Walking /\ w.i < MaxBoundarySearch
    BY DEF Walks, FetchInv, EndedInv, FetchAt, Walking
<1>3. CASE w.i + 1 = MaxBoundarySearch
    <2>1. Return(v, Nil)
        BY <1>3 DEF Turn
    <2> HIDE DEF v
    <2>2. ASSUME NEW b \in 0..LastSeqno - 1, Since[b] # Since[b + 1]
          PROVE  IF b >= v.base THEN b + 1 - v.base > MaxBoundarySearch - v.missedFwd
                                ELSE v.base - b > MaxBoundarySearch - v.missedBwd
        <3>1. ~(b \in w.bwd..w.fwd /\ b + 1 \in w.bwd..w.fwd)
            BY <2>2
        <3>2. b < w.bwd \/ b >= w.fwd
            BY <1>2, <3>1
        <3> QED
            BY <1>1, <1>2, <1>3, <3>2
    <2> QED
        BY <1>1, <1>2, <2>1, <2>2, ReturnsNothing
<1>4. CASE w.i + 1 # MaxBoundarySearch
    <2>1. SetFetch([pc |-> "forward", walk |-> v])
        BY <1>4 DEF Turn
    <2> HIDE DEF v
    <2>2. v.i < MaxBoundarySearch
        BY <1>1, <1>2, <1>4
    <2> QED
        BY <1>1, <1>2, <2>1, <2>2, WalksOn
<1> QED
    BY <1>3, <1>4

LEMMA BackwardStep == FetchInv /\ Backward => FetchInv'
<1> SUFFICES ASSUME FetchInv, Backward PROVE FetchInv'
    OBVIOUS
<1> DEFINE w == fetch.walk
<1> DEFINE b == w.bwd - 1
<1> USE RoundsApart
<1>1. FetchAt("backward")
    BY DEF Backward
<1>2. /\ Walking /\ w \in Walks /\ w.i < MaxBoundarySearch
      /\ w.base \in Int /\ w.fwd \in Int /\ w.bwd \in Int /\ w.i \in Nat
      /\ w.missedFwd \in Nat /\ w.missedBwd \in Nat
      /\ w.fwd - w.base + w.missedFwd = w.i + 1 /\ w.base - w.bwd + w.missedBwd = w.i
      /\ 0 <= w.bwd /\ w.bwd <= w.base /\ w.base <= w.fwd /\ w.fwd <= LastSeqno
      /\ Since[w.bwd] = w.eid
    BY <1>1, WalkStands
<1>3. \A c \in w.bwd..w.fwd : Since[c] = w.eid
    BY <1>1, WalkStands
<1>4. CASE Turn([w EXCEPT !.missedBwd = @ + 1])
    <2> DEFINE v == [w EXCEPT !.missedBwd = @ + 1]
    <2>1. /\ v \in Walks /\ v.eid = w.eid /\ v.ret = w.ret /\ v.base = w.base
          /\ v.fwd = w.fwd /\ v.bwd = w.bwd /\ v.i = w.i
          /\ v.missedFwd = w.missedFwd /\ v.missedBwd = w.missedBwd + 1
        BY <1>2 DEF Walks
    <2>2. Turn(v)
        BY <1>4
    <2> HIDE DEF v
    <2>3. /\ v.fwd - v.base + v.missedFwd = v.i + 1
          /\ v.base - v.bwd + v.missedBwd = v.i + 1
        BY <1>2, <2>1
    <2> QED
        BY <1>1, <1>2, <1>3, <2>1, <2>2, <2>3, TurnStep
<1>5. CASE Return(w, Nil)
    BY <1>2, <1>5, ReturnsEarly
<1>6. CASE b >= 0 /\ Since[b] # w.eid /\ Return(w, b)
    <2>1. /\ b \in 0..LastSeqno - 1 /\ b + 1 = w.bwd
          /\ b >= w.base - MaxBoundarySearch /\ b < w.base + MaxBoundarySearch
        BY <1>2, <1>6
    <2> QED
        BY <1>1, <1>2, <1>6, <2>1, ReturnsChange
<1>7. CASE b >= 0 /\ Since[b] = w.eid /\ Turn([w EXCEPT !.bwd = b])
    <2> DEFINE v == [w EXCEPT !.bwd = b]
    <2>1. /\ v \in Walks /\ v.eid = w.eid /\ v.ret = w.ret /\ v.base = w.base
          /\ v.fwd = w.fwd /\ v.bwd = w.bwd - 1 /\ v.i = w.i
          /\ v.missedFwd = w.missedFwd /\ v.missedBwd = w.missedBwd
        BY <1>2 DEF Walks
    <2>2. Turn(v)
        BY <1>7
    <2> HIDE DEF v
    <2>3. /\ v.fwd - v.base + v.missedFwd = v.i + 1
          /\ v.base - v.bwd + v.missedBwd = v.i + 1
          /\ 0 <= v.bwd /\ v.bwd <= v.base
        BY <1>2, <1>7, <2>1
    <2>4. \A c \in v.bwd..v.fwd : Since[c] = v.eid
        BY <1>2, <1>3, <1>7, <2>1
    <2> QED
        BY <1>1, <1>2, <2>1, <2>2, <2>3, <2>4, TurnStep
<1> QED
    BY <1>4, <1>5, <1>6, <1>7 DEF Backward

\* Before the first walk.
LEMMA AskRoundsStep ==
    ASSUME FetchInv, NEW kind \in {"rewards", "rounds"}, NEW query, NEW value,
           AskRounds(kind, query, value)
    PROVE  FetchInv'
<1>1. fetch.pc = "idle" /\ FetchShape /\ fetch.reply = NoReply
    BY DEF AskRounds, FetchAt, FetchInv
<1>2. /\ DOMAIN fetch' = FetchFields /\ fetch'.pc = "anchor" /\ fetch'.kind = kind
      /\ fetch'.walk = fetch.walk /\ fetch'.reply = fetch.reply
    BY <1>1, SetFetchFields DEF AskRounds, FetchShape, FetchFields
<1>3. FetchShape'
    BY <1>1, <1>2 DEF FetchShape
<1>4. EndedInv'
    BY <1>1, <1>2 DEF FetchInv, EndedInv, FetchAt
<1> QED
    BY <1>1, <1>2, <1>3, <1>4
    DEF FetchInv, StepsInv, RewardsReply, RoundsReply, Walking

\* Giving up where no walk is at its last step.
LEMMA FetchFailsStep ==
    ASSUME FetchInv, FetchFails, ~FetchAt("error")
    PROVE  FetchInv'
<1> USE RoundsApart
<1>1. /\ FetchShape /\ fetch.walk \in Walks /\ fetch.walk.i \in Nat
      /\ MaxBoundarySearch \in Nat /\ fetch.walk.i < MaxBoundarySearch
    BY DEF FetchInv, FetchShape, EndedInv, Walks
<1>2. /\ DOMAIN fetch' = FetchFields /\ fetch'.pc = "error" /\ fetch'.walk = fetch.walk
      /\ fetch'.reply = fetch.reply /\ fetch'.kind = fetch.kind
    BY <1>1, SetFetchFields DEF FetchFails, FetchShape, FetchFields
<1>3. FetchShape'
    BY <1>1, <1>2 DEF FetchShape
<1>4. EndedInv'
    BY <1>1, <1>2 DEF EndedInv, FetchAt
<1> QED
    BY <1>1, <1>2, <1>3, <1>4, ErrorKeeps

LEMMA GetAnchorStep == FetchInv /\ GetAnchor => FetchInv'
<1> SUFFICES ASSUME FetchInv, GetAnchor PROVE FetchInv'
    OBVIOUS
<1> USE RoundsApart
<1>1. /\ FetchAt("anchor") /\ ~FetchAt("error")
      /\ fetch.pc = "anchor" /\ FetchShape /\ fetch.reply = NoReply
    BY DEF GetAnchor, FetchAt, FetchInv
<1>2. ASSUME NEW b \in Anchors, SetFetch([pc |-> "round", anchor |-> b])
      PROVE  FetchInv'
    <2>1. b \in Seqno
        BY <1>2 DEF Anchors, NearestBlocks, Seqno
    <2>2. /\ DOMAIN fetch' = FetchFields /\ fetch'.pc = "round" /\ fetch'.anchor = b
          /\ fetch'.kind = fetch.kind /\ fetch'.walk = fetch.walk
          /\ fetch'.reply = fetch.reply
        BY <1>1, <1>2, SetFetchFields DEF FetchShape, FetchFields
    <2>3. FetchShape'
        BY <1>1, <2>1, <2>2 DEF FetchShape
    <2>4. EndedInv'
        BY <1>1, <2>2 DEF FetchInv, EndedInv, FetchAt
    <2> QED
        BY <1>1, <2>2, <2>3, <2>4
        DEF FetchInv, StepsInv, RewardsReply, RoundsReply, Walking
<1> QED
    BY <1>1, <1>2, FetchFailsStep DEF GetAnchor

LEMMA ReadRoundStep == FetchInv /\ ReadRound => FetchInv'
<1> SUFFICES ASSUME FetchInv, ReadRound PROVE FetchInv'
    OBVIOUS
<1>1. /\ FetchShape /\ ~FetchAt("error") /\ fetch.anchor \in Seqno
      /\ fetch.kind = "rewards"
    BY DEF ReadRound, FetchInv, FetchShape, FetchAt
<1>2. ASSUME WalkFrom(Since[fetch.anchor], "start", NoReply)
      PROVE  FetchInv'
    <2>1. Around("start") = Since[fetch.anchor] /\ DOMAIN NoReply = ReplyFields
        BY DEF Around, NoReply, ReplyFields
    <2> QED
        BY <1>1, <1>2, <2>1, WalkBegins
<1> QED
    BY <1>1, <1>2, FetchFailsStep DEF ReadRound

LEMMA ReadAnchorRoundStep == FetchInv /\ ReadAnchorRound => FetchInv'
<1> SUFFICES ASSUME FetchInv, ReadAnchorRound PROVE FetchInv'
    OBVIOUS
<1> DEFINE e == Since[fetch.anchor]
<1>1. /\ FetchShape /\ ~FetchAt("error") /\ fetch.anchor \in Seqno
      /\ fetch.kind = "rounds" /\ fetch.pc = "round" /\ fetch.reply = NoReply
      /\ NoReply.election = Nil /\ NoReply.end = 0
    BY DEF ReadAnchorRound, FetchInv, FetchShape, FetchAt, NoReply
<1>2. CASE SetFetch([pc |-> "done"])
    <2>1. /\ DOMAIN fetch' = FetchFields /\ fetch'.pc = "done"
          /\ fetch'.kind = fetch.kind /\ fetch'.walk = fetch.walk
          /\ fetch'.reply = fetch.reply /\ fetch'.anchor = fetch.anchor
        BY <1>1, <1>2, SetFetchFields DEF FetchShape, FetchFields
    <2>2. FetchShape'
        BY <1>1, <2>1 DEF FetchShape
    <2>3. EndedInv'
        BY <1>1, <2>1 DEF FetchInv, EndedInv, FetchAt
    <2> QED
        BY <1>1, <2>1, <2>2, <2>3
        DEF FetchInv, StepsInv, RewardsReply, RoundsReply, Walking, FetchAt
<1>3. ASSUME NEW b,
             WalkFrom(Until[e], "roundEnd",
                 Reply([election |-> e, start |-> b, finished |-> TRUE]))
      PROVE  FetchInv'
    <2> DEFINE reply == Reply([election |-> e, start |-> b, finished |-> TRUE])
    <2>1. DOMAIN reply = ReplyFields /\ reply.election = e /\ reply.end = 0
        <3>1. DOMAIN [election |-> e, start |-> b, finished |-> TRUE]
              = {"election", "start", "finished"}
            OBVIOUS
        <3> QED
            BY <1>1, <3>1, ReplyWith DEF ReplyFields
    <2> HIDE DEF reply
    <2>2. Around("roundEnd") = Until[e]
        BY DEF Around
    <2>3. WalkFrom(Until[e], "roundEnd", reply)
        BY <1>3 DEF reply
    <2> QED
        BY <1>1, <2>1, <2>2, <2>3, WalkBegins
<1>4. ASSUME NEW b, WalkFrom(e, "prev", Reply([election |-> e, start |-> b]))
      PROVE  FetchInv'
    <2> DEFINE reply == Reply([election |-> e, start |-> b])
    <2>1. DOMAIN reply = ReplyFields /\ reply.election = e /\ reply.end = 0
        <3>1. DOMAIN [election |-> e, start |-> b] = {"election", "start"}
            OBVIOUS
        <3> QED
            BY <1>1, <3>1, ReplyWith DEF ReplyFields
    <2> HIDE DEF reply
    <2>2. Around("prev") = e
        BY DEF Around
    <2>3. WalkFrom(e, "prev", reply)
        BY <1>4 DEF reply
    <2> QED
        BY <1>1, <2>1, <2>2, <2>3, WalkBegins
<1> QED
    BY <1>2, <1>3, <1>4 DEF ReadAnchorRound

\* Sharing out changes nothing of what was found.
LEMMA FetchRoundDataStep == FetchInv /\ FetchRoundData => FetchInv'
<1> SUFFICES ASSUME FetchInv, FetchRoundData PROVE FetchInv'
    OBVIOUS
<1>1. /\ FetchShape /\ ~FetchAt("error") /\ fetch.anchor \in Seqno
      /\ fetch.pc = "data" /\ fetch.kind = "rewards"
      /\ HasStart(fetch.reply) /\ HasEnd(fetch.reply)
    BY DEF FetchRoundData, FetchInv, FetchShape, FetchAt, RewardsReply
<1>2. ASSUME NEW rewards, NEW known, ShareOut(rewards, known)
      PROVE  FetchInv'
    <2>1. /\ DOMAIN fetch' = FetchFields /\ fetch'.pc \in {"done", "panic"}
          /\ fetch'.kind = fetch.kind /\ fetch'.walk = fetch.walk
          /\ fetch'.reply = fetch.reply /\ fetch'.anchor = fetch.anchor
        BY <1>1, <1>2, SetFetchFields DEF ShareOut, FetchShape, FetchFields
    <2>2. FetchShape'
        BY <1>1, <2>1 DEF FetchShape
    <2>3. EndedInv'
        BY <1>1, <2>1 DEF FetchInv, EndedInv, FetchAt
    <2>4. RewardsReply'
        BY <1>1, <2>1 DEF RewardsReply, HasStart, HasEnd, FirstBlock, LastBlock
    <2> QED
        BY <1>1, <2>1, <2>2, <2>3, <2>4
        DEF FetchInv, StepsInv, RoundsReply, Walking, FetchAt
<1> QED
    BY <1>1, <1>2, FetchFailsStep DEF FetchRoundData

LEMMA RoundStep == FetchInv /\ [RoundNext]_fetch => FetchInv'
<1> SUFFICES ASSUME FetchInv, [RoundNext]_fetch PROVE FetchInv'
    OBVIOUS
<1>1. CASE Fetch
    BY <1>1, GetAnchorStep, BoundaryBaseStep, ForwardStep, BackwardStep, ReadRoundStep,
       ReadAnchorRoundStep, FetchRoundDataStep DEF Fetch
<1>2. ASSUME NEW kind \in {"rewards", "rounds"}, NEW query, NEW value,
             AskRounds(kind, query, value)
      PROVE  FetchInv'
    BY <1>2, AskRoundsStep
<1>3. CASE UNCHANGED fetch
    BY <1>3 DEF FetchInv, FetchShape, StepsInv, EndedInv, RewardsReply, RoundsReply,
                Walking, FetchAt, HasStart, HasEnd, FirstBlock, LastBlock, Around
<1> QED
    BY <1>1, <1>2, <1>3 DEF RoundNext

\* Whichever lookups fail on the way, for every chain whose rounds are longer than
\* two walks and every limit of a walk: the blocks and the neighbours of a round that
\* is told of are its own, and what a walk did not find was not in its reach.
THEOREM RoundsAreExact == RoundSpec => []RoundIsExact
<1>1. FetchInv => RoundIsExact
    <2> SUFFICES ASSUME FetchInv PROVE RoundIsExact
        OBVIOUS
    <2>1. fetch.kind = "rewards" /\ fetch.pc \in {"data", "done", "panic"} =>
              HasStart(fetch.reply) /\ HasEnd(fetch.reply)
        BY DEF FetchInv, RewardsReply
    <2>2. fetch.walk.i = MaxBoundarySearch => fetch.walk.i >= MaxBoundarySearch
        BY RoundsApart
    <2> QED
        BY <2>1, <2>2 DEF RoundIsExact, FetchInv, EndedInv, RoundsReply, FetchAt,
                          HasStart, HasEnd
<1> QED
    BY <1>1, FetchInitially, RoundStep, PTL DEF RoundSpec

-----------------------------------------------------------------------------
(* Sums over finite sets. *)

\* A set of numbers that has 0 and goes on and on has all of them.
LEMMA AllNumbers ==
    ASSUME NEW S, 0 \in S, \A n \in Nat : n \in S => n + 1 \in S
    PROVE  Nat \subseteq S
<1> DEFINE R == OpToRel(<, Nat)
           T == Nat \ S
<1>1. SUFFICES ASSUME T # {} PROVE FALSE
    OBVIOUS
<1>2. \A i, j \in Nat : i < j => <<i, j>> \in R
    BY DEF OpToRel
<1>3. \E n \in T : \A k \in T : <<k, n>> \notin R
    <2>1. IsWellFoundedOn(R, Nat) /\ T \subseteq Nat
        BY NatLessThanWellFounded
    <2> HIDE DEF R, T
    <2> QED
        BY <1>1, <2>1, WFMin
<1>4. PICK n \in T : \A k \in T : ~(k < n)
    BY <1>2, <1>3
<1>5. n # 0 /\ n - 1 \in Nat /\ n - 1 < n
    BY <1>4
<1>6. n - 1 \in S
    BY <1>4, <1>5
<1>7. n - 1 + 1 = n
    BY <1>5
<1> QED
    BY <1>4, <1>5, <1>6, <1>7

\* The element of s that a sum takes first.
Pick(s) == CHOOSE x \in s : TRUE

\* g sums f up over every part of the domain of f.
Partial(f, g) ==
    \A s \in SUBSET DOMAIN f :
        g[s] = IF s = {} THEN 0 ELSE f[Pick(s)] + g[s \ {Pick(s)}]

\* What is left of s without the element picked has one element less.
LEMMA PickOne ==
    ASSUME NEW s, IsFiniteSet(s), s # {}
    PROVE  /\ Pick(s) \in s
           /\ IsFiniteSet(s \ {Pick(s)})
           /\ Cardinality(s) \in Nat \ {0}
           /\ Cardinality(s \ {Pick(s)}) = Cardinality(s) - 1
<1>1. Pick(s) \in s
    BY DEF Pick
<1>2. Cardinality(s) \in Nat /\ Cardinality(s) # 0
    BY FS_CardinalityType, FS_EmptySet
<1> QED
    BY <1>1, <1>2, FS_RemoveElement

\* A sum over a finite set is that function of its parts, which exists: it does for
\* the parts of any size.
LEMMA SumIsPartial ==
    ASSUME NEW f, IsFiniteSet(DOMAIN f)
    PROVE  \E g : Partial(f, g) /\ Sum(f) = g[DOMAIN f]
<1> DEFINE D == DOMAIN f
           Upto(n) == {s \in SUBSET D : Cardinality(s) <= n}
           More(g, s) == IF s = {} THEN 0 ELSE f[Pick(s)] + g[s \ {Pick(s)}]
           Def(g, n) == g = [s \in Upto(n) |-> More(g, s)]
           N == {n \in Nat : \E g : Def(g, n)}
<1>f. \A s \in SUBSET D : IsFiniteSet(s) /\ Cardinality(s) \in Nat
    BY FS_Subset, FS_CardinalityType
<1>1. 0 \in N
    <2> DEFINE g == [s \in Upto(0) |-> 0]
    <2>1. \A s \in Upto(0) : s = {}
        <3>1. \A s \in SUBSET D : s # {} => Cardinality(s) # 0
            BY <1>f, FS_EmptySet
        <3> QED
            BY <1>f, <3>1
    <2>2. \A s \in Upto(0) : More(g, s) = 0
        BY <2>1
    <2>3. Def(g, 0)
        <3> HIDE DEF Upto, More
        <3> QED
            BY <2>2
    <2> HIDE DEF Def
    <2> QED
        BY <2>3
<1>2. ASSUME NEW n \in Nat, n \in N PROVE n + 1 \in N
    <2>1. PICK g : Def(g, n)
        BY <1>2
    <2> DEFINE h == [s \in Upto(n + 1) |-> More(g, s)]
    <2>2. \A s \in Upto(n) : s \in Upto(n + 1) /\ h[s] = g[s]
        <3>1. \A s \in Upto(n) : s \in Upto(n + 1)
            BY <1>f
        <3>2. \A s \in Upto(n) : g[s] = More(g, s)
            BY <2>1
        <3> HIDE DEF Upto, More
        <3> QED
            BY <3>1, <3>2
    <2>3. \A s \in Upto(n + 1) : More(h, s) = More(g, s)
        <3>1. ASSUME NEW s \in Upto(n + 1), s # {}
              PROVE  s \ {Pick(s)} \in Upto(n)
            <4>1. IsFiniteSet(s) /\ s \in SUBSET D /\ Cardinality(s) <= n + 1
                BY <1>f
            <4> QED
                BY <3>1, <4>1, PickOne
        <3>2. \A s \in Upto(n + 1) : s # {} => h[s \ {Pick(s)}] = g[s \ {Pick(s)}]
            BY <2>2, <3>1
        <3> HIDE DEF h, Upto
        <3> QED
            BY <3>2
    <2>4. Def(h, n + 1)
        <3>1. h = [s \in Upto(n + 1) |-> More(g, s)]
            OBVIOUS
        <3> HIDE DEF h, Upto, More
        <3> QED
            BY <2>3, <3>1
    <2> HIDE DEF Def, h
    <2> QED
        BY <2>4
<1> DEFINE n == Cardinality(D)
<1>3. n \in N
    <2>1. n \in Nat
        BY <1>f
    <2> HIDE DEF N, n
    <2> QED
        BY <1>1, <1>2, <2>1, AllNumbers
<1>4. Upto(n) = SUBSET D
    BY <1>f, FS_Subset
<1> DEFINE g == CHOOSE g : g = [s \in SUBSET D |-> More(g, s)]
<1>5. g = [s \in SUBSET D |-> More(g, s)]
    <2>1. \E h : h = [s \in SUBSET D |-> More(h, s)]
        BY <1>3, <1>4
    <2> HIDE DEF More
    <2> QED
        BY <2>1
<1>6. Sum(f) = g[D]
    BY DEF Sum, MapThenSumSet, MapThenFoldSet, Pick
<1>7. Partial(f, g)
    <2> HIDE DEF g
    <2> QED
        BY <1>5 DEF Partial
<1> HIDE DEF g
<1> QED
    BY <1>6, <1>7

\* What holds of the empty set and of a set when it does so without the element
\* picked holds of all parts of a finite set.
LEMMA PickAll ==
    ASSUME NEW D, IsFiniteSet(D), NEW Q, {} \in Q,
           \A s \in SUBSET D : s # {} /\ s \ {Pick(s)} \in Q => s \in Q
    PROVE  SUBSET D \subseteq Q
<1> DEFINE N == {n \in Nat : \A s \in SUBSET D : Cardinality(s) = n => s \in Q}
<1>f. \A s \in SUBSET D : IsFiniteSet(s) /\ Cardinality(s) \in Nat
    BY FS_Subset, FS_CardinalityType
<1>1. 0 \in N
    BY <1>f, FS_EmptySet
<1>2. ASSUME NEW n \in Nat, n \in N PROVE n + 1 \in N
    <2>1. ASSUME NEW s \in SUBSET D, Cardinality(s) = n + 1 PROVE s \in Q
        <3>1. IsFiniteSet(s) /\ s # {}
            BY <1>f, <2>1, FS_EmptySet
        <3>2. Cardinality(s \ {Pick(s)}) = Cardinality(s) - 1
            BY <3>1, PickOne
        <3>3. s \ {Pick(s)} \in SUBSET D /\ Cardinality(s \ {Pick(s)}) = n
            BY <2>1, <3>2
        <3> QED
            BY <1>2, <3>1, <3>3
    <2> QED
        BY <2>1
<1>3. Nat \subseteq N
    <2> HIDE DEF N
    <2> QED
        BY <1>1, <1>2, AllNumbers
<1> QED
    BY <1>f, <1>3

\* What is to be shown of a part s once it holds without x, picked from it.
LEMMA CompareStep ==
    ASSUME NEW a \in Int, NEW b \in Int, NEW c \in Int, NEW n \in Int,
           NEW x \in Int, NEW y \in Int, NEW v \in Int, NEW w \in Int,
           a * x <= b * y + c,
           a * v <= b * w + c * (n - 1)
    PROVE  a * (x + v) <= b * (y + w) + c * n
<1>1. a * (x + v) = a * x + a * v /\ b * (y + w) = b * y + b * w
    OBVIOUS
<1>2. c * (n - 1) = c * n - c
    OBVIOUS
<1>3. a * x \in Int /\ b * y \in Int /\ a * v \in Int /\ b * w \in Int /\ c * n \in Int
    OBVIOUS
<1> QED
    BY <1>1, <1>2, <1>3

\* Sums of numbers are numbers, and of what is not below 0 they are not.
LEMMA SumType ==
    ASSUME NEW D, IsFiniteSet(D), NEW f \in [D -> Int]
    PROVE  /\ Sum(f) \in Int
           /\ f \in [D -> Nat] => Sum(f) \in Nat /\ \A x \in D : f[x] <= Sum(f)
<1>d. DOMAIN f = D
    OBVIOUS
<1>1. PICK g : Partial(f, g) /\ Sum(f) = g[D]
    BY <1>d, SumIsPartial
<1>2. \A s \in SUBSET D : s # {} => /\ Pick(s) \in s
                                    /\ g[s] = f[Pick(s)] + g[s \ {Pick(s)}]
    BY <1>d, <1>1 DEF Partial, Pick
<1>3. g[{}] = 0
    BY <1>d, <1>1 DEF Partial
<1>4. Sum(f) \in Int
    <2> DEFINE Q == {s \in SUBSET D : g[s] \in Int}
    <2>1. {} \in Q
        BY <1>3
    <2>2. \A s \in SUBSET D : s # {} /\ s \ {Pick(s)} \in Q => s \in Q
        BY <1>2
    <2>3. SUBSET D \subseteq Q
        <3> HIDE DEF Q
        <3> QED
            BY <2>1, <2>2, PickAll
    <2> QED
        BY <1>1, <2>3
<1>5. ASSUME f \in [D -> Nat] PROVE Sum(f) \in Nat /\ \A x \in D : f[x] <= Sum(f)
    <2> DEFINE Q == {s \in SUBSET D : g[s] \in Nat /\ \A x \in s : f[x] <= g[s]}
    <2>1. {} \in Q
        BY <1>3
    <2>2. ASSUME NEW s \in SUBSET D, s # {}, s \ {Pick(s)} \in Q PROVE s \in Q
        <3> DEFINE p == Pick(s)
                   r == g[s \ {p}]
        <3>1. p \in s /\ f[p] \in Nat /\ r \in Nat /\ g[s] = f[p] + r
            BY <1>2, <1>5, <2>2
        <3>2. \A x \in s \ {p} : f[x] \in Nat /\ f[x] <= r
            BY <1>5, <2>2
        <3> HIDE DEF p, r
        <3>3. \A x \in s : f[x] <= g[s]
            BY <3>1, <3>2
        <3> QED
            BY <3>1, <3>3
    <2>3. SUBSET D \subseteq Q
        <3> HIDE DEF Q
        <3> QED
            BY <2>1, <2>2, PickAll
    <2> QED
        BY <1>1, <2>3
<1> QED
    BY <1>4, <1>5

TermsCompare(D, f, g, a, b, c) == \A x \in D : a * f[x] <= b * g[x] + c
SumsCompare(D, f, g, a, b, c) == a * Sum(f) <= b * Sum(g) + c * Cardinality(D)

\* What holds of the terms holds of the sums.
LEMMA Compare ==
    ASSUME NEW D, IsFiniteSet(D), NEW f \in [D -> Int], NEW g \in [D -> Int],
           NEW a \in Int, NEW b \in Int, NEW c \in Int,
           TermsCompare(D, f, g, a, b, c)
    PROVE  SumsCompare(D, f, g, a, b, c)
<1> USE DEF TermsCompare, SumsCompare
<1>d. DOMAIN f = D /\ DOMAIN g = D
    OBVIOUS
<1>1. PICK F : Partial(f, F) /\ Sum(f) = F[D]
    BY <1>d, SumIsPartial
<1>2. PICK G : Partial(g, G) /\ Sum(g) = G[D]
    BY <1>d, SumIsPartial
<1>3. \A s \in SUBSET D : s # {} => /\ F[s] = f[Pick(s)] + F[s \ {Pick(s)}]
                                    /\ G[s] = g[Pick(s)] + G[s \ {Pick(s)}]
    BY <1>d, <1>1, <1>2 DEF Partial
<1>4. F[{}] = 0 /\ G[{}] = 0
    BY <1>d, <1>1, <1>2 DEF Partial
<1> DEFINE Q == {s \in SUBSET D : /\ F[s] \in Int /\ G[s] \in Int
                                  /\ a * F[s] <= b * G[s] + c * Cardinality(s)}
<1>5. {} \in Q
    BY <1>4, FS_EmptySet
<1>6. ASSUME NEW s \in SUBSET D, s # {}, s \ {Pick(s)} \in Q PROVE s \in Q
    <2> DEFINE p == Pick(s)
               v == F[s \ {p}]
               w == G[s \ {p}]
               n == Cardinality(s)
    <2>1. p \in s /\ n \in Nat /\ Cardinality(s \ {p}) = n - 1
        BY <1>6, PickOne, FS_Subset
    <2>2. v \in Int /\ w \in Int /\ a * v <= b * w + c * (n - 1)
        BY <1>6, <2>1
    <2>3. f[p] \in Int /\ g[p] \in Int /\ a * f[p] <= b * g[p] + c
        BY <2>1
    <2>4. F[s] = f[p] + v /\ G[s] = g[p] + w
        BY <1>3, <1>6
    <2> HIDE DEF p, v, w, n
    <2>5. a * F[s] <= b * G[s] + c * n
        BY <2>1, <2>2, <2>3, <2>4, CompareStep
    <2>6. F[s] \in Int /\ G[s] \in Int
        BY <2>2, <2>3, <2>4
    <2> QED
        BY <2>5, <2>6 DEF n
<1>7. SUBSET D \subseteq Q
    <2> HIDE DEF Q
    <2> QED
        BY <1>5, <1>6, PickAll
<1> QED
    BY <1>1, <1>2, <1>7

\* A finite set of numbers has a greatest one.
LEMMA FiniteMax ==
    ASSUME NEW D, IsFiniteSet(D), D \subseteq Nat, D # {}
    PROVE  Max(D) \in D
<1> DEFINE Q == {s \in SUBSET D : s = {} \/ \E m \in s : \A k \in s : m >= k}
<1>1. {} \in Q
    OBVIOUS
<1>2. ASSUME NEW s \in SUBSET D, s # {}, s \ {Pick(s)} \in Q PROVE s \in Q
    <2> DEFINE p == Pick(s)
    <2>1. p \in s /\ p \in Nat
        BY <1>2 DEF Pick
    <2> HIDE DEF p
    <2>2. CASE s \ {p} = {}
        <3>1. \A k \in s : p >= k
            BY <2>1, <2>2
        <3> QED
            BY <2>1, <3>1
    <2>3. ASSUME NEW m \in s \ {p}, \A k \in s \ {p} : m >= k PROVE s \in Q
        <3>1. \A k \in s : IF m >= p THEN m >= k ELSE p >= k
            BY <2>1, <2>3
        <3> QED
            BY <2>1, <3>1
    <2> QED
        BY <1>2, <2>2, <2>3 DEF p
<1>3. SUBSET D \subseteq Q
    <2> HIDE DEF Q
    <2> QED
        BY <1>1, <1>2, PickAll
<1>4. \E m \in D : \A k \in D : m >= k
    BY <1>3
<1> QED
    BY <1>4 DEF Max

-----------------------------------------------------------------------------
(* The bonuses of a round and the shares of its validators. *)

\* A quotient rounded down.
LEMMA DivBounds ==
    ASSUME NEW a \in Nat, NEW b \in Nat, NEW c \in Nat \ {0}
    PROVE  /\ MulDiv(a, b, c) \in Nat
           /\ c * MulDiv(a, b, c) <= a * b
           /\ a * b <= c * MulDiv(a, b, c) + (c - 1)
<1> DEFINE p == a * b
<1>1. p \in Nat
    OBVIOUS
<1>2. MulDiv(a, b, c) = p \div c
    BY DEF MulDiv
<1> HIDE DEF p
<1>3. p \div c \in Nat /\ c * (p \div c) <= p /\ p <= c * (p \div c) + (c - 1)
    BY <1>1
<1> QED
    BY <1>2, <1>3 DEF p

\* What is shared out of an amount in the ratio of parts is the amount but for less
\* than one unit for each of them.
LEMMA SharesFit ==
    ASSUME NEW D, IsFiniteSet(D), NEW parts \in [D -> Nat], NEW amount \in Nat,
           NEW shares, shares = [x \in D |-> MulDiv(amount, parts[x], Sum(parts))],
           Sum(parts) # 0
    PROVE  /\ shares \in [D -> Nat]
           /\ Sum(shares) \in Nat /\ Sum(shares) <= amount
           /\ amount < Sum(shares) + Cardinality(D)
<1> DEFINE total == Sum(parts)
           n == Cardinality(D)
           told == Sum(shares)
<1>1. total \in Nat \ {0} /\ parts \in [D -> Int]
    BY SumType
<1>2. \A x \in D : /\ shares[x] \in Nat
                   /\ total * shares[x] <= amount * parts[x]
                   /\ amount * parts[x] <= total * shares[x] + (total - 1)
    BY <1>1, DivBounds
<1>3. shares \in [D -> Nat] /\ shares \in [D -> Int]
    BY <1>2
<1>4. told \in Nat /\ n \in Nat
    BY <1>3, SumType, FS_CardinalityType
<1>5. total * told <= amount * total + 0 * n
    <2>1. TermsCompare(D, shares, parts, total, amount, 0)
        BY <1>1, <1>2 DEF TermsCompare
    <2>2. SumsCompare(D, shares, parts, total, amount, 0)
        BY <1>1, <1>3, <2>1, Compare
    <2> QED
        BY <2>2 DEF SumsCompare
<1>6. amount * total <= total * told + (total - 1) * n
    <2>1. total - 1 \in Int
        BY <1>1
    <2>2. TermsCompare(D, parts, shares, amount, total, total - 1)
        BY <1>1, <1>2 DEF TermsCompare
    <2>3. SumsCompare(D, parts, shares, amount, total, total - 1)
        BY <1>1, <1>3, <2>1, <2>2, Compare
    <2> QED
        BY <2>3 DEF SumsCompare
<1>7. told <= amount
    <2> HIDE DEF total, told, n
    <2>1. total * told <= total * amount
        BY <1>1, <1>4, <1>5
    <2> QED
        BY <1>1, <1>4, <2>1
<1>8. n # 0
    <2>1. CASE D = {}
        <3>1. PICK g : Partial(parts, g) /\ Sum(parts) = g[DOMAIN parts]
            BY SumIsPartial
        <3> QED
            BY <2>1, <3>1 DEF Partial
    <2> QED
        BY <2>1, FS_EmptySet
<1>9. amount < told + n
    <2> HIDE DEF total, told, n
    <2>1. total * told \in Int /\ total * n \in Int /\ amount * total \in Int
        BY <1>1, <1>4
    <2>2. (total - 1) * n = total * n - n /\ total * (told + n) = total * told + total * n
        BY <1>1, <1>4
    <2>3. amount * total < total * (told + n)
        BY <1>4, <1>6, <1>8, <2>1, <2>2
    <2>4. told + n \in Nat
        BY <1>4
    <2> QED
        BY <1>1, <2>3, <2>4
<1> QED
    BY <1>3, <1>4, <1>7, <1>9

\* The stake a validator has in a past election is an amount.
LEMMA StakeIsAmount ==
    ASSUME NEW b \in Seqno, NEW k
    PROVE  PoolStake(b, k) \in Nat
<1> DEFINE of == {e \in Past[b] : k \in DOMAIN Frozen[e]}
<1>1. CASE of = {}
    BY <1>1 DEF PoolStake
<1>2. CASE of # {}
    <2>1. IsFiniteSet(of) /\ of \subseteq Nat
        BY AmountsKnown, FS_Subset
    <2>2. Max(of) \in of
        <3> HIDE DEF of
        <3> QED
            BY <1>2, <2>1, FiniteMax
    <2>3. PoolStake(b, k) = Frozen[Max(of)][k]
        BY <1>2 DEF PoolStake
    <2> QED
        BY <2>2, <2>3, AmountsKnown
<1> QED
    BY <1>1, <1>2

\* A reward and its validator's share of it.
LEMMA OwnFits ==
    ASSUME NEW k \in Key, NEW reward \in Nat
    PROVE  Own(k, reward) \in Nat /\ Own(k, reward) <= reward
<1>1. RewardShare[k] \in Nat /\ 10000 \in Nat \ {0}
    BY AmountsKnown
<1>2. MulDiv(reward, RewardShare[k], 10000) \in Nat
    BY <1>1, DivBounds
<1> QED
    BY <1>2 DEF Own

\* A pool gets the reward of its validator, but for the rounding.
PoolPaid(told, k, reward) ==
    /\ told.own + Sum(told.nominators) <= reward
    /\ Cardinality(DOMAIN Amounts[k]) > 0 =>
          told.own + Sum(told.nominators) > reward - Cardinality(DOMAIN Amounts[k])

LEMMA SplitFits ==
    ASSUME NEW k \in Key, NEW reward \in Nat, ~DividesByZero(k)
    PROVE  PoolPaid(Split(k, reward), k, reward)
<1> DEFINE D == DOMAIN Amounts[k]
           parts == [n \in D |-> Amounts[k][n]]
           own == Own(k, reward)
           of == [n \in D |-> MulDiv(reward - own, Amounts[k][n], Sum(Amounts[k]))]
<1>1. own \in Nat /\ own <= reward /\ reward - own \in Nat
    BY OwnFits
<1>2. IsFiniteSet(D) /\ parts \in [D -> Nat] /\ DOMAIN parts = D
    BY AmountsKnown
<1>3. Split(k, reward).own = own /\ Split(k, reward).nominators = of
    BY DEF Split
<1>4. Sum(Amounts[k]) = Sum(parts)
    BY DEF Sum, MapThenSumSet, MapThenFoldSet
<1>5. CASE D = {}
    <2>1. PICK g : Partial(of, g) /\ Sum(of) = g[DOMAIN of]
        BY <1>2, SumIsPartial
    <2>2. Sum(of) = 0
        BY <1>5, <2>1 DEF Partial
    <2>3. Cardinality(D) = 0
        BY <1>5, FS_EmptySet
    <2> HIDE DEF own, of
    <2> QED
        BY <1>1, <1>3, <2>2, <2>3 DEF PoolPaid
<1>6. CASE D # {}
    <2>1. PICK n \in D : parts[n] # 0
        BY <1>6 DEF DividesByZero
    <2>2. Sum(parts) \in Nat /\ parts[n] <= Sum(parts) /\ parts[n] \in Nat
        <3>1. parts \in [D -> Int]
            BY <1>2
        <3> HIDE DEF D, parts
        <3> QED
            BY <1>2, <3>1, SumType DEF D
    <2>3. Sum(parts) # 0
        BY <2>1, <2>2
    <2>4. of = [x \in D |-> MulDiv(reward - own, parts[x], Sum(parts))]
        BY <1>4
    <2>5. Sum(of) \in Nat /\ Sum(of) <= reward - own
          /\ reward - own < Sum(of) + Cardinality(D)
        <3> HIDE DEF D, parts, own, of
        <3> QED
            BY <1>1, <1>2, <2>3, <2>4, SharesFit
    <2>6. Cardinality(D) \in Nat
        BY <1>2, FS_CardinalityType
    <2> HIDE DEF own, of
    <2> QED
        BY <1>1, <1>3, <2>5, <2>6 DEF PoolPaid
<1> QED
    BY <1>5, <1>6

\* What is shared out at the end of the round e fits its bonuses.
LEMMA BonusesFit ==
    ASSUME NEW e \in Elections, NEW b \in Seqno, Since[b] = e,
           NEW rewards,
           TotalTrueStake(b, DOMAIN Frozen[e]) # 0,
           rewards = [k \in DOMAIN Frozen[e] |->
               MulDiv(Bonuses[e], PoolStake(b, k), TotalTrueStake(b, DOMAIN Frozen[e]))]
    PROVE  /\ rewards \in [DOMAIN Frozen[e] -> Nat]
           /\ Sum(rewards) <= Bonuses[e]
           /\ Sum(rewards) > Bonuses[e] - Cardinality(DOMAIN rewards)
<1> DEFINE D == DOMAIN Frozen[e]
           stakes == [k \in D |-> PoolStake(b, k)]
<1>1. IsFiniteSet(D) /\ stakes \in [D -> Nat]
    BY StakeIsAmount, AmountsKnown
<1>2. TotalTrueStake(b, D) = Sum(stakes)
    BY DEF TotalTrueStake
<1>3. rewards = [k \in D |-> MulDiv(Bonuses[e], stakes[k], Sum(stakes))]
    BY <1>2
<1>4. Bonuses[e] \in Nat
    BY AmountsKnown
<1>5. /\ rewards \in [D -> Nat]
      /\ Sum(rewards) \in Nat /\ Sum(rewards) <= Bonuses[e]
      /\ Bonuses[e] < Sum(rewards) + Cardinality(D)
    <2> HIDE DEF D, stakes
    <2> QED
        BY <1>1, <1>2, <1>3, <1>4, SharesFit DEF D
<1>6. DOMAIN rewards = D /\ Cardinality(D) \in Nat
    BY <1>1, <1>5, FS_CardinalityType
<1> QED
    BY <1>4, <1>5, <1>6

LEMMA SharedOut == FetchInv /\ FetchRoundData => RewardsFitBonuses'
<1> SUFFICES ASSUME FetchInv, FetchRoundData, fetch'.pc = "done"
             PROVE  RewardsFitBonuses'
    BY DEF RewardsFitBonuses, FetchAt
<1> DEFINE b == fetch.reply.end
           e == fetch.reply.election
           D == DOMAIN Frozen[e]
           rewards == [k \in D |->
               MulDiv(Bonuses[e], PoolStake(b, k), TotalTrueStake(b, D))]
<1>1. /\ FetchShape /\ HasEnd(fetch.reply) /\ b \in Seqno /\ Since[b] = e /\ e \in Elections
    <2>1. FetchShape /\ fetch.pc = "data" /\ fetch.kind = "rewards" /\ RewardsReply
        BY DEF FetchRoundData, FetchInv, FetchAt, FetchShape
    <2>2. HasEnd(fetch.reply)
        BY <2>1 DEF RewardsReply
    <2> QED
        BY <2>1, <2>2 DEF HasEnd, LastBlock, Elections
<1>2. ~FetchFails
    <2>1. DOMAIN [pc |-> "error"] = {"pc"} /\ [pc |-> "error"].pc = "error"
        OBVIOUS
    <2>2. DOMAIN fetch = FetchFields /\ "pc" \in FetchFields
        BY <1>1 DEF FetchShape, FetchFields
    <2> QED
        BY <2>1, <2>2, SetFetchFields DEF FetchFails
<1>3. PICK known \in SUBSET D :
          /\ TotalTrueStake(b, D) # 0
          /\ ShareOut(rewards, known)
    BY <1>1, <1>2 DEF FetchRoundData
<1> DEFINE shares == [k \in known |-> Split(k, rewards[k])]
<1>4. ~\E k \in known : DividesByZero(k)
    <2>1. DOMAIN [pc |-> "panic"] = {"pc"} /\ [pc |-> "panic"].pc = "panic"
        OBVIOUS
    <2>2. DOMAIN fetch = FetchFields /\ "pc" \in FetchFields
        BY <1>1 DEF FetchShape, FetchFields
    <2>3. ~SetFetch([pc |-> "panic"])
        BY <2>1, <2>2, SetFetchFields
    <2> QED
        BY <1>3, <2>3 DEF ShareOut
<1>5. fetch'.rewards = rewards /\ fetch'.shares = shares /\ fetch'.reply = fetch.reply
    <2> DEFINE fields == [pc |-> "done", rewards |-> rewards, shares |-> shares]
    <2>1. SetFetch(fields)
        BY <1>3, <1>4 DEF ShareOut
    <2>2. /\ DOMAIN fields = {"pc", "rewards", "shares"}
          /\ fields.rewards = rewards /\ fields.shares = shares
        OBVIOUS
    <2>3. DOMAIN fetch = FetchFields /\ {"rewards", "shares", "reply"} \subseteq FetchFields
        BY <1>1 DEF FetchShape, FetchFields
    <2> HIDE DEF fields, rewards, shares
    <2> QED
        BY <2>1, <2>2, <2>3, SetFetchFields
<1>6. /\ rewards \in [D -> Nat]
      /\ Sum(rewards) <= Bonuses[e]
      /\ Sum(rewards) > Bonuses[e] - Cardinality(DOMAIN rewards)
    <2> HIDE DEF e, b
    <2> QED
        BY <1>1, <1>3, BonusesFit
<1>7. ASSUME NEW k \in DOMAIN shares PROVE PoolPaid(shares[k], k, rewards[k])
    <2>1. k \in known /\ k \in D /\ k \in Key /\ ~DividesByZero(k)
        BY <1>1, <1>4, AmountsKnown
    <2>2. rewards[k] \in Nat
        BY <1>6, <2>1
    <2>3. shares[k] = Split(k, rewards[k])
        OBVIOUS
    <2> HIDE DEF rewards, shares
    <2> QED
        BY <2>1, <2>2, <2>3, SplitFits
<1> HIDE DEF rewards, shares
<1> QED
    BY <1>5, <1>6, <1>7 DEF RewardsFitBonuses, PoolPaid

\* Any other step comes to the end of a request for rounds only, or fails.
NotShared == ~(fetch'.pc = "done" /\ fetch'.kind = "rewards")

LEMMA SetsPc ==
    ASSUME FetchShape, NEW fields, SetFetch(fields),
           "pc" \in DOMAIN fields, "kind" \notin DOMAIN fields
    PROVE  /\ fetch'.pc = fields.pc /\ fetch'.kind = fetch.kind
           /\ fields.pc # "done" \/ fetch.kind = "rounds" => NotShared
<1>1. DOMAIN fetch = FetchFields /\ {"pc", "kind"} \subseteq FetchFields
    BY DEF FetchShape, FetchFields
<1> QED
    BY <1>1, SetFetchFields DEF NotShared

LEMMA WalkSharesNone ==
    ASSUME FetchShape, NEW t, NEW ret, NEW reply, WalkFrom(t, ret, reply)
    PROVE  NotShared
<1>1. PICK b : SetFetch([pc |-> "base", reply |-> reply,
             walk |-> [NoWalk EXCEPT !.ret = ret, !.base = b, !.fwd = b, !.bwd = b]])
    BY DEF WalkFrom
<1> DEFINE fields == [pc |-> "base", reply |-> reply,
             walk |-> [NoWalk EXCEPT !.ret = ret, !.base = b, !.fwd = b, !.bwd = b]]
<1>2. DOMAIN fields = {"pc", "reply", "walk"} /\ fields.pc = "base"
    OBVIOUS
<1>3. SetFetch(fields)
    BY <1>1
<1> HIDE DEF fields
<1> QED
    BY <1>2, <1>3, SetsPc

LEMMA ReturnSharesNone ==
    ASSUME FetchInv, Walking, NEW w, w.ret = fetch.walk.ret, NEW b, Return(w, b)
    PROVE  NotShared
<1>1. FetchShape
    BY DEF FetchInv
<1>2. w.ret \in IF fetch.kind = "rewards" THEN {"start", "end"} ELSE {"roundEnd", "prev"}
    BY DEF FetchInv, StepsInv
<1>3. w.ret # "prev" \/ fetch.kind = "rounds"
    <2>1. fetch.kind \in {"rewards", "rounds"}
        BY <1>1 DEF FetchShape
    <2> QED
        BY <1>2, <2>1
<1>4. CASE SetFetch([pc |-> "error", walk |-> w])
    <2>1. DOMAIN [pc |-> "error", walk |-> w] = {"pc", "walk"}
        OBVIOUS
    <2> QED
        BY <1>1, <1>4, <2>1, SetsPc
<1>5. ASSUME NEW pc \in {"data", "done"}, NEW reply, pc = "data" \/ w.ret = "prev",
             SetFetch([pc |-> pc, walk |-> w, reply |-> reply])
      PROVE  NotShared
    <2>1. DOMAIN [pc |-> pc, walk |-> w, reply |-> reply] = {"pc", "walk", "reply"}
        OBVIOUS
    <2> QED
        BY <1>1, <1>3, <1>5, <2>1, SetsPc
<1>6. \E fields : \/ \E t, ret, reply : WalkFrom(t, ret, reply)
                  \/ SetFetch([pc |-> "error", walk |-> w])
                  \/ \E reply : SetFetch([pc |-> "data", walk |-> w, reply |-> reply])
                  \/ w.ret = "prev"
                     /\ \E reply : SetFetch([pc |-> "done", walk |-> w, reply |-> reply])
    <2>1. w.ret \in {"start", "end", "roundEnd", "prev"}
        BY <1>2
    <2> QED
        BY <2>1 DEF Return
<1> QED
    BY <1>1, <1>4, <1>5, <1>6, WalkSharesNone

LEMMA FetchSharesNone ==
    ASSUME FetchInv, Fetch, ~FetchRoundData
    PROVE  NotShared
<1>1. FetchShape
    BY DEF FetchInv
<1>2. ASSUME FetchFails PROVE NotShared
    <2>1. DOMAIN [pc |-> "error"] = {"pc"}
        OBVIOUS
    <2> QED
        BY <1>1, <1>2, <2>1, SetsPc DEF FetchFails
<1>3. CASE GetAnchor
    <2>1. ASSUME NEW b, SetFetch([pc |-> "round", anchor |-> b]) PROVE NotShared
        <3>1. DOMAIN [pc |-> "round", anchor |-> b] = {"pc", "anchor"}
            OBVIOUS
        <3> QED
            BY <1>1, <2>1, <3>1, SetsPc
    <2> QED
        BY <1>2, <1>3, <2>1 DEF GetAnchor
<1>4. ASSUME NEW pc \in {"forward", "backward"}, NEW w, SetFetch([pc |-> pc, walk |-> w])
      PROVE  NotShared
    <2>1. DOMAIN [pc |-> pc, walk |-> w] = {"pc", "walk"}
        OBVIOUS
    <2> QED
        BY <1>1, <1>4, <2>1, SetsPc
<1>5. CASE BoundaryBase
    BY <1>4, <1>5, ReturnSharesNone DEF BoundaryBase, Walking, FetchAt
<1>6. CASE Forward
    BY <1>4, <1>6, ReturnSharesNone DEF Forward, Walking, FetchAt, MissForward
<1>7. ASSUME NEW w, "ret" \in DOMAIN w, w.ret = fetch.walk.ret, Walking, Turn(w)
      PROVE  NotShared
    <2>1. [w EXCEPT !.i = @ + 1].ret = fetch.walk.ret
        BY <1>7
    <2> DEFINE v == [w EXCEPT !.i = @ + 1]
    <2>2. Return(v, Nil) \/ SetFetch([pc |-> "forward", walk |-> v])
        BY <1>7 DEF Turn
    <2> HIDE DEF v
    <2> QED
        BY <1>4, <1>7, <2>1, <2>2, ReturnSharesNone DEF v
<1>8. CASE Backward
    <2> DEFINE w == fetch.walk
               missed == [w EXCEPT !.missedBwd = @ + 1]
               looked == [w EXCEPT !.bwd = w.bwd - 1]
    <2>1. /\ "ret" \in DOMAIN missed /\ missed.ret = w.ret
          /\ "ret" \in DOMAIN looked /\ looked.ret = w.ret
        BY <1>1 DEF FetchShape, Walks
    <2>2. Walking
        BY <1>8 DEF Backward, Walking, FetchAt
    <2>3. Turn(missed) \/ Turn(looked) \/ \E b : Return(w, b)
        BY <1>8 DEF Backward
    <2> HIDE DEF missed, looked
    <2> QED
        BY <1>7, <2>1, <2>2, <2>3, ReturnSharesNone
<1>9. CASE ReadRound
    BY <1>1, <1>2, <1>9, WalkSharesNone DEF ReadRound
<1>10. CASE ReadAnchorRound
    <2>1. fetch.kind = "rounds"
        BY <1>10 DEF ReadAnchorRound
    <2>2. ASSUME SetFetch([pc |-> "done"]) PROVE NotShared
        <3>1. DOMAIN [pc |-> "done"] = {"pc"}
            OBVIOUS
        <3> QED
            BY <1>1, <2>1, <2>2, <3>1, SetsPc
    <2> QED
        BY <1>1, <1>10, <2>2, WalkSharesNone DEF ReadAnchorRound
<1> QED
    BY <1>3, <1>5, <1>6, <1>8, <1>9, <1>10 DEF Fetch

\* For all stakes, bonuses, deposits and shares of the validators, whichever lookups
\* fail and whichever pools could be read: the first and last block of a round and its
\* neighbours are its own, its validators get its bonuses and a pool the reward of its
\* validator, each but for the rounding.
THEOREM RewardsRight == RoundSpec => []RewardsAreRight
<1>1. RoundInit => RewardsFitBonuses
    BY DEF RoundInit, RewardsFitBonuses, FetchAt
<1>2. FetchInv /\ RewardsFitBonuses /\ [RoundNext]_fetch => RewardsFitBonuses'
    <2> SUFFICES ASSUME FetchInv, RewardsFitBonuses, [RoundNext]_fetch
                 PROVE  RewardsFitBonuses'
        OBVIOUS
    <2>1. CASE FetchRoundData
        BY <2>1, SharedOut
    <2>2. ASSUME NotShared PROVE RewardsFitBonuses'
        BY <2>2 DEF NotShared, RewardsFitBonuses, FetchAt
    <2>3. CASE Fetch /\ ~FetchRoundData
        BY <2>2, <2>3, FetchSharesNone
    <2>4. ASSUME NEW kind, NEW query, NEW value, AskRounds(kind, query, value)
          PROVE  RewardsFitBonuses'
        <3> DEFINE fields == [pc |-> "anchor", kind |-> kind, query |-> query, value |-> value]
        <3>1. DOMAIN fields = {"pc", "kind", "query", "value"} /\ fields.pc = "anchor"
            OBVIOUS
        <3>2. DOMAIN fetch = FetchFields /\ "pc" \in FetchFields
            BY DEF FetchInv, FetchShape, FetchFields
        <3>3. SetFetch(fields)
            BY <2>4 DEF AskRounds
        <3> HIDE DEF fields
        <3>4. fetch'.pc = "anchor"
            BY <3>1, <3>2, <3>3, SetFetchFields
        <3> QED
            BY <2>2, <3>4 DEF NotShared
    <2>5. CASE UNCHANGED fetch
        BY <2>5 DEF RewardsFitBonuses, FetchAt
    <2> QED
        BY <2>1, <2>3, <2>4, <2>5 DEF RoundNext
<1> QED
    BY <1>1, <1>2, RoundsAreExact, FetchInitially, RoundStep, PTL
    DEF RoundSpec, RewardsAreRight
=============================================================================
