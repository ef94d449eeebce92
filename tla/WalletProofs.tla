---------------------------- MODULE WalletProofs ----------------------------
(***************************************************************************)
(* Proofs about what a wallet is told: the plan of its migration, and the  *)
(* messages of it that are shown as lost.                                  *)
(*                                                                         *)
(* Migration (PlansAreRight).  The first part is about the plan as such:   *)
(* chunks have every message of a batch in one place (ChunkOnce), so the   *)
(* plan of a wallet has each asset once and what is swept last (PlanParts: *)
(* Shape, Whole), and still does with a commission in every sponsored      *)
(* batch, for which each has room (Final).  The second is about a request: *)
(* MigInv says at each stage of it which plan it has and how much of the   *)
(* relay's jetton that plan holds back (PlanInv), that the transactions so *)
(* far are its first batches (TxsInv), and whose TON the emulation has     *)
(* (MoneyInv).  The last reads off an answer what these say of it.         *)
(*                                                                         *)
(* Intentions (OnlyTheLostAreShown).  The loop inserts one failed action   *)
(* a turn; EnrichInv says of the list in between what IntentionsRight says *)
(* of it in the end, less the messages that are left (AddedInv).           *)
(***************************************************************************)
EXTENDS Migration, Intentions, FiniteSetTheorems, TLAPS

(* The plan: chunks of messages. *)

\* Where the j-th message of the i-th chunk of n comes from.
LEMMA OnePlace ==
    ASSUME NEW n \in Nat \ {0}, NEW i \in Nat \ {0}, NEW k \in Nat \ {0},
           NEW j \in 1..n, NEW l \in 1..n,
           (i - 1) * n + j = (k - 1) * n + l
    PROVE  i = k /\ j = l
<1>1. ASSUME NEW x \in Nat, NEW y \in Nat, NEW u \in 1..n, NEW v \in 1..n, x < y
      PROVE  x * n + u # y * n + v
    <2>1. y = x + (y - x) /\ y - x \in Nat /\ y - x >= 1
        BY <1>1
    <2> DEFINE d == y - x
    <2>2. d * n >= n /\ d * n \in Nat
        <3> HIDE DEF d
        <3>1. d \in Nat /\ d >= 1
            BY <2>1 DEF d
        <3>2. d = 1 + (d - 1) /\ d - 1 \in Nat
            BY <3>1
        <3>3. d * n = n + (d - 1) * n /\ (d - 1) * n \in Nat
            BY <3>1, <3>2
        <3> QED
            BY <3>3
    <2>3. y * n = x * n + d * n /\ x * n \in Nat
        BY <2>1
    <2> HIDE DEF d
    <2> QED
        BY <2>2, <2>3
<1>2. i - 1 \in Nat /\ k - 1 \in Nat
    OBVIOUS
<1>3. ~(i - 1 < k - 1) /\ ~(k - 1 < i - 1)
    BY <1>1, <1>2
<1> QED
    BY <1>3

NumOf(len, n) == (len + n - 1) \div n

\* How many chunks there are.
LEMMA ChunkCount ==
    ASSUME NEW len \in Nat, NEW n \in Nat \ {0}
    PROVE  /\ NumOf(len, n) \in Nat
           /\ \A i \in Nat \ {0} : i <= NumOf(len, n) <=> (i - 1) * n < len
<1> DEFINE p == len + n - 1
           c == p \div n
<1>1. p \in Nat /\ c \in Nat /\ n * c <= p /\ p < n * c + n
    OBVIOUS
<1>2. NumOf(len, n) = c
    BY DEF NumOf
<1>3. ASSUME NEW i \in Nat \ {0} PROVE i <= c <=> (i - 1) * n < len
    <2> DEFINE x == (i - 1) * n
    <2> HIDE DEF c
    <2>0. x \in Nat /\ n * i = x + n /\ n * c \in Nat
        BY <1>1
    <2>1. CASE i <= c
        <3>1. c = i + (c - i) /\ c - i \in Nat
            BY <1>1, <2>1
        <3>2. n * c = n * i + n * (c - i) /\ n * (c - i) \in Nat
            BY <1>1, <3>1
        <3> QED
            BY <1>1, <2>0, <2>1, <3>2
    <2>2. CASE i > c
        <3>1. i - 1 = c + (i - 1 - c) /\ i - 1 - c \in Nat
            BY <1>1, <2>2
        <3>2. x = n * c + n * (i - 1 - c) /\ n * (i - 1 - c) \in Nat
            BY <1>1, <3>1
        <3> QED
            BY <1>1, <2>0, <2>2, <3>2
    <2> QED
        BY <1>1, <2>1, <2>2
<1> QED
    BY <1>1, <1>2, <1>3

\* The chunks have up to n of the messages m each, in their order.
Cut(chunks, m, n) ==
    /\ Len(chunks) = NumOf(Len(m), n) /\ Len(chunks) \in Nat
    /\ \A i \in 1..Len(chunks) :
          /\ Len(chunks[i].messages) \in 1..n
          /\ \A j \in 1..Len(chunks[i].messages) :
                /\ (i - 1) * n + j \in 1..Len(m)
                /\ chunks[i].messages[j] = m[(i - 1) * n + j]

LEMMA ChunkParts ==
    ASSUME NEW M, NEW m \in Seq(M), NEW n \in Nat \ {0}, NEW sponsored,
           NEW chunks, chunks = Chunks(Batch(m, sponsored), n)
    PROVE  /\ chunks \in Seq([messages : Seq(M), sponsored : {sponsored}])
           /\ Cut(chunks, m, n)
<1> DEFINE N == NumOf(Len(m), n)
           upto(i) == IF i * n < Len(m) THEN i * n ELSE Len(m)
           part(i) == SubSeq(m, (i - 1) * n + 1, upto(i))
<1>1. Len(m) \in Nat /\ N \in Nat
    BY ChunkCount
<1>2. chunks = [i \in 1..N |-> Batch(part(i), sponsored)]
    BY DEF Chunks, Batch, NumOf
<1>3. ASSUME NEW i \in 1..N
      PROVE  /\ part(i) \in Seq(M)
             /\ Len(part(i)) \in 1..n
             /\ \A j \in 1..Len(part(i)) : /\ (i - 1) * n + j \in 1..Len(m)
                                           /\ part(i)[j] = m[(i - 1) * n + j]
    <2> DEFINE x == (i - 1) * n
    <2>1. (i - 1) * n < Len(m)
        BY <1>1, ChunkCount
    <2>2. x \in Nat /\ i * n = x + n
        BY <1>1
    <2>3. x < Len(m) /\ upto(i) \in Nat /\ upto(i) <= Len(m) /\ x < upto(i) /\ upto(i) <= x + n
        BY <1>1, <2>1, <2>2
    <2> DEFINE u == upto(i)
    <2>4. part(i) = SubSeq(m, x + 1, u)
        OBVIOUS
    <2> HIDE DEF x, u, part, upto
    <2>5. x \in Nat /\ u \in Nat /\ x < u /\ u <= Len(m) /\ u <= x + n
        BY <2>2, <2>3 DEF u
    <2>6. Len(SubSeq(m, x + 1, u)) = u - x
        BY <1>1, <2>5
    <2>7. \A j \in 1..u - x : SubSeq(m, x + 1, u)[j] = m[x + j]
        BY <1>1, <2>5
    <2>8. SubSeq(m, x + 1, u) \in Seq(M)
        <3>1. \A j \in x + 1 .. u : m[j] \in M
            BY <1>1, <2>5
        <3> QED
            BY <1>1, <2>5
    <2>9. /\ Len(part(i)) \in 1..n
          /\ \A j \in 1..Len(part(i)) : /\ x + j \in 1..Len(m)
                                        /\ part(i)[j] = m[x + j]
        BY <1>1, <2>4, <2>5, <2>6, <2>7
    <2> QED
        BY <2>4, <2>8, <2>9 DEF x
<1>4. DOMAIN chunks = 1..N /\ Len(chunks) = N
    BY <1>1, <1>2
<1> HIDE DEF N, part
<1>5. \A i \in 1..N : chunks[i] = [messages |-> part(i), sponsored |-> sponsored]
    BY <1>2 DEF Batch
<1>6. chunks \in Seq([messages : Seq(M), sponsored : {sponsored}])
    <2> DEFINE B == [messages : Seq(M), sponsored : {sponsored}]
    <2>1. ASSUME NEW i \in 1..N PROVE Batch(part(i), sponsored) \in B
        BY <1>3, <2>1 DEF Batch
    <2> HIDE DEF B
    <2>2. chunks \in [1..N -> B]
        BY <1>2, <2>1
    <2>3. chunks \in Seq(B)
        BY <1>1, <2>2
    <2> QED
        BY <2>3 DEF B
<1> QED
    BY <1>1, <1>3, <1>4, <1>5, <1>6 DEF N, Cut

\* The i-th batch has a j-th message.
Has(batches, i, j) == i \in 1..Len(batches) /\ j \in 1..Len(batches[i].messages)

\* It is the q-th of m, which is nowhere else.
CutAt(chunks, m, q, i, j) ==
    /\ Has(chunks, i, j)
    /\ chunks[i].messages[j] = m[q]
    /\ \A k, l : Has(chunks, k, l) =>
          \E r \in 1..Len(m) : /\ chunks[k].messages[l] = m[r]
                               /\ r = q => k = i /\ l = j

\* Every message of a batch is in one place of its chunks.
LEMMA ChunkOnce ==
    ASSUME NEW M, NEW m \in Seq(M), NEW n \in Nat \ {0}, NEW sponsored,
           NEW chunks, chunks = Chunks(Batch(m, sponsored), n),
           NEW q \in 1..Len(m)
    PROVE  \E i, j : CutAt(chunks, m, q, i, j)
<1>0. Cut(chunks, m, n)
    BY ChunkParts
<1>1. /\ Len(chunks) = NumOf(Len(m), n) /\ Len(chunks) \in Nat
      /\ \A i \in 1..Len(chunks) :
            /\ Len(chunks[i].messages) \in 1..n
            /\ \A j \in 1..Len(chunks[i].messages) :
                  /\ (i - 1) * n + j \in 1..Len(m)
                  /\ chunks[i].messages[j] = m[(i - 1) * n + j]
    BY <1>0 DEF Cut
<1>len. Len(m) \in Nat
    OBVIOUS
<1> DEFINE x == (q - 1) \div n
           i == x + 1
           j == q - x * n
<1>2. x \in Nat /\ n * x <= q - 1 /\ q - 1 < n * x + n
    OBVIOUS
<1>3. i \in Nat \ {0} /\ j \in 1..n /\ x = i - 1
    <2> HIDE DEF x
    <2> QED
        BY <1>2
<1>4. (i - 1) * n + j = q
    <2> HIDE DEF x
    <2> QED
        BY <1>2
<1> HIDE DEF x, i, j
<1>5. i \in 1..Len(chunks)
    <2>1. (i - 1) * n < Len(m)
        <3>1. (i - 1) * n \in Nat
            BY <1>3
        <3> QED
            BY <1>3, <1>4, <1>len, <3>1
    <2> QED
        BY <1>1, <1>3, <1>len, <2>1, ChunkCount
<1>6. j <= Len(chunks[i].messages)
    <2> DEFINE l == Len(chunks[i].messages)
    <2>1. l \in 1..n
        BY <1>1, <1>5
    <2>2. SUFFICES ASSUME l < j PROVE FALSE
        BY <1>3, <2>1
    <2> DEFINE lo == (i - 1) * n + 1
               hi == IF i * n < Len(m) THEN i * n ELSE Len(m)
    <2>3. l = Len(SubSeq(m, lo, hi))
        BY <1>1, <1>5, <1>len DEF Chunks, Batch, NumOf
    <2>4. lo \in Nat /\ hi \in Nat /\ hi <= Len(m) /\ i * n = (i - 1) * n + n
        BY <1>3, <1>len
    <2>5. q <= hi
        <3>1. (i - 1) * n \in Nat
            BY <1>3
        <3> QED
            BY <1>3, <1>4, <1>len, <2>4, <3>1
    <2>6. Len(SubSeq(m, lo, hi)) = hi - lo + 1
        <3>1. lo <= hi
            <4>1. (i - 1) * n \in Nat /\ lo <= q
                BY <1>3, <1>4
            <4> QED
                BY <2>4, <2>5, <4>1
        <3> HIDE DEF lo, hi
        <3> QED
            BY <2>4, <3>1, <1>len
    <2>7. hi - lo + 1 >= j
        <3>1. (i - 1) * n \in Nat /\ lo = q - j + 1
            BY <1>3, <1>4
        <3> HIDE DEF lo, hi
        <3> QED
            BY <1>3, <2>4, <2>5, <3>1
    <2> HIDE DEF lo, hi, l
    <2> QED
        BY <1>3, <2>1, <2>2, <2>3, <2>4, <2>6, <2>7
<1>7. j \in 1..Len(chunks[i].messages)
    BY <1>1, <1>3, <1>5, <1>6
<1>8. chunks[i].messages[j] = m[q]
    BY <1>1, <1>4, <1>5, <1>7
<1>9. ASSUME NEW k \in 1..Len(chunks), NEW l \in 1..Len(chunks[k].messages)
      PROVE  \E r \in 1..Len(m) : /\ chunks[k].messages[l] = m[r]
                                  /\ r = q => k = i /\ l = j
    <2>1. (k - 1) * n + l \in 1..Len(m) /\ chunks[k].messages[l] = m[(k - 1) * n + l]
        BY <1>1
    <2>2. k \in Nat \ {0} /\ l \in 1..n
        BY <1>1
    <2>3. (k - 1) * n + l = q => k = i /\ l = j
        BY <1>3, <1>4, <2>2, OnePlace
    <2> QED
        BY <2>1, <2>3
<1>10. CutAt(chunks, m, q, i, j)
    <2>1. Has(chunks, i, j)
        BY <1>5, <1>7 DEF Has
    <2> QED
        BY <1>8, <1>9, <2>1 DEF CutAt, Has
<1> QED
    BY <1>10

\* SetToSeq has every element of a finite set once.
LEMMA AllInSeq ==
    ASSUME NEW S, IsFiniteSet(S)
    PROVE  /\ SetToSeq(S) \in Seq(S)
           /\ Len(SetToSeq(S)) = Cardinality(S)
           /\ \A a, b \in 1..Len(SetToSeq(S)) : SetToSeq(S)[a] = SetToSeq(S)[b] => a = b
           /\ \A x \in S : \E a \in 1..Len(SetToSeq(S)) : SetToSeq(S)[a] = x
<1> DEFINE n == Cardinality(S)
           s == SetToSeq(S)
<1>1. n \in Nat /\ ExistsBijection(1..n, S)
    BY FS_CardinalityType
<1>2. \E f \in [1..n -> S] : IsInjective(f)
    BY <1>1 DEF ExistsBijection, Bijection, Injection, IsInjective
<1>3. s \in [1..n -> S] /\ IsInjective(s)
    BY <1>2 DEF SetToSeq
<1> HIDE DEF n, s
<1>4. s \in Injection(1..n, S)
    BY <1>3 DEF Injection, IsInjective
<1>5. IsFiniteSet(1..n) /\ Cardinality(1..n) = n
    <2>1. 1 \in Int /\ n \in Int
        BY <1>1
    <2>2. IsFiniteSet(1..n) /\ Cardinality(1..n) = IF 1 > n THEN 0 ELSE n - 1 + 1
        BY <2>1, FS_Interval
    <2> QED
        BY <1>1, <2>2
<1>6. s \in Surjection(1..n, S)
    BY <1>4, <1>5, FS_Injection DEF n
<1>7. s \in Seq(S) /\ Len(s) = n
    BY <1>1, <1>3
<1>8. \A x \in S : \E a \in 1..n : s[a] = x
    BY <1>6 DEF Surjection
<1> QED
    BY <1>3, <1>7, <1>8 DEF s, n, IsInjective

-----------------------------------------------------------------------------
(* The plan of a wallet. *)

Messages(w) == [kind : {"nft", "jetton", "TON", "commission"},
                item : w.nfts \cup DOMAIN w.jettons \cup {NoGas, GasJetton},
                amount : Int]
Batches(w) == [messages : Seq(Messages(w)), sponsored : BOOLEAN]

\* Of one kind, up to n in a batch.
OfKind(batches, kind, n, sponsored) ==
    /\ \A i \in 1..Len(batches) : /\ batches[i].sponsored = sponsored
                                  /\ Len(batches[i].messages) \in 1..n
    /\ \A i, j : Has(batches, i, j) => batches[i].messages[j].kind = kind

\* Exactly one message moves the item, in this amount.
OnceAt(batches, kind, item, amount, i, j) ==
    /\ Has(batches, i, j)
    /\ batches[i].messages[j].kind = kind
    /\ batches[i].messages[j].item = item
    /\ batches[i].messages[j].amount = amount
    /\ \A k, l : /\ Has(batches, k, l)
                 /\ batches[k].messages[l].kind = kind
                 /\ batches[k].messages[l].item = item
                 => k = i /\ l = j
Once(batches, kind, item, amount) ==
    \E i, j : OnceAt(batches, kind, item, amount, i, j)

\* The messages of one kind, of different items.
Listing(m, w, kind) ==
    /\ m \in Seq(Messages(w))
    /\ \A q \in 1..Len(m) : m[q].kind = kind
    /\ \A q, r \in 1..Len(m) : m[q].item = m[r].item => q = r

\* Its chunks, in which every message is once.
Chunked(chunks, m, w, kind, n, sponsored) ==
    /\ chunks \in Seq(Batches(w))
    /\ Len(chunks) = NumOf(Len(m), n)
    /\ OfKind(chunks, kind, n, sponsored)
    /\ \A q \in 1..Len(m) : Once(chunks, kind, m[q].item, m[q].amount)

LEMMA ListingChunks ==
    ASSUME NEW w, NEW kind, NEW m, Listing(m, w, kind),
           NEW n \in Nat \ {0}, NEW sponsored \in BOOLEAN,
           NEW chunks, chunks = Chunks(Batch(m, sponsored), n)
    PROVE  Chunked(chunks, m, w, kind, n, sponsored)
<1> DEFINE M == Messages(w)
<1>0. chunks = Chunks(Batch(m, sponsored), n)
    OBVIOUS
<1>1. m \in Seq(M)
    BY DEF Listing
<1>m. /\ \A q \in 1..Len(m) : m[q].kind = kind
      /\ \A q, r \in 1..Len(m) : m[q].item = m[r].item => q = r
    BY DEF Listing
<1> HIDE DEF M
<1>2. chunks \in Seq([messages : Seq(M), sponsored : {sponsored}]) /\ Cut(chunks, m, n)
    BY <1>1, ChunkParts
<1>3. /\ Len(chunks) \in Nat /\ Len(m) \in Nat
      /\ chunks \in [1..Len(chunks) -> [messages : Seq(M), sponsored : {sponsored}]]
      /\ \A i \in 1..Len(chunks) :
            chunks[i] \in [messages : Seq(M), sponsored : {sponsored}]
    <2> DEFINE C == [messages : Seq(M), sponsored : {sponsored}]
    <2>1. chunks \in Seq(C)
        BY <1>2
    <2> HIDE DEF C
    <2>2. /\ Len(chunks) \in Nat
          /\ chunks \in [1..Len(chunks) -> C]
          /\ \A i \in 1..Len(chunks) : chunks[i] \in C
        BY <2>1
    <2> QED
        BY <1>1, <2>2 DEF C
<1>4. chunks \in Seq(Batches(w))
    <2> DEFINE B == [messages : Seq(M), sponsored : BOOLEAN]
    <2>1. \A i \in 1..Len(chunks) : chunks[i] \in B
        BY <1>3
    <2> HIDE DEF B
    <2>2. chunks \in [1..Len(chunks) -> B]
        BY <1>3, <2>1
    <2>3. chunks \in Seq(B)
        BY <1>3, <2>2
    <2> QED
        BY <2>3 DEF B, Batches, M
<1>5. Len(chunks) = NumOf(Len(m), n)
    BY <1>2 DEF Cut
<1>6. OfKind(chunks, kind, n, sponsored)
    <2>1. \A i \in 1..Len(chunks) : /\ chunks[i].sponsored = sponsored
                                    /\ Len(chunks[i].messages) \in 1..n
        BY <1>2, <1>3 DEF Cut
    <2>2. ASSUME NEW i, NEW j, Has(chunks, i, j) PROVE chunks[i].messages[j].kind = kind
        <3>1. (i - 1) * n + j \in 1..Len(m) /\ chunks[i].messages[j] = m[(i - 1) * n + j]
            BY <1>2, <2>2 DEF Cut, Has
        <3> QED
            BY <1>m, <3>1
    <2> QED
        BY <2>1, <2>2 DEF OfKind
<1>7. ASSUME NEW q \in 1..Len(m) PROVE Once(chunks, kind, m[q].item, m[q].amount)
    <2>0. \E i, j : CutAt(chunks, m, q, i, j)
        BY <1>0, <1>1, ChunkOnce
    <2>1. PICK i, j : CutAt(chunks, m, q, i, j)
        BY <2>0
    <2>2. Has(chunks, i, j) /\ chunks[i].messages[j] = m[q]
        BY <2>1 DEF CutAt
    <2>3. ASSUME NEW k, NEW l, Has(chunks, k, l), chunks[k].messages[l].item = m[q].item
          PROVE  k = i /\ l = j
        <3>1. PICK r \in 1..Len(m) : /\ chunks[k].messages[l] = m[r]
                                     /\ r = q => k = i /\ l = j
            BY <2>1, <2>3 DEF CutAt
        <3>2. r = q
            BY <1>m, <2>3, <3>1
        <3> QED
            BY <3>1, <3>2
    <2>4. OnceAt(chunks, kind, m[q].item, m[q].amount, i, j)
        BY <1>m, <2>1, <2>2, <2>3 DEF OnceAt
    <2> QED
        BY <2>4 DEF Once
<1> QED
    BY <1>4, <1>5, <1>6, <1>7 DEF Chunked

\* What a wallet holds is finite.
LEMMA WalletParts ==
    ASSUME NEW w \in Wallets
    PROVE  /\ IsFiniteSet(w.nfts) /\ IsFiniteSet(DOMAIN w.jettons)
           /\ NoGas \notin DOMAIN w.jettons
           /\ \A j \in DOMAIN w.jettons : w.jettons[j] \in Nat
           /\ w.balance \in Nat /\ w.version \in DOMAIN MaxMessages
BY MigrationAssumption DEF Wallets

LEMMA NftListing ==
    ASSUME NEW w \in Wallets
    PROVE  /\ Listing(NftTransfers(w), w, "nft")
           /\ Len(NftTransfers(w)) = Cardinality(w.nfts)
           /\ \A x \in w.nfts : \E q \in 1..Len(NftTransfers(w)) :
                 NftTransfers(w)[q].item = x /\ NftTransfers(w)[q].amount = 1
<1> DEFINE s == SetToSeq(w.nfts)
           m == NftTransfers(w)
<1>1. /\ s \in Seq(w.nfts)
      /\ Len(s) = Cardinality(w.nfts)
      /\ \A a, b \in 1..Len(s) : s[a] = s[b] => a = b
      /\ \A x \in w.nfts : \E a \in 1..Len(s) : s[a] = x
    <2>1. IsFiniteSet(w.nfts)
        BY WalletParts
    <2> QED
        BY <2>1, AllInSeq
<1>2. m = [i \in 1..Len(s) |-> [kind |-> "nft", item |-> s[i], amount |-> 1]]
    BY DEF NftTransfers
<1> HIDE DEF s, m
<1>3. Len(s) \in Nat /\ \A i \in 1..Len(s) : s[i] \in w.nfts
    BY <1>1
<1>4. Len(m) = Len(s)
    BY <1>2, <1>3
<1>5. \A i \in 1..Len(s) : m[i] = [kind |-> "nft", item |-> s[i], amount |-> 1]
    BY <1>2
<1>6. m \in Seq(Messages(w))
    <2>1. \A i \in 1..Len(s) : [kind |-> "nft", item |-> s[i], amount |-> 1] \in Messages(w)
        BY <1>3 DEF Messages
    <2>2. m \in [1..Len(s) -> Messages(w)]
        BY <1>2, <2>1
    <2> QED
        BY <1>3, <2>2
<1>7. Listing(m, w, "nft")
    BY <1>1, <1>4, <1>5, <1>6 DEF Listing
<1> QED
    BY <1>1, <1>4, <1>5, <1>7 DEF m

\* What of a jetton is moved: the relay is paid from what stays of its own.
Moving(w, gas, reserve, j) == w.jettons[j] - IF j = gas THEN reserve ELSE 0

\* A relay is paid in a jetton of the wallet.
GasOf(w, relayed, gas) ==
    /\ gas \in {NoGas, GasJetton}
    /\ gas # NoGas => relayed /\ gas \in DOMAIN w.jettons

LEMMA JettonListing ==
    ASSUME NEW w \in Wallets, NEW gas, NEW relayed, GasOf(w, relayed, gas),
           NEW reserve \in Nat
    PROVE  /\ Listing(JettonTransfers(w, gas, reserve), w, "jetton")
           /\ Len(JettonTransfers(w, gas, reserve)) = Cardinality(DOMAIN w.jettons)
           /\ \A x \in DOMAIN w.jettons :
                 \E q \in 1..Len(JettonTransfers(w, gas, reserve)) :
                    /\ JettonTransfers(w, gas, reserve)[q].item = x
                    /\ JettonTransfers(w, gas, reserve)[q].amount = Moving(w, gas, reserve, x)
<1> DEFINE J == DOMAIN w.jettons
           s == SetToSeq(J \ {gas})
           m == JettonTransfers(w, gas, reserve)
           msg(x) == [kind |-> "jetton", item |-> x, amount |-> Moving(w, gas, reserve, x)]
           rest == [i \in 1..Len(s) |-> JettonTransfer(w, s[i], 0)]
<1>0. IsFiniteSet(J) /\ NoGas \notin J /\ \A j \in J : w.jettons[j] \in Nat
    BY WalletParts
<1>1. /\ s \in Seq(J \ {gas})
      /\ Len(s) = Cardinality(J \ {gas})
      /\ \A a, b \in 1..Len(s) : s[a] = s[b] => a = b
      /\ \A x \in J \ {gas} : \E a \in 1..Len(s) : s[a] = x
    <2>1. IsFiniteSet(J \ {gas})
        BY <1>0, FS_RemoveElement
    <2> QED
        BY <2>1, AllInSeq
<1>2. m = IF gas = NoGas THEN rest ELSE Append(rest, JettonTransfer(w, gas, reserve))
    BY DEF JettonTransfers
<1>3. Len(s) \in Nat /\ \A i \in 1..Len(s) : s[i] \in J /\ s[i] # gas
    <2> DEFINE O == J \ {gas}
    <2>1. s \in Seq(O)
        BY <1>1
    <2> HIDE DEF s, O
    <2>2. Len(s) \in Nat /\ \A i \in 1..Len(s) : s[i] \in O
        BY <2>1
    <2> QED
        BY <2>2 DEF O
<1>4. \A x \in J : msg(x) \in Messages(w)
    <2>1. \A x \in J : Moving(w, gas, reserve, x) \in Int
        BY <1>0 DEF Moving
    <2> QED
        BY <2>1 DEF Messages
<1>5. rest = [i \in 1..Len(s) |-> msg(s[i])]
    <2>1. \A i \in 1..Len(s) : JettonTransfer(w, s[i], 0) = msg(s[i])
        BY <1>3 DEF JettonTransfer, Moving
    <2> QED
        BY <2>1
<1>6. gas # NoGas => gas \in J /\ JettonTransfer(w, gas, reserve) = msg(gas)
    BY DEF GasOf, JettonTransfer, Moving
<1>7. Cardinality(J) = Len(s) + IF gas = NoGas THEN 0 ELSE 1
    <2>1. Cardinality(J) \in Nat
        BY <1>0, FS_CardinalityType
    <2>2. Cardinality(J \ {gas}) = IF gas \in J THEN Cardinality(J) - 1 ELSE Cardinality(J)
        BY <1>0, FS_RemoveElement
    <2>3. gas \in J <=> gas # NoGas
        BY <1>0, <1>6
    <2> HIDE DEF J, s
    <2> QED
        BY <1>1, <2>1, <2>2, <2>3
<1> HIDE DEF J, s, m
<1>8. rest \in Seq(Messages(w)) /\ Len(rest) = Len(s)
    <2>1. rest \in [1..Len(s) -> Messages(w)]
        BY <1>3, <1>4, <1>5
    <2> HIDE DEF rest
    <2> QED
        BY <1>3, <2>1
<1> DEFINE at(q) == IF q <= Len(s) THEN s[q] ELSE gas
<1>9. /\ m \in Seq(Messages(w)) /\ Len(m) = Cardinality(J)
      /\ \A q \in 1..Len(m) : m[q] = msg(at(q)) /\ at(q) \in J
    <2> DEFINE Msgs == Messages(w)
    <2>1. CASE gas = NoGas
        <3>1. m = rest
            BY <1>2, <2>1
        <3> QED
            BY <1>3, <1>5, <1>7, <1>8, <2>1, <3>1
    <2>2. CASE gas # NoGas
        <3>1. m = Append(rest, msg(gas)) /\ msg(gas) \in Msgs /\ gas \in J
            BY <1>2, <1>4, <1>6, <2>2
        <3> DEFINE x == msg(gas)
        <3>2. \A q \in 1..Len(s) : rest[q] = msg(s[q])
            BY <1>5
        <3> HIDE DEF rest, msg, Msgs
        <3>3. rest \in Seq(Msgs) /\ Len(rest) = Len(s)
            BY <1>8 DEF Msgs
        <3>4. Append(rest, x) \in Seq(Msgs) /\ Len(Append(rest, x)) = Len(s) + 1
            BY <3>1, <3>3
        <3>5. \A q \in 1..Len(s) : Append(rest, x)[q] = rest[q]
            BY <3>1, <3>3
        <3>6. Append(rest, x)[Len(s) + 1] = x
            BY <3>1, <3>3
        <3> QED
            BY <1>3, <1>7, <2>2, <3>1, <3>2, <3>4, <3>5, <3>6 DEF Msgs
    <2> QED
        BY <2>1, <2>2
<1> HIDE DEF rest
<1>10. \A q \in 1..Len(m) : m[q].kind = "jetton" /\ m[q].item = at(q)
                            /\ m[q].amount = Moving(w, gas, reserve, at(q))
    BY <1>9
<1>len. Len(m) \in Nat /\ Len(m) = Len(s) + IF gas = NoGas THEN 0 ELSE 1
    BY <1>3, <1>7, <1>9
<1>11. ASSUME NEW q \in 1..Len(m), NEW r \in 1..Len(m), at(q) = at(r)
       PROVE  q = r
    <2>1. q \in Nat /\ r \in Nat /\ 1 <= q /\ 1 <= r /\ q <= Len(s) + 1 /\ r <= Len(s) + 1
        BY <1>3, <1>len
    <2>2. CASE q <= Len(s) /\ r <= Len(s)
        <3>1. s[q] = s[r] /\ q \in 1..Len(s) /\ r \in 1..Len(s)
            BY <1>3, <1>11, <2>1, <2>2
        <3> QED
            BY <1>1, <3>1
    <2>3. CASE q <= Len(s) /\ ~(r <= Len(s))
        <3>1. s[q] = gas /\ q \in 1..Len(s)
            BY <1>3, <1>11, <2>1, <2>3
        <3> QED
            BY <1>3, <3>1
    <2>4. CASE ~(q <= Len(s)) /\ r <= Len(s)
        <3>1. s[r] = gas /\ r \in 1..Len(s)
            BY <1>3, <1>11, <2>1, <2>4
        <3> QED
            BY <1>3, <3>1
    <2>5. CASE ~(q <= Len(s)) /\ ~(r <= Len(s))
        BY <1>3, <2>1, <2>5
    <2> QED
        BY <2>2, <2>3, <2>4, <2>5
<1>12. \A q, r \in 1..Len(m) : m[q].item = m[r].item => q = r
    <2> HIDE DEF at
    <2> QED
        BY <1>10, <1>11
<1>13. Listing(m, w, "jetton")
    BY <1>9, <1>10, <1>12 DEF Listing
<1>14. ASSUME NEW x \in J PROVE \E q \in 1..Len(m) : at(q) = x
    <2>1. CASE x # gas
        <3>1. PICK a \in 1..Len(s) : s[a] = x
            BY <1>1, <2>1
        <3>2. a \in 1..Len(m) /\ at(a) = x
            BY <1>3, <1>len, <3>1
        <3> QED
            BY <3>2
    <2>2. CASE x = gas
        <3>1. gas # NoGas
            BY <1>0, <1>14, <2>2
        <3>2. Len(m) \in 1..Len(m) /\ at(Len(m)) = x
            BY <1>3, <1>len, <2>2, <3>1
        <3> QED
            BY <3>2
    <2> QED
        BY <2>1, <2>2
<1>15. ASSUME NEW x \in J
       PROVE  \E q \in 1..Len(m) : m[q].item = x /\ m[q].amount = Moving(w, gas, reserve, x)
    <2> HIDE DEF at
    <2> QED
        BY <1>10, <1>14
<1> QED
    BY <1>9, <1>13, <1>15 DEF m, J

\* Batches after one another.
Joined(c, a, b) ==
    /\ Len(a) \in Nat /\ Len(b) \in Nat /\ Len(c) = Len(a) + Len(b)
    /\ \A i \in 1..Len(a) : c[i] = a[i]
    /\ \A i \in 1..Len(b) : c[Len(a) + i] = b[i]

Lacks(batches, kind) ==
    \A i, j : Has(batches, i, j) => batches[i].messages[j].kind # kind

LEMMA JoinTwo ==
    ASSUME NEW S, NEW a \in Seq(S), NEW b \in Seq(S)
    PROVE  a \o b \in Seq(S) /\ Joined(a \o b, a, b)
<1>1. /\ Len(a) \in Nat /\ Len(b) \in Nat /\ a \o b \in Seq(S)
      /\ Len(a \o b) = Len(a) + Len(b)
    OBVIOUS
<1>2. \A i \in 1..Len(a) : (a \o b)[i] = a[i]
    BY <1>1
<1>3. \A i \in 1..Len(b) : (a \o b)[Len(a) + i] = b[i]
    BY <1>1
<1> QED
    BY <1>1, <1>2, <1>3 DEF Joined

\* Where a batch of the two is from.
LEMMA FromTwo ==
    ASSUME NEW a, NEW b, NEW c, Joined(c, a, b), NEW i, NEW j, Has(c, i, j)
    PROVE  \/ /\ i \in 1..Len(a) /\ Has(a, i, j) /\ c[i] = a[i]
           \/ /\ i - Len(a) \in 1..Len(b) /\ Has(b, i - Len(a), j) /\ c[i] = b[i - Len(a)]
              /\ i \notin 1..Len(a) /\ i \in Nat
<1>1. /\ Len(a) \in Nat /\ Len(b) \in Nat /\ i \in 1..Len(a) + Len(b)
      /\ j \in 1..Len(c[i].messages)
    BY DEF Joined, Has
<1>2. CASE i \in 1..Len(a)
    <2>1. c[i] = a[i]
        BY <1>2 DEF Joined
    <2> QED
        BY <1>1, <1>2, <2>1 DEF Has
<1>3. CASE i \notin 1..Len(a)
    <2>1. i - Len(a) \in 1..Len(b) /\ Len(a) + (i - Len(a)) = i /\ i \in Nat
        BY <1>1, <1>3
    <2>2. c[Len(a) + (i - Len(a))] = b[i - Len(a)]
        BY <2>1 DEF Joined
    <2> QED
        BY <1>1, <1>3, <2>1, <2>2 DEF Has
<1> QED
    BY <1>2, <1>3

LEMMA OnceInFirst ==
    ASSUME NEW a, NEW b, NEW c, Joined(c, a, b), NEW kind, NEW item, NEW amount,
           Once(a, kind, item, amount), Lacks(b, kind)
    PROVE  Once(c, kind, item, amount)
<1>1. PICK i, j : OnceAt(a, kind, item, amount, i, j)
    BY DEF Once
<1>2. Len(a) \in Nat /\ Len(b) \in Nat /\ Len(c) = Len(a) + Len(b)
    BY DEF Joined
<1>3. i \in 1..Len(a) /\ Has(a, i, j)
    BY <1>1 DEF OnceAt, Has
<1>4. c[i] = a[i]
    BY <1>3 DEF Joined
<1>5. Has(c, i, j)
    BY <1>2, <1>3, <1>4 DEF Has
<1>6. ASSUME NEW k, NEW l, Has(c, k, l),
             c[k].messages[l].kind = kind, c[k].messages[l].item = item
      PROVE  k = i /\ l = j
    <2>1. CASE Has(a, k, l) /\ c[k] = a[k]
        BY <1>1, <1>6, <2>1 DEF OnceAt
    <2>2. CASE Has(b, k - Len(a), l) /\ c[k] = b[k - Len(a)]
        BY <1>6, <2>2 DEF Lacks
    <2> QED
        BY <1>6, <2>1, <2>2, FromTwo
<1>7. OnceAt(c, kind, item, amount, i, j)
    BY <1>1, <1>4, <1>5, <1>6 DEF OnceAt
<1> QED
    BY <1>7 DEF Once

LEMMA OnceInSecond ==
    ASSUME NEW a, NEW b, NEW c, Joined(c, a, b), NEW kind, NEW item, NEW amount,
           Once(b, kind, item, amount), Lacks(a, kind)
    PROVE  Once(c, kind, item, amount)
<1>1. PICK i, j : OnceAt(b, kind, item, amount, i, j)
    BY DEF Once
<1>2. Len(a) \in Nat /\ Len(b) \in Nat /\ Len(c) = Len(a) + Len(b)
    BY DEF Joined
<1>3. i \in 1..Len(b) /\ Has(b, i, j)
    BY <1>1 DEF OnceAt, Has
<1>4. c[Len(a) + i] = b[i]
    BY <1>3 DEF Joined
<1>5. Has(c, Len(a) + i, j)
    BY <1>2, <1>3, <1>4 DEF Has
<1>6. ASSUME NEW k, NEW l, Has(c, k, l),
             c[k].messages[l].kind = kind, c[k].messages[l].item = item
      PROVE  k = Len(a) + i /\ l = j
    <2>1. CASE Has(a, k, l) /\ c[k] = a[k]
        BY <1>6, <2>1 DEF Lacks
    <2>2. CASE Has(b, k - Len(a), l) /\ c[k] = b[k - Len(a)] /\ k \in Nat
        <3>1. k - Len(a) = i /\ l = j
            BY <1>1, <1>6, <2>2 DEF OnceAt
        <3> QED
            BY <1>2, <1>3, <2>2, <3>1
    <2> QED
        BY <1>6, <2>1, <2>2, FromTwo
<1>7. OnceAt(c, kind, item, amount, Len(a) + i, j)
    BY <1>1, <1>4, <1>5, <1>6 DEF OnceAt
<1> QED
    BY <1>7 DEF Once

\* A slot of each transaction is kept for the commission.
LEMMA RoomForCommission ==
    ASSUME NEW w \in Wallets, NEW relayed \in BOOLEAN, NEW gas
    PROVE  LET n == ChunkSize(w, relayed, gas)
               slot == IF gas = NoGas THEN 0 ELSE 1
           IN /\ n \in Nat \ {0}
              /\ n + slot <= MaxMessages[w.version]
              /\ relayed => n + slot <= SponsoredMax
<1>1. MaxMessages[w.version] \in Nat /\ MaxMessages[w.version] > 1
    BY WalletParts, MigrationAssumption
<1>2. SponsoredMax \in Nat /\ SponsoredMax > 1
    BY MigrationAssumption
<1> QED
    BY <1>1, <1>2 DEF ChunkSize

Swept(plan, w) == IF w.balance > MinTransferFee THEN {Len(plan)} ELSE {}

\* All that a wallet holds is in its plan, the TON last and by themselves.
Shape(plan, w, relayed, n) ==
    /\ plan \in Seq(Batches(w))
    /\ Swept(plan, w) \subseteq 1..Len(plan)
    /\ \A i \in 1..Len(plan) :
          /\ plan[i].sponsored = (relayed /\ i \notin Swept(plan, w))
          /\ Len(plan[i].messages) \in 1..n
          /\ i \in Swept(plan, w) => plan[i].messages = <<Sweep>>
    /\ \A i, j : Has(plan, i, j) /\ i \notin Swept(plan, w) =>
          plan[i].messages[j].kind \in {"nft", "jetton"}
Whole(plan, w, gas, reserve) ==
    /\ \A x \in w.nfts : Once(plan, "nft", x, 1)
    /\ \A x \in DOMAIN w.jettons : Once(plan, "jetton", x, Moving(w, gas, reserve, x))
PlanLen(w, n) == NumOf(Cardinality(w.nfts), n) + NumOf(Cardinality(DOMAIN w.jettons), n)
                 + IF w.balance > MinTransferFee THEN 1 ELSE 0

LEMMA PlanParts ==
    ASSUME NEW w \in Wallets, NEW relayed \in BOOLEAN, NEW gas, GasOf(w, relayed, gas),
           NEW reserve \in Nat, NEW plan, plan = Plan(w, relayed, gas, reserve)
    PROVE  /\ Shape(plan, w, relayed, ChunkSize(w, relayed, gas))
           /\ Whole(plan, w, gas, reserve)
           /\ Len(plan) = PlanLen(w, ChunkSize(w, relayed, gas))
<1> DEFINE n == ChunkSize(w, relayed, gas)
           B == Batches(w)
           nm == NftTransfers(w)
           jm == JettonTransfers(w, gas, reserve)
           a == Chunks(Batch(nm, relayed), n)
           b == Chunks(Batch(jm, relayed), n)
           c == IF w.balance > MinTransferFee THEN <<Batch(<<Sweep>>, FALSE)>> ELSE <<>>
           ab == a \o b
<1>1. n \in Nat \ {0}
    BY RoomForCommission
<1>2. plan = ab \o c
    <2>1. plan = a \o b \o c
        BY DEF Plan
    <2> QED
        BY <2>1
<1>3. Listing(nm, w, "nft") /\ Len(nm) = Cardinality(w.nfts)
      /\ \A x \in w.nfts : \E q \in 1..Len(nm) : nm[q].item = x /\ nm[q].amount = 1
    BY NftListing
<1>4. /\ Listing(jm, w, "jetton") /\ Len(jm) = Cardinality(DOMAIN w.jettons)
      /\ \A x \in DOMAIN w.jettons : \E q \in 1..Len(jm) :
            jm[q].item = x /\ jm[q].amount = Moving(w, gas, reserve, x)
    BY JettonListing
<1> HIDE DEF n, nm, jm
<1>a. a = Chunks(Batch(nm, relayed), n) /\ b = Chunks(Batch(jm, relayed), n)
    OBVIOUS
<1> HIDE DEF a, b
<1>c. /\ Chunked(a, nm, w, "nft", n, relayed)
      /\ Chunked(b, jm, w, "jetton", n, relayed)
    BY <1>1, <1>3, <1>4, <1>a, ListingChunks
<1>5. /\ a \in Seq(B) /\ Len(a) = NumOf(Len(nm), n) /\ OfKind(a, "nft", n, relayed)
      /\ \A q \in 1..Len(nm) : Once(a, "nft", nm[q].item, nm[q].amount)
    BY <1>c DEF Chunked
<1>6. /\ b \in Seq(B) /\ Len(b) = NumOf(Len(jm), n) /\ OfKind(b, "jetton", n, relayed)
      /\ \A q \in 1..Len(jm) : Once(b, "jetton", jm[q].item, jm[q].amount)
    BY <1>c DEF Chunked
<1>7. /\ c \in Seq(B) /\ Len(c) = IF w.balance > MinTransferFee THEN 1 ELSE 0
      /\ \A i \in 1..Len(c) : c[i] = Batch(<<Sweep>>, FALSE)
    <2>1. <<Sweep>> \in Seq(Messages(w))
        <3>1. Sweep \in Messages(w)
            BY DEF Sweep, Messages
        <3> HIDE DEF Sweep
        <3> QED
            BY <3>1
    <2>2. Batch(<<Sweep>>, FALSE) \in B
        BY <2>1 DEF Batch, Batches
    <2> DEFINE last == Batch(<<Sweep>>, FALSE)
    <2>3. c = IF w.balance > MinTransferFee THEN <<last>> ELSE <<>>
        OBVIOUS
    <2>4. last \in B
        BY <2>2
    <2> HIDE DEF B, last, c
    <2>5. CASE w.balance > MinTransferFee
        <3>1. c = <<last>>
            BY <2>3, <2>5
        <3>2. c \in Seq(B) /\ Len(c) = 1 /\ c[1] = last
            BY <2>4, <3>1
        <3>3. \A i \in 1..Len(c) : c[i] = last
            BY <3>2
        <3> QED
            BY <2>5, <3>2, <3>3 DEF last
    <2>6. CASE ~(w.balance > MinTransferFee)
        <3>1. c = <<>>
            BY <2>3, <2>6
        <3> QED
            BY <2>6, <3>1
    <2> QED
        BY <2>5, <2>6
<1> HIDE DEF c, B
<1>8. ab \in Seq(B) /\ Joined(ab, a, b)
    BY <1>5, <1>6, JoinTwo
<1> HIDE DEF ab
<1>9. plan \in Seq(B) /\ Joined(plan, ab, c)
    BY <1>2, <1>7, <1>8, JoinTwo
<1>10. /\ Len(a) \in Nat /\ Len(b) \in Nat /\ Len(ab) \in Nat /\ Len(c) \in {0, 1}
       /\ Len(ab) = Len(a) + Len(b) /\ Len(plan) = Len(ab) + Len(c)
    BY <1>7, <1>8, <1>9 DEF Joined
<1>11. Len(plan) = PlanLen(w, n)
    BY <1>3, <1>4, <1>5, <1>6, <1>7, <1>10 DEF PlanLen
<1>12. Lacks(b, "nft") /\ Lacks(a, "jetton")
    BY <1>5, <1>6 DEF OfKind, Lacks
<1>13. \A i, j : Has(c, i, j) => c[i].messages[j].kind = "TON"
    <2>1. \A j \in 1..Len(<<Sweep>>) : <<Sweep>>[j].kind = "TON"
        BY DEF Sweep
    <2> QED
        BY <1>7, <2>1 DEF Has, Batch
<1>14. Lacks(c, "nft") /\ Lacks(c, "jetton")
    BY <1>13 DEF Lacks
<1>15. \A x \in w.nfts : Once(plan, "nft", x, 1)
    <2>1. \A x \in w.nfts : Once(a, "nft", x, 1)
        BY <1>3, <1>5
    <2>2. \A x \in w.nfts : Once(ab, "nft", x, 1)
        BY <1>8, <1>12, <2>1, OnceInFirst
    <2> QED
        BY <1>9, <1>14, <2>2, OnceInFirst
<1>16. ASSUME NEW x \in DOMAIN w.jettons
       PROVE  Once(plan, "jetton", x, Moving(w, gas, reserve, x))
    <2> DEFINE amount == Moving(w, gas, reserve, x)
    <2>1. Once(b, "jetton", x, amount)
        BY <1>4, <1>6
    <2> HIDE DEF amount
    <2>2. Once(ab, "jetton", x, amount)
        BY <1>8, <1>12, <2>1, OnceInSecond
    <2>3. Once(plan, "jetton", x, amount)
        BY <1>9, <1>14, <2>2, OnceInFirst
    <2> QED
        BY <2>3 DEF amount
<1> DEFINE swept == Swept(plan, w)
<1>17. \A i \in 1..Len(plan) : i \in swept <=> i \notin 1..Len(ab)
    BY <1>7, <1>10 DEF Swept
<1>18. swept \subseteq 1..Len(plan)
    BY <1>7, <1>10 DEF Swept
<1>19. ASSUME NEW i \in 1..Len(ab)
       PROVE  /\ plan[i].sponsored = relayed
              /\ Len(plan[i].messages) \in 1..n
              /\ \A j : Has(plan, i, j) => plan[i].messages[j].kind \in {"nft", "jetton"}
    <2>1. plan[i] = ab[i]
        BY <1>9 DEF Joined
    <2>2. CASE i \in 1..Len(a)
        <3>1. ab[i] = a[i]
            BY <1>8, <2>2 DEF Joined
        <3> QED
            BY <1>5, <2>1, <2>2, <3>1 DEF OfKind, Has
    <2>3. CASE i \notin 1..Len(a)
        <3>1. i - Len(a) \in 1..Len(b) /\ Len(a) + (i - Len(a)) = i
            BY <1>10, <2>3
        <3>2. ab[Len(a) + (i - Len(a))] = b[i - Len(a)]
            BY <1>8, <3>1 DEF Joined
        <3> DEFINE k == i - Len(a)
        <3>3. plan[i] = b[k] /\ k \in 1..Len(b)
            BY <2>1, <3>1, <3>2
        <3> HIDE DEF k
        <3> QED
            BY <1>6, <3>3 DEF OfKind, Has
    <2> QED
        BY <2>2, <2>3
<1>20. ASSUME NEW i \in 1..Len(plan), i \in swept
       PROVE  plan[i].sponsored = FALSE /\ plan[i].messages = <<Sweep>>
    <2>1. i - Len(ab) \in 1..Len(c) /\ Len(ab) + (i - Len(ab)) = i
        BY <1>10, <1>17, <1>20
    <2>2. plan[Len(ab) + (i - Len(ab))] = c[i - Len(ab)]
        BY <1>9, <2>1 DEF Joined
    <2>3. plan[i] = Batch(<<Sweep>>, FALSE)
        BY <1>7, <2>1, <2>2
    <2> QED
        BY <2>3 DEF Batch
<1>21. Shape(plan, w, relayed, n)
    <2> HIDE DEF swept
    <2>1. ASSUME NEW i \in 1..Len(plan)
          PROVE  /\ plan[i].sponsored = (relayed /\ i \notin swept)
                 /\ Len(plan[i].messages) \in 1..n
                 /\ i \in swept => plan[i].messages = <<Sweep>>
        <3>1. CASE i \in swept
            <4>1. Len(<<Sweep>>) \in 1..n
                BY <1>1
            <4> QED
                BY <1>20, <3>1, <4>1
        <3>2. CASE i \notin swept
            BY <1>17, <1>19, <3>2
        <3> QED
            BY <3>1, <3>2
    <2>2. ASSUME NEW i, NEW j, Has(plan, i, j), i \notin swept
          PROVE  plan[i].messages[j].kind \in {"nft", "jetton"}
        <3>1. i \in 1..Len(ab)
            BY <1>17, <2>2 DEF Has
        <3> QED
            BY <1>19, <2>2, <3>1
    <2> QED
        BY <1>9, <1>18, <2>1, <2>2 DEF Shape, B, swept
<1> QED
    BY <1>11, <1>15, <1>16, <1>21 DEF Whole, n

-----------------------------------------------------------------------------
(* The plan with the commission in it. *)

\* The batches that are sponsored.
SponsoredOf(plan, w, relayed) ==
    {i \in 1..Len(plan) : relayed /\ i \notin Swept(plan, w)}

\* What is answered: kinds of messages, batch by batch.
Final(plan, w, relayed, gas, c) ==
    /\ plan \in Seq(Batches(w))
    /\ Swept(plan, w) \subseteq 1..Len(plan)
    /\ \A i \in 1..Len(plan) :
          /\ plan[i].sponsored = (relayed /\ i \notin Swept(plan, w))
          /\ Len(plan[i].messages) \in Nat \ {0}
          /\ Len(plan[i].messages) <= MaxMessages[w.version]
          /\ plan[i].sponsored => Len(plan[i].messages) <= SponsoredMax
          /\ i \in Swept(plan, w) => plan[i].messages = <<Sweep>>
          /\ i \notin Swept(plan, w) => plan[i].messages[1].kind # "TON"
    /\ \A i, j : Has(plan, i, j) =>
          LET m == plan[i].messages[j] IN
          /\ m.kind = "TON" => i \in Swept(plan, w)
          /\ m.kind = "commission" <=> /\ gas # NoGas /\ plan[i].sponsored
                                       /\ j = Len(plan[i].messages)
          /\ m.kind = "commission" => m.item = gas /\ m.amount = c

LEMMA FinalAlone ==
    ASSUME NEW w \in Wallets, NEW relayed \in BOOLEAN, NEW plan, NEW c,
           Shape(plan, w, relayed, ChunkSize(w, relayed, NoGas))
    PROVE  Final(plan, w, relayed, NoGas, c)
<1> DEFINE n == ChunkSize(w, relayed, NoGas)
<1>1. n \in Nat \ {0} /\ n <= MaxMessages[w.version] /\ (relayed => n <= SponsoredMax)
    <2>1. /\ n \in Nat \ {0} /\ n + 0 <= MaxMessages[w.version]
          /\ relayed => n + 0 <= SponsoredMax
        BY RoomForCommission
    <2> HIDE DEF n
    <2> QED
        BY <2>1
<1>m. MaxMessages[w.version] \in Nat /\ SponsoredMax \in Nat
    BY WalletParts, MigrationAssumption
<1>2. Shape(plan, w, relayed, n)
    OBVIOUS
<1> HIDE DEF n
<1>3. ASSUME NEW i, NEW j, Has(plan, i, j)
      PROVE  /\ i \notin Swept(plan, w) => plan[i].messages[j].kind \in {"nft", "jetton"}
             /\ i \in Swept(plan, w) => plan[i].messages[j].kind = "TON"
    <2>1. i \notin Swept(plan, w) => plan[i].messages[j].kind \in {"nft", "jetton"}
        BY <1>2, <1>3 DEF Shape
    <2>2. i \in Swept(plan, w) => plan[i].messages = <<Sweep>>
        BY <1>2, <1>3 DEF Shape, Has
    <2>3. \A k \in 1..Len(<<Sweep>>) : <<Sweep>>[k].kind = "TON"
        BY DEF Sweep
    <2> QED
        BY <1>3, <2>1, <2>2, <2>3 DEF Has
<1>4. ASSUME NEW i \in 1..Len(plan)
      PROVE  /\ plan[i].sponsored = (relayed /\ i \notin Swept(plan, w))
             /\ Len(plan[i].messages) \in Nat \ {0}
             /\ Len(plan[i].messages) <= MaxMessages[w.version]
             /\ plan[i].sponsored => Len(plan[i].messages) <= SponsoredMax
             /\ i \in Swept(plan, w) => plan[i].messages = <<Sweep>>
             /\ i \notin Swept(plan, w) => plan[i].messages[1].kind # "TON"
    <2>1. /\ plan[i].sponsored = (relayed /\ i \notin Swept(plan, w))
          /\ Len(plan[i].messages) \in 1..n
          /\ i \in Swept(plan, w) => plan[i].messages = <<Sweep>>
        BY <1>2 DEF Shape
    <2>2. Has(plan, i, 1)
        BY <1>1, <2>1 DEF Has
    <2> QED
        BY <1>1, <1>m, <1>3, <2>1, <2>2
<1> QED
    BY <1>2, <1>3, <1>4 DEF Final, Shape

\* With a commission a batch is one message longer.
Priced(with, plan, gas, c) ==
    /\ Len(with) = Len(plan)
    /\ \A i \in 1..Len(plan) :
          /\ with[i].sponsored = plan[i].sponsored
          /\ Len(with[i].messages) =
                Len(plan[i].messages) + IF plan[i].sponsored THEN 1 ELSE 0
          /\ \A j \in 1..Len(plan[i].messages) :
                with[i].messages[j] = plan[i].messages[j]
          /\ plan[i].sponsored => with[i].messages[Len(plan[i].messages) + 1] =
                [kind |-> "commission", item |-> gas, amount |-> c]
          /\ ~plan[i].sponsored => with[i].messages = plan[i].messages

LEMMA WithCommissionParts ==
    ASSUME NEW w, NEW plan \in Seq(Batches(w)), NEW gas \in {NoGas, GasJetton}, NEW c \in Int,
           NEW with, with = WithCommission(plan, gas, c)
    PROVE  with \in Seq(Batches(w)) /\ Priced(with, plan, gas, c)
<1> DEFINE M == Messages(w)
           B == Batches(w)
           msg == [kind |-> "commission", item |-> gas, amount |-> c]
           one(b) == IF b.sponsored THEN Batch(Append(b.messages, msg), TRUE) ELSE b
<1>1. msg \in M
    BY DEF Messages
<1>2. B = [messages : Seq(M), sponsored : BOOLEAN]
    BY DEF Batches
<1>3. plan \in Seq(B) /\ with = [i \in DOMAIN plan |-> one(plan[i])]
    BY DEF WithCommission
<1> HIDE DEF M, B, msg
<1>4. ASSUME NEW b \in B
      PROVE  /\ one(b) \in B
             /\ one(b).sponsored = b.sponsored
             /\ Len(b.messages) \in Nat
             /\ Len(one(b).messages) = Len(b.messages) + IF b.sponsored THEN 1 ELSE 0
             /\ \A j \in 1..Len(b.messages) : one(b).messages[j] = b.messages[j]
             /\ b.sponsored => one(b).messages[Len(b.messages) + 1] = msg
             /\ ~b.sponsored => one(b).messages = b.messages
    <2>1. b.messages \in Seq(M) /\ b.sponsored \in BOOLEAN
        BY <1>2
    <2>2. CASE b.sponsored
        <3> DEFINE m == b.messages
                   o == Append(m, msg)
        <3>1. one(b) = [messages |-> o, sponsored |-> TRUE]
            BY <2>2 DEF Batch
        <3>2. m \in Seq(M)
            BY <2>1
        <3> HIDE DEF m
        <3>3. /\ o \in Seq(M) /\ Len(m) \in Nat /\ Len(o) = Len(m) + 1
              /\ \A j \in 1..Len(m) : o[j] = m[j]
              /\ o[Len(m) + 1] = msg
            BY <1>1, <3>2
        <3> HIDE DEF o
        <3>4. one(b).messages = o /\ one(b).sponsored = TRUE
            <4> HIDE DEF one
            <4> QED
                BY <3>1
        <3>5. one(b) \in B
            <4> HIDE DEF one
            <4> QED
                BY <1>2, <3>1, <3>3
        <3> HIDE DEF one
        <3> QED
            BY <2>2, <2>1, <3>3, <3>4, <3>5 DEF m
    <2>3. CASE ~b.sponsored
        <3>1. one(b) = b /\ Len(b.messages) \in Nat
            BY <2>1, <2>3
        <3> HIDE DEF one
        <3> QED
            BY <2>1, <2>3, <3>1
    <2> QED
        BY <2>1, <2>2, <2>3
<1> HIDE DEF one
<1>5. DOMAIN plan = 1..Len(plan) /\ Len(plan) \in Nat /\ \A i \in 1..Len(plan) : plan[i] \in B
    BY <1>3
<1>6. \A i \in 1..Len(plan) : with[i] = one(plan[i])
    BY <1>3, <1>5
<1>7. with \in [1..Len(plan) -> B]
    BY <1>3, <1>4, <1>5
<1>8. with \in Seq(B) /\ Len(with) = Len(plan)
    BY <1>5, <1>7
<1>9. ASSUME NEW i \in 1..Len(plan)
      PROVE  /\ with[i].sponsored = plan[i].sponsored
             /\ Len(with[i].messages) =
                   Len(plan[i].messages) + IF plan[i].sponsored THEN 1 ELSE 0
             /\ \A j \in 1..Len(plan[i].messages) :
                   with[i].messages[j] = plan[i].messages[j]
             /\ plan[i].sponsored => with[i].messages[Len(plan[i].messages) + 1] = msg
             /\ ~plan[i].sponsored => with[i].messages = plan[i].messages
    <2> DEFINE b == plan[i]
               o == one(b)
    <2>1. b \in B /\ with[i] = o
        BY <1>5, <1>6
    <2> HIDE DEF b
    <2>2. /\ o.sponsored = b.sponsored
          /\ Len(o.messages) = Len(b.messages) + IF b.sponsored THEN 1 ELSE 0
          /\ \A j \in 1..Len(b.messages) : o.messages[j] = b.messages[j]
          /\ b.sponsored => o.messages[Len(b.messages) + 1] = msg
          /\ ~b.sponsored => o.messages = b.messages
        BY <1>4, <2>1
    <2> HIDE DEF o
    <2> QED
        BY <2>1, <2>2 DEF b
<1> QED
    BY <1>8, <1>9 DEF Priced, B, msg

LEMMA BatchParts ==
    ASSUME NEW w, NEW plan \in Seq(Batches(w)), NEW i \in 1..Len(plan)
    PROVE  /\ plan[i].messages \in Seq(Messages(w))
           /\ Len(plan[i].messages) \in Nat /\ plan[i].sponsored \in BOOLEAN
<1> DEFINE M == Messages(w)
           b == plan[i]
<1>1. b \in Batches(w)
    OBVIOUS
<1> HIDE DEF M, b
<1>2. b.messages \in Seq(M) /\ b.sponsored \in BOOLEAN
    BY <1>1 DEF Batches, M
<1>3. Len(b.messages) \in Nat
    BY <1>2
<1> QED
    BY <1>2, <1>3 DEF M, b

\* Which message of the longer batches is which.
LEMMA PricedMessage ==
    ASSUME NEW w, NEW plan \in Seq(Batches(w)), NEW gas, NEW c, NEW with,
           Priced(with, plan, gas, c), NEW i, NEW j, Has(with, i, j)
    PROVE  /\ i \in 1..Len(plan) /\ with[i].sponsored = plan[i].sponsored
           /\ Len(plan[i].messages) \in Nat
           /\ \/ /\ Has(plan, i, j) /\ with[i].messages[j] = plan[i].messages[j]
                 /\ plan[i].sponsored => j # Len(with[i].messages)
              \/ /\ plan[i].sponsored /\ j = Len(with[i].messages)
                 /\ with[i].messages[j] =
                       [kind |-> "commission", item |-> gas, amount |-> c]
<1>1. i \in 1..Len(plan) /\ j \in 1..Len(with[i].messages)
    BY DEF Has, Priced
<1>2. Len(plan[i].messages) \in Nat /\ plan[i].sponsored \in BOOLEAN
    BY <1>1, BatchParts
<1>3. /\ with[i].sponsored = plan[i].sponsored
      /\ Len(with[i].messages) = Len(plan[i].messages) + IF plan[i].sponsored THEN 1 ELSE 0
      /\ \A k \in 1..Len(plan[i].messages) : with[i].messages[k] = plan[i].messages[k]
      /\ plan[i].sponsored => with[i].messages[Len(plan[i].messages) + 1] =
            [kind |-> "commission", item |-> gas, amount |-> c]
    BY <1>1 DEF Priced
<1>4. CASE j \in 1..Len(plan[i].messages)
    BY <1>1, <1>2, <1>3, <1>4 DEF Has
<1>5. CASE j \notin 1..Len(plan[i].messages)
    <2>1. plan[i].sponsored /\ j = Len(plan[i].messages) + 1
        <3> DEFINE x == Len(plan[i].messages)
                   y == Len(with[i].messages)
                   s == plan[i].sponsored
        <3>1. /\ x \in Nat /\ s \in BOOLEAN /\ y = x + IF s THEN 1 ELSE 0
              /\ j \in 1..y /\ j \notin 1..x
            BY <1>1, <1>2, <1>3, <1>5
        <3> HIDE DEF x, y, s
        <3>2. y \in Nat /\ (s => y = x + 1) /\ (~s => y = x)
            BY <3>1
        <3>3. s /\ j = x + 1
            BY <3>1, <3>2
        <3> QED
            BY <3>3 DEF x, s
    <2> QED
        BY <1>1, <1>2, <1>3, <2>1
<1> QED
    BY <1>1, <1>2, <1>3, <1>4, <1>5

LEMMA OncePriced ==
    ASSUME NEW w, NEW plan \in Seq(Batches(w)), NEW gas, NEW c, NEW with,
           Priced(with, plan, gas, c), NEW kind \in {"nft", "jetton"}, NEW item, NEW amount,
           Once(plan, kind, item, amount)
    PROVE  Once(with, kind, item, amount)
<1>1. PICK i, j : OnceAt(plan, kind, item, amount, i, j)
    BY DEF Once
<1>2. Has(plan, i, j) /\ i \in 1..Len(plan) /\ j \in 1..Len(plan[i].messages)
    BY <1>1 DEF OnceAt, Has
<1>3. with[i].messages[j] = plan[i].messages[j] /\ Has(with, i, j)
    <2>1. /\ Len(with) = Len(plan)
          /\ Len(with[i].messages) = Len(plan[i].messages) + IF plan[i].sponsored THEN 1 ELSE 0
          /\ with[i].messages[j] = plan[i].messages[j]
        BY <1>2 DEF Priced
    <2> HIDE DEF Priced
    <2>2. Len(plan[i].messages) \in Nat
        BY <1>2, BatchParts
    <2> DEFINE x == Len(plan[i].messages)
               y == Len(with[i].messages)
    <2>3. x \in Nat /\ y \in Nat /\ x <= y
        <3> HIDE DEF x, y
        <3>1. x \in Nat /\ y = x + IF plan[i].sponsored THEN 1 ELSE 0
            BY <2>1, <2>2 DEF x, y
        <3>2. y = x + 1 \/ y = x
            BY <3>1
        <3> QED
            BY <3>1, <3>2
    <2>4. j \in 1..x
        BY <1>2
    <2>5. j \in 1..y
        <3> HIDE DEF x, y
        <3> QED
            BY <2>3, <2>4
    <2> HIDE DEF x, y
    <2> QED
        BY <1>2, <2>1, <2>5 DEF Has, y
<1>4. ASSUME NEW k, NEW l, Has(with, k, l),
             with[k].messages[l].kind = kind, with[k].messages[l].item = item
      PROVE  k = i /\ l = j
    <2> DEFINE priced == [kind |-> "commission", item |-> gas, amount |-> c]
    <2>1. priced.kind # kind
        OBVIOUS
    <2> DEFINE kept == Has(plan, k, l) /\ with[k].messages[l] = plan[k].messages[l]
               m == with[k].messages[l]
    <2>0. kept \/ m = priced
        BY <1>4, PricedMessage
    <2>2. kept
        <3> HIDE DEF kept, priced, m
        <3>1. m.kind = kind
            BY <1>4 DEF m
        <3> QED
            BY <2>0, <2>1, <3>1
    <2> QED
        BY <1>1, <1>4, <2>2 DEF OnceAt
<1>5. OnceAt(with, kind, item, amount, i, j)
    BY <1>1, <1>3, <1>4 DEF OnceAt
<1> QED
    BY <1>5 DEF Once

LEMMA WholePriced ==
    ASSUME NEW w, NEW plan \in Seq(Batches(w)), NEW gas, NEW c, NEW with,
           Priced(with, plan, gas, c), NEW reserve, Whole(plan, w, gas, reserve)
    PROVE  Whole(with, w, gas, reserve)
<1>1. \A x \in w.nfts : Once(with, "nft", x, 1)
    BY OncePriced DEF Whole
<1>2. ASSUME NEW x \in DOMAIN w.jettons
      PROVE  Once(with, "jetton", x, Moving(w, gas, reserve, x))
    <2> DEFINE amount == Moving(w, gas, reserve, x)
    <2>1. Once(plan, "jetton", x, amount)
        BY DEF Whole
    <2> HIDE DEF amount
    <2>2. Once(with, "jetton", x, amount)
        BY <2>1, OncePriced
    <2> QED
        BY <2>2 DEF amount
<1> QED
    BY <1>1, <1>2 DEF Whole

LEMMA FinalPriced ==
    ASSUME NEW w \in Wallets, NEW gas \in {NoGas, GasJetton}, gas # NoGas, NEW c \in Int,
           NEW plan, Shape(plan, w, TRUE, ChunkSize(w, TRUE, gas)),
           NEW with, with \in Seq(Batches(w)), Priced(with, plan, gas, c)
    PROVE  Final(with, w, TRUE, gas, c)
<1> DEFINE n == ChunkSize(w, TRUE, gas)
<1>1. n \in Nat \ {0} /\ n + 1 <= MaxMessages[w.version] /\ n + 1 <= SponsoredMax
    BY RoomForCommission
<1>m. MaxMessages[w.version] \in Nat /\ SponsoredMax \in Nat
    BY WalletParts, MigrationAssumption
<1>2. Shape(plan, w, TRUE, n)
    OBVIOUS
<1> HIDE DEF n
<1>3. plan \in Seq(Batches(w)) /\ Len(with) = Len(plan) /\ Swept(with, w) = Swept(plan, w)
    BY <1>2 DEF Shape, Priced, Swept
<1>4. ASSUME NEW i, NEW j, Has(plan, i, j)
      PROVE  /\ i \notin Swept(plan, w) => plan[i].messages[j].kind \in {"nft", "jetton"}
             /\ i \in Swept(plan, w) => plan[i].messages[j].kind = "TON"
    <2>1. i \notin Swept(plan, w) => plan[i].messages[j].kind \in {"nft", "jetton"}
        BY <1>2, <1>4 DEF Shape
    <2>2. i \in Swept(plan, w) => plan[i].messages = <<Sweep>>
        BY <1>2, <1>4 DEF Shape, Has
    <2>3. \A k \in 1..Len(<<Sweep>>) : <<Sweep>>[k].kind = "TON"
        BY DEF Sweep
    <2> QED
        BY <1>4, <2>1, <2>2, <2>3 DEF Has
<1>5. ASSUME NEW i \in 1..Len(with)
      PROVE  /\ with[i].sponsored = (TRUE /\ i \notin Swept(with, w))
             /\ Len(with[i].messages) \in Nat \ {0}
             /\ Len(with[i].messages) <= MaxMessages[w.version]
             /\ with[i].sponsored => Len(with[i].messages) <= SponsoredMax
             /\ i \in Swept(with, w) => with[i].messages = <<Sweep>>
             /\ i \notin Swept(with, w) => with[i].messages[1].kind # "TON"
    <2>1. /\ plan[i].sponsored = (TRUE /\ i \notin Swept(plan, w))
          /\ Len(plan[i].messages) \in 1..n
          /\ i \in Swept(plan, w) => plan[i].messages = <<Sweep>>
        BY <1>2, <1>3 DEF Shape
    <2>2. /\ with[i].sponsored = plan[i].sponsored
          /\ Len(with[i].messages) = Len(plan[i].messages) + IF plan[i].sponsored THEN 1 ELSE 0
          /\ with[i].messages[1] = plan[i].messages[1]
          /\ ~plan[i].sponsored => with[i].messages = plan[i].messages
        <3>1. 1 \in 1..Len(plan[i].messages) /\ i \in 1..Len(plan)
            BY <1>1, <1>3, <2>1
        <3> QED
            BY <3>1 DEF Priced
    <2>3. Has(plan, i, 1)
        BY <1>1, <1>3, <2>1 DEF Has
    <2>4. i \notin Swept(plan, w) => plan[i].messages[1].kind # "TON"
        BY <1>4, <2>3
    <2>5. /\ Len(with[i].messages) \in Nat \ {0}
          /\ Len(with[i].messages) <= MaxMessages[w.version]
          /\ Len(with[i].messages) <= SponsoredMax
        <3> DEFINE x == Len(plan[i].messages)
                   y == Len(with[i].messages)
        <3>1. x \in 1..n /\ (y = x + 1 \/ y = x)
            BY <2>1, <2>2
        <3> HIDE DEF x, y
        <3>2. /\ y \in Nat \ {0} /\ y <= n + 1
            BY <1>1, <3>1
        <3>3. y <= MaxMessages[w.version] /\ y <= SponsoredMax
            BY <1>1, <1>m, <3>2
        <3> QED
            BY <3>2, <3>3 DEF y
    <2> QED
        BY <1>3, <2>1, <2>2, <2>4, <2>5
<1>6. ASSUME NEW i, NEW j, Has(with, i, j)
      PROVE  LET m == with[i].messages[j] IN
             /\ m.kind = "TON" => i \in Swept(with, w)
             /\ m.kind = "commission" <=> /\ gas # NoGas /\ with[i].sponsored
                                          /\ j = Len(with[i].messages)
             /\ m.kind = "commission" => m.item = gas /\ m.amount = c
    <2> DEFINE priced == [kind |-> "commission", item |-> gas, amount |-> c]
    <2>1. priced.kind = "commission" /\ priced.item = gas /\ priced.amount = c
        OBVIOUS
    <2> HIDE DEF priced
    <2>2. with[i].sponsored = plan[i].sponsored
        BY <1>3, <1>6, PricedMessage
    <2>3. CASE /\ Has(plan, i, j) /\ with[i].messages[j] = plan[i].messages[j]
               /\ plan[i].sponsored => j # Len(with[i].messages)
        <3>1. with[i].messages[j].kind # "commission"
            BY <1>4, <2>3
        <3>2. with[i].messages[j].kind = "TON" => i \in Swept(with, w)
            BY <1>3, <1>4, <2>3
        <3> QED
            BY <2>2, <2>3, <3>1, <3>2
    <2>4. CASE /\ plan[i].sponsored /\ j = Len(with[i].messages)
               /\ with[i].messages[j] = priced
        BY <2>1, <2>2, <2>4
    <2> QED
        BY <1>3, <1>6, <2>3, <2>4, PricedMessage DEF priced
<1>7. Swept(with, w) \subseteq 1..Len(with)
    BY <1>2, <1>3 DEF Shape
<1> QED
    BY <1>5, <1>6, <1>7 DEF Final

\* The places of a plan.
LEMMA PlacesHave ==
    ASSUME NEW w, NEW plan \in Seq(Batches(w)), NEW p
    PROVE  p \in Places(plan) <=>
              \E i, j : p = <<i, j>> /\ Has(plan, i, j)
<1>1. DOMAIN plan = 1..Len(plan)
    OBVIOUS
<1>2. \A i \in 1..Len(plan) : DOMAIN plan[i].messages = 1..Len(plan[i].messages)
    BY BatchParts
<1> QED
    BY <1>1, <1>2 DEF Places, Has

LEMMA PlacesFinite ==
    ASSUME NEW w \in Wallets, NEW relayed, NEW gas, NEW c, NEW plan,
           Final(plan, w, relayed, gas, c), NEW T \in SUBSET Places(plan)
    PROVE  IsFiniteSet(T) /\ Cardinality(T) \in Nat
<1> DEFINE max == MaxMessages[w.version]
           box == (1..Len(plan)) \X (1..max)
<1>1. max \in Nat /\ plan \in Seq(Batches(w)) /\ Len(plan) \in Nat
    BY WalletParts, MigrationAssumption DEF Final
<1> HIDE DEF max
<1>2. IsFiniteSet(1..Len(plan)) /\ IsFiniteSet(1..max)
    <2>1. 1 \in Int /\ Len(plan) \in Int /\ max \in Int
        BY <1>1
    <2> QED
        BY <2>1, FS_Interval
<1>3. IsFiniteSet(box)
    BY <1>2, FS_Product
<1>4. ASSUME NEW p \in Places(plan) PROVE p \in box
    <2>1. PICK i, j : p = <<i, j>> /\ Has(plan, i, j)
        BY <1>1, PlacesHave
    <2>2. Len(plan[i].messages) \in Nat /\ Len(plan[i].messages) <= max
        BY <2>1 DEF Final, Has, max
    <2>3. i \in 1..Len(plan) /\ j \in 1..max
        BY <1>1, <2>1, <2>2 DEF Has
    <2> QED
        BY <2>1, <2>3
<1>5. T \in SUBSET box
    BY <1>4
<1> HIDE DEF box
<1>6. IsFiniteSet(T)
    BY <1>3, <1>5, FS_Subset
<1> QED
    BY <1>6, FS_CardinalityType

\* What the wallet pays itself: nothing when a relay does.
LEMMA MinGram ==
    ASSUME NEW w \in Wallets, NEW relayed \in BOOLEAN, NEW gas, NEW c, NEW plan,
           Final(plan, w, relayed, gas, c)
    PROVE  MinGramRequired(plan) \in Nat /\ (relayed => MinGramRequired(plan) = 0)
<1> DEFINE T == {p \in Places(plan) :
                    ~plan[p[1]].sponsored /\ Message(plan, p).kind # "TON"}
           count == Cardinality(T)
<1>1. count \in Nat
    BY PlacesFinite
<1>2. Gas \in Nat
    BY MigrationAssumption
<1>3. MinGramRequired(plan) = Gas * count
    BY DEF MinGramRequired
<1>4. relayed => count = 0
    <2> SUFFICES ASSUME relayed PROVE T = {}
        BY FS_EmptySet
    <2> SUFFICES ASSUME NEW p \in T PROVE FALSE
        OBVIOUS
    <2>0. plan \in Seq(Batches(w))
        BY DEF Final
    <2>1. PICK i, j : p = <<i, j>> /\ Has(plan, i, j)
        BY <2>0, PlacesHave
    <2>2. p[1] = i /\ p[2] = j
        BY <2>1
    <2>3. ~plan[i].sponsored /\ plan[i].messages[j].kind # "TON"
        BY <2>2 DEF Message
    <2>4. i \in Swept(plan, w) /\ plan[i].messages = <<Sweep>>
        BY <2>1, <2>3 DEF Final, Has
    <2>5. \A k \in 1..Len(<<Sweep>>) : <<Sweep>>[k].kind = "TON"
        BY DEF Sweep
    <2> QED
        BY <2>1, <2>3, <2>4, <2>5 DEF Has
<1> HIDE DEF count
<1>5. Gas * count \in Nat /\ (count = 0 => Gas * count = 0)
    BY <1>1, <1>2
<1> QED
    BY <1>3, <1>4, <1>5

\* Only the sweep has nothing that takes gas.
LEMMA GasFundedCount ==
    ASSUME NEW w \in Wallets, NEW relayed, NEW gas, NEW c, NEW plan,
           Final(plan, w, relayed, gas, c), NEW i \in 1..Len(plan)
    PROVE  /\ GasFunded(plan[i]) \in Nat
           /\ GasFunded(plan[i]) = 0 <=> i \in Swept(plan, w)
<1> DEFINE ms == plan[i].messages
           T == {j \in DOMAIN ms : ms[j].kind # "TON"}
<1>0. plan \in Seq(Batches(w)) /\ GasFunded(plan[i]) = Cardinality(T)
    BY DEF Final, GasFunded
<1>1. DOMAIN ms = 1..Len(ms) /\ Len(ms) \in Nat
    BY <1>0, BatchParts
<1>2. IsFiniteSet(T)
    <2>1. IsFiniteSet(1..Len(ms))
        <3>1. 1 \in Int /\ Len(ms) \in Int
            BY <1>1
        <3> QED
            BY <3>1, FS_Interval
    <2>2. T \in SUBSET (1..Len(ms))
        BY <1>1
    <2> HIDE DEF T
    <2> QED
        BY <2>1, <2>2, FS_Subset
<1>3. i \in Swept(plan, w) => T = {}
    <2>1. i \in Swept(plan, w) => ms = <<Sweep>>
        BY DEF Final
    <2>2. \A k \in 1..Len(<<Sweep>>) : <<Sweep>>[k].kind = "TON"
        BY DEF Sweep
    <2> QED
        BY <1>1, <2>1, <2>2
<1>4. i \notin Swept(plan, w) => T # {}
    <2>1. i \notin Swept(plan, w) => ms[1].kind # "TON"
        BY DEF Final
    <2>2. 1 \in DOMAIN ms
        <3>1. Len(ms) \in Nat \ {0}
            BY DEF Final
        <3> QED
            BY <1>1, <3>1
    <2> QED
        BY <2>1, <2>2
<1> HIDE DEF T, ms
<1> QED
    BY <1>0, <1>2, <1>3, <1>4, FS_EmptySet, FS_CardinalityType

\* Which batches are sponsored does not depend on what is held back.
LEMMA SponsoredIs ==
    ASSUME NEW w, NEW relayed, NEW plan \in Seq(Batches(w)),
           \A i \in 1..Len(plan) :
              plan[i].sponsored = (relayed /\ i \notin Swept(plan, w))
    PROVE  /\ Sponsored(plan) = SponsoredOf(plan, w, relayed)
           /\ IsFiniteSet(Sponsored(plan)) /\ Cardinality(Sponsored(plan)) \in Nat
<1>1. DOMAIN plan = 1..Len(plan) /\ Len(plan) \in Nat
    OBVIOUS
<1>2. Sponsored(plan) = SponsoredOf(plan, w, relayed)
    BY <1>1 DEF Sponsored, SponsoredOf
<1>3. IsFiniteSet(1..Len(plan))
    <2>1. 1 \in Int /\ Len(plan) \in Int
        BY <1>1
    <2> QED
        BY <2>1, FS_Interval
<1>4. Sponsored(plan) \in SUBSET (1..Len(plan))
    BY <1>1 DEF Sponsored
<1>5. IsFiniteSet(Sponsored(plan))
    BY <1>3, <1>4, FS_Subset
<1> QED
    BY <1>2, <1>5, FS_CardinalityType

LEMMA SponsoredSame ==
    ASSUME NEW w \in Wallets, NEW gas, GasOf(w, TRUE, gas), NEW r \in Nat, NEW s \in Nat
    PROVE  /\ Sponsored(Plan(w, TRUE, gas, r)) = Sponsored(Plan(w, TRUE, gas, s))
           /\ Cardinality(Sponsored(Plan(w, TRUE, gas, r))) \in Nat
<1> DEFINE n == ChunkSize(w, TRUE, gas)
           a == Plan(w, TRUE, gas, r)
           b == Plan(w, TRUE, gas, s)
<1>0. a = Plan(w, TRUE, gas, r) /\ b = Plan(w, TRUE, gas, s)
    OBVIOUS
<1> HIDE DEF a, b
<1>a. Shape(a, w, TRUE, n) /\ Len(a) = PlanLen(w, n)
    BY <1>0, PlanParts
<1>b. Shape(b, w, TRUE, n) /\ Len(b) = PlanLen(w, n)
    BY <1>0, PlanParts
<1> HIDE DEF n
<1>1. Shape(a, w, TRUE, n) /\ Shape(b, w, TRUE, n) /\ Len(a) = Len(b)
    BY <1>a, <1>b
<1>2. /\ Sponsored(a) = SponsoredOf(a, w, TRUE) /\ Cardinality(Sponsored(a)) \in Nat
      /\ Sponsored(b) = SponsoredOf(b, w, TRUE)
    BY <1>1, SponsoredIs DEF Shape
<1>3. SponsoredOf(a, w, TRUE) = SponsoredOf(b, w, TRUE)
    BY <1>1 DEF SponsoredOf, Swept
<1> QED
    BY <1>2, <1>3 DEF a, b

\* A relay that is paid in a jetton has that jetton to move.
LEMMA RelaySponsors ==
    ASSUME NEW w \in Wallets, NEW gas, gas # NoGas, GasOf(w, TRUE, gas), NEW reserve \in Nat,
           NEW plan, plan = Plan(w, TRUE, gas, reserve)
    PROVE  Sponsored(plan) # {}
<1> DEFINE n == ChunkSize(w, TRUE, gas)
<1>1. Shape(plan, w, TRUE, n) /\ Whole(plan, w, gas, reserve) /\ gas \in DOMAIN w.jettons
    BY PlanParts DEF GasOf
<1> HIDE DEF n
<1>2. Once(plan, "jetton", gas, Moving(w, gas, reserve, gas))
    BY <1>1 DEF Whole
<1>3. PICK i, j : OnceAt(plan, "jetton", gas, Moving(w, gas, reserve, gas), i, j)
    BY <1>2 DEF Once
<1>4. Has(plan, i, j) /\ plan[i].messages[j].kind = "jetton"
    BY <1>3 DEF OnceAt
<1>5. i \notin Swept(plan, w)
    <2>1. i \in Swept(plan, w) => plan[i].messages = <<Sweep>>
        BY <1>1, <1>4 DEF Shape, Has
    <2>2. \A k \in 1..Len(<<Sweep>>) : <<Sweep>>[k].kind = "TON"
        BY DEF Sweep
    <2> QED
        BY <1>4, <2>1, <2>2 DEF Has
<1>6. i \in SponsoredOf(plan, w, TRUE)
    BY <1>4, <1>5 DEF SponsoredOf, Has
<1>7. Sponsored(plan) = SponsoredOf(plan, w, TRUE)
    BY <1>1, SponsoredIs DEF Shape
<1> QED
    BY <1>6, <1>7

LEMMA SponsoredPriced ==
    ASSUME NEW w, NEW plan \in Seq(Batches(w)), NEW with \in Seq(Batches(w)), NEW gas, NEW c,
           Priced(with, plan, gas, c)
    PROVE  Sponsored(with) = Sponsored(plan)
<1>1. DOMAIN plan = 1..Len(plan) /\ DOMAIN with = 1..Len(with)
    OBVIOUS
<1> QED
    BY <1>1 DEF Priced, Sponsored

-----------------------------------------------------------------------------
(* A request. *)

MigFields == {"pc", "payer", "wallet", "plan", "attempt", "commission", "overfund",
              "emulated", "clock", "required", "at", "txs", "paid", "swept", "overdrawn"}

\* The fields a step names are set, the others stay.
LEMMA SetMigFields ==
    ASSUME NEW fields, DOMAIN mig = MigFields, SetMig(fields)
    PROVE  /\ DOMAIN mig' = MigFields
           /\ \A f \in MigFields :
                mig'[f] = IF f \in DOMAIN fields THEN fields[f] ELSE mig[f]
BY DEF SetMig

\* Before the emulation nothing is signed or paid yet.
TypeInv ==
    /\ DOMAIN mig = MigFields /\ mig.overdrawn = FALSE
    /\ mig.pc \notin {"idle", "error", "short"} =>
          Wallet \in Wallets /\ mig.payer \in {"self", "battery", "gasless"}
    /\ mig.pc \in {"idle", "plan", "estimate", "embed", "fund"} =>
          mig.at = 1 /\ mig.txs = <<>> /\ mig.paid = 0 /\ mig.clock = 0
          /\ mig.swept = 0
    /\ mig.pc \in {"idle", "plan"} => mig.attempt = 0
    /\ mig.commission \in Nat /\ mig.attempt \in Nat

Affords(w, gas, r) == gas \in DOMAIN w.jettons /\ w.jettons[gas] > r

\* The plan a gasless relay is asked about, r of its jetton held back.
Drawn(plan, w, gas, r) ==
    gas # NoGas /\ Affords(w, gas, r) /\ plan = Plan(w, TRUE, gas, r)
Shares(plan) == Cardinality(Sponsored(plan))

\* The plan that is emulated.
Kept(plan, w, relayed, gas, c) ==
    /\ Final(plan, w, relayed, gas, c)
    /\ \E r \in Nat :
          /\ Whole(plan, w, gas, r)
          /\ gas # NoGas => Affords(w, gas, r) /\ c * Shares(plan) <= r
    /\ gas = NoGas => plan = Plan(w, relayed, NoGas, 0)

PlanInv ==
    /\ MigAt("estimate") => \E r \in Nat :
          /\ Drawn(mig.plan, Wallet, GasMaster, r)
          /\ mig.attempt > 0 => r = mig.commission * Shares(mig.plan)
    /\ MigAt("embed") => \E r \in Nat :
          /\ Drawn(mig.plan, Wallet, GasMaster, r)
          /\ mig.commission * Shares(mig.plan) <= r
    /\ mig.pc \in {"fund", "batches", "done", "conflict"} =>
          Kept(mig.plan, Wallet, RelayFunded, GasMaster, mig.commission)

TxsOf(w) == [batch : Batches(w), seqno : Nat, validUntil : Nat]
Signed(txs, w, plan, at, clock) ==
    /\ txs \in Seq(TxsOf(w)) /\ Len(txs) = at - 1
    /\ \A i \in 1..at - 1 :
          /\ txs[i].batch = plan[i] /\ txs[i].seqno = i
          /\ txs[i].validUntil <= clock + Lifetime
          /\ i > 1 => txs[i].validUntil >= txs[i - 1].validUntil
TxsInv ==
    mig.pc \in {"batches", "done", "conflict"} =>
        /\ mig.at \in 1..Len(mig.plan) + 1 /\ mig.clock \in Nat
        /\ Signed(mig.txs, Wallet, mig.plan, mig.at, mig.clock)
        /\ mig.pc # "batches" => mig.at = Len(mig.plan) + 1

\* The sweep was emulated.
SweepDone == Wallet.balance > MinTransferFee /\ mig.at = Len(mig.plan) + 1
MoneyInv ==
    mig.pc \in {"batches", "done", "conflict"} =>
        /\ {mig.paid, mig.emulated, mig.required, mig.swept} \subseteq Int
        /\ mig.overfund \in Nat
        /\ ~SweepDone => mig.emulated = Wallet.balance + mig.overfund - mig.paid
        /\ SweepDone /\ mig.required = 0 => mig.swept = Wallet.balance - mig.paid
        /\ mig.required = 0 => mig.paid <= Wallet.balance
        /\ mig.required # 0 => /\ mig.overfund # 0 /\ mig.required > Wallet.balance
                               /\ mig.required >= mig.paid
        /\ mig.overfund # 0 => ~RelayFunded
        /\ MigAt("done") => mig.required = 0
        /\ MigAt("conflict") => mig.required # 0

MigInv == TypeInv /\ PlanInv /\ TxsInv /\ MoneyInv

LEMMA MigInitHolds == ASSUME MigInit PROVE MigInv
BY DEF MigInit, MigInv, TypeInv, PlanInv, TxsInv, MoneyInv, MigFields, MigAt

LEMMA SameWallet ==
    ASSUME mig'.wallet = mig.wallet, mig'.payer = mig.payer
    PROVE  /\ Wallet' = Wallet /\ RelayFunded' = RelayFunded /\ GasMaster' = GasMaster
           /\ \A r : Builds(r)' <=> Builds(r)
BY DEF Wallet, RelayFunded, GasMaster, Builds

\* Only a relay is paid in a jetton, which the wallet must have.
LEMMA GasIs ==
    ASSUME NEW r \in Nat, Wallet \in Wallets, Builds(r)
    PROVE  /\ GasOf(Wallet, RelayFunded, GasMaster) /\ RelayFunded \in BOOLEAN
           /\ GasMaster # NoGas => RelayFunded = TRUE /\ GasMaster = GasJetton
BY DEF GasOf, GasMaster, RelayFunded, Builds

\* An answer without transactions needs nothing.
LEMMA NothingTold ==
    ASSUME DOMAIN mig' = MigFields, mig'.pc \in {"error", "short"},
           mig'.overdrawn = FALSE, mig'.commission \in Nat, mig'.attempt \in Nat
    PROVE  MigInv'
BY DEF MigInv, TypeInv, PlanInv, TxsInv, MoneyInv, MigAt

LEMMA OnlyPc ==
    ASSUME MigInv, NEW pc \in {"error", "short"}, SetMig([pc |-> pc])
    PROVE  MigInv'
<1>1. DOMAIN mig = MigFields
    BY DEF MigInv, TypeInv
<1>2. DOMAIN [pc |-> pc] = {"pc"}
    OBVIOUS
<1>3. /\ DOMAIN mig' = MigFields /\ mig'.pc = pc /\ mig'.overdrawn = mig.overdrawn
      /\ mig'.commission = mig.commission /\ mig'.attempt = mig.attempt
    BY <1>1, <1>2, SetMigFields DEF MigFields
<1> QED
    BY <1>3, NothingTold DEF MigInv, TypeInv

LEMMA ErrorStep == ASSUME MigInv, Error PROVE MigInv'
BY OnlyPc DEF Error

LEMMA FailStep == ASSUME MigInv, Fail PROVE MigInv'
<1> DEFINE pc == IF mig.required # 0 THEN "short" ELSE "error"
<1>1. pc \in {"error", "short"} /\ SetMig([pc |-> pc])
    BY DEF Fail
<1> HIDE DEF pc
<1> QED
    BY <1>1, OnlyPc

LEMMA AskStep ==
    ASSUME MigInv, NEW payer \in {"self", "battery", "gasless"}, NEW w \in Wallets,
           AskMigration(payer, w)
    PROVE  MigInv'
<1>1. CASE Error
    BY <1>1, ErrorStep
<1>2. CASE SetMig([pc |-> "plan", payer |-> payer, wallet |-> w])
    <2> DEFINE fields == [pc |-> "plan", payer |-> payer, wallet |-> w]
    <2>1. DOMAIN fields = {"pc", "payer", "wallet"} /\ fields.pc = "plan"
          /\ fields.payer = payer /\ fields.wallet = w
        OBVIOUS
    <2>2. SetMig(fields) /\ DOMAIN mig = MigFields
        BY <1>2 DEF MigInv, TypeInv
    <2> HIDE DEF fields
    <2>3. /\ DOMAIN mig' = MigFields /\ mig'.pc = "plan" /\ mig'.payer = payer
          /\ mig'.wallet = w /\ mig'.overdrawn = mig.overdrawn /\ mig'.at = mig.at
          /\ mig'.txs = mig.txs /\ mig'.paid = mig.paid /\ mig'.clock = mig.clock
          /\ mig'.swept = mig.swept
          /\ mig'.attempt = mig.attempt /\ mig'.commission = mig.commission
        BY <2>1, <2>2, SetMigFields DEF MigFields
    <2> QED
        BY <2>3 DEF MigInv, TypeInv, PlanInv, TxsInv, MoneyInv, MigAt, AskMigration, Wallet
<1> QED
    BY <1>1, <1>2 DEF AskMigration

\* A plan with no commission in it.
LEMMA KeptAlone ==
    ASSUME NEW w \in Wallets, NEW relayed \in BOOLEAN, NEW c,
           NEW plan, plan = Plan(w, relayed, NoGas, 0)
    PROVE  Kept(plan, w, relayed, NoGas, c)
<1>1. GasOf(w, relayed, NoGas)
    BY DEF GasOf
<1>3. Shape(plan, w, relayed, ChunkSize(w, relayed, NoGas)) /\ Whole(plan, w, NoGas, 0)
    BY <1>1, PlanParts
<1>4. Final(plan, w, relayed, NoGas, c)
    BY <1>3, FinalAlone
<1> QED
    BY <1>3, <1>4 DEF Kept

PlanStepFields == DOMAIN mig' = MigFields /\ mig'.payer = mig.payer
    /\ mig'.wallet = mig.wallet /\ mig'.overdrawn = mig.overdrawn /\ mig'.at = mig.at
    /\ mig'.txs = mig.txs /\ mig'.paid = mig.paid /\ mig'.clock = mig.clock
    /\ mig'.swept = mig.swept

LEMMA PlanStep == ASSUME MigInv, PrepareMigrationPlan PROVE MigInv'
<1> DEFINE reserve == IF GasMaster = NoGas THEN 0 ELSE 1
           plan == Plan(Wallet, RelayFunded, GasMaster, reserve)
           pc == IF GasMaster = NoGas \/ Sponsored(plan) = {} THEN "fund" ELSE "estimate"
           fields == [plan |-> plan, pc |-> pc]
<1>1. CASE Error
    BY <1>1, ErrorStep
<1>2. CASE Builds(reserve) /\ SetMig(fields)
    <2>1. DOMAIN fields = {"plan", "pc"} /\ fields.plan = plan /\ fields.pc = pc
        OBVIOUS
    <2>2. /\ DOMAIN mig = MigFields /\ mig.pc = "plan" /\ Wallet \in Wallets
          /\ mig.payer \in {"self", "battery", "gasless"}
          /\ mig.at = 1 /\ mig.txs = <<>> /\ mig.paid = 0 /\ mig.clock = 0 /\ mig.swept = 0
          /\ mig.attempt = 0 /\ mig.commission \in Nat /\ mig.overdrawn = FALSE
        BY DEF PrepareMigrationPlan, MigAt, MigInv, TypeInv
    <2> HIDE DEF fields
    <2>3. /\ PlanStepFields /\ mig'.pc = pc /\ mig'.plan = plan
          /\ mig'.attempt = mig.attempt /\ mig'.commission = mig.commission
        BY <1>2, <2>1, <2>2, SetMigFields DEF MigFields, PlanStepFields
    <2>4. /\ Wallet' = Wallet /\ RelayFunded' = RelayFunded /\ GasMaster' = GasMaster
          /\ \A r : Builds(r)' <=> Builds(r)
        BY <2>3, SameWallet DEF PlanStepFields
    <2>r. reserve \in Nat
        OBVIOUS
    <2>5. /\ GasOf(Wallet, RelayFunded, GasMaster) /\ RelayFunded \in BOOLEAN
          /\ GasMaster # NoGas => RelayFunded = TRUE
        BY <1>2, <2>2, <2>r, GasIs
    <2> HIDE DEF pc, plan, reserve
    <2>6. TypeInv'
        <3>1. pc \in {"fund", "estimate"}
            BY DEF pc
        <3> QED
            BY <2>2, <2>3, <2>4, <3>1 DEF TypeInv, PlanStepFields
    <2>7. TxsInv' /\ MoneyInv'
        <3>1. pc \in {"fund", "estimate"}
            BY DEF pc
        <3> QED
            BY <2>3, <3>1 DEF TxsInv, MoneyInv
    <2>8. PlanInv'
        <3>1. CASE GasMaster = NoGas
            <4>1. mig'.pc = "fund" /\ mig'.plan = Plan(Wallet, RelayFunded, NoGas, 0)
                BY <2>3, <3>1 DEF pc, plan, reserve
            <4>2. Kept(mig'.plan, Wallet, RelayFunded, NoGas, mig'.commission)
                BY <2>2, <2>5, <4>1, KeptAlone
            <4> QED
                BY <2>4, <3>1, <4>1, <4>2 DEF PlanInv, MigAt
        <3>2. CASE GasMaster # NoGas
            <4>1. plan = Plan(Wallet, TRUE, GasMaster, reserve)
                BY <2>5, <3>2 DEF plan
            <4>2. Sponsored(plan) # {}
                <5> DEFINE w == Wallet
                           gas == GasMaster
                <5>1. GasOf(w, TRUE, gas) /\ gas # NoGas /\ w \in Wallets
                      /\ plan = Plan(w, TRUE, gas, reserve)
                    BY <2>2, <2>5, <3>2, <4>1
                <5> HIDE DEF w, gas
                <5> QED
                    BY <2>r, <5>1, RelaySponsors
            <4>3. mig'.pc = "estimate"
                BY <2>3, <3>2, <4>2 DEF pc
            <4>4. Drawn(mig'.plan, Wallet', GasMaster', reserve)
                <5>1. Affords(Wallet, GasMaster, reserve)
                    BY <1>2, <3>2 DEF Builds, Affords
                <5> QED
                    BY <2>3, <2>4, <3>2, <4>1, <5>1 DEF Drawn
            <4>5. ~(mig'.attempt > 0)
                BY <2>2, <2>3
            <4> QED
                BY <2>r, <4>3, <4>4, <4>5 DEF PlanInv, MigAt
        <3> QED
            BY <3>1, <3>2
    <2> QED
        BY <2>6, <2>7, <2>8 DEF MigInv
<1> QED
    BY <1>1, <1>2 DEF PrepareMigrationPlan

\* A price asks for its reserve, and a lower one for less.
LEMMA LowerPrice ==
    ASSUME NEW c \in Nat, NEW d \in Nat, c <= d, NEW n \in Nat
    PROVE  c * n <= d * n /\ c * n \in Nat /\ d * n \in Nat
<1>1. d = c + (d - c) /\ d - c \in Nat
    OBVIOUS
<1>2. d * n = c * n + (d - c) * n /\ (d - c) * n \in Nat /\ c * n \in Nat
    BY <1>1
<1> QED
    BY <1>2

LEMMA DrawnShares ==
    ASSUME NEW w \in Wallets, NEW gas \in {NoGas, GasJetton}, NEW r \in Nat, NEW plan,
           Drawn(plan, w, gas, r)
    PROVE  Shares(plan) \in Nat
<1>1. GasOf(w, TRUE, gas) /\ plan = Plan(w, TRUE, gas, r)
    BY DEF Drawn, Affords, GasOf
<1>2. Cardinality(Sponsored(Plan(w, TRUE, gas, r))) \in Nat
    BY <1>1, SponsoredSame
<1> QED
    BY <1>1, <1>2 DEF Shares

LEMMA DrawnAgain ==
    ASSUME NEW w \in Wallets, NEW gas \in {NoGas, GasJetton}, NEW r \in Nat, NEW plan,
           Drawn(plan, w, gas, r),
           NEW s \in Nat, NEW other, Drawn(other, w, gas, s)
    PROVE  Shares(other) = Shares(plan)
<1>1. GasOf(w, TRUE, gas) /\ plan = Plan(w, TRUE, gas, r) /\ other = Plan(w, TRUE, gas, s)
    BY DEF Drawn, Affords, GasOf
<1>2. Sponsored(Plan(w, TRUE, gas, r)) = Sponsored(Plan(w, TRUE, gas, s))
    BY <1>1, SponsoredSame
<1> QED
    BY <1>1, <1>2 DEF Shares

LEMMA EstimateStep == ASSUME MigInv, Estimate PROVE MigInv'
<1>1. CASE Error
    BY <1>1, ErrorStep
<1>2. ASSUME NEW c \in Commissions,
             IF mig.attempt > 0 /\ c <= mig.commission
             THEN SetMig([pc |-> "embed", commission |-> c])
             ELSE /\ mig.attempt < 2
                  /\ Builds(Reserve(c, mig.plan))
                  /\ SetMig([commission |-> c, attempt |-> mig.attempt + 1,
                          plan |-> Plan(Wallet, TRUE, GasMaster, Reserve(c, mig.plan))])
      PROVE  MigInv'
    <2> DEFINE w == Wallet
               gas == GasMaster
    <2>1. /\ DOMAIN mig = MigFields /\ mig.pc = "estimate" /\ w \in Wallets
          /\ mig.payer \in {"self", "battery", "gasless"}
          /\ mig.at = 1 /\ mig.txs = <<>> /\ mig.paid = 0 /\ mig.clock = 0 /\ mig.swept = 0
          /\ mig.attempt \in Nat /\ mig.commission \in Nat /\ mig.overdrawn = FALSE
        BY DEF Estimate, MigAt, MigInv, TypeInv
    <2>2. PICK r \in Nat : /\ Drawn(mig.plan, w, gas, r)
                           /\ mig.attempt > 0 => r = mig.commission * Shares(mig.plan)
        BY <2>1 DEF MigInv, PlanInv, MigAt
    <2>3. gas \in {NoGas, GasJetton} /\ c \in Nat
        BY MigrationAssumption DEF GasMaster
    <2>4. Shares(mig.plan) \in Nat
        BY <2>1, <2>2, <2>3, DrawnShares
    <2>5. CASE mig.attempt > 0 /\ c <= mig.commission
        <3> DEFINE fields == [pc |-> "embed", commission |-> c]
        <3>1. /\ DOMAIN fields = {"pc", "commission"} /\ fields.pc = "embed"
              /\ fields.commission = c /\ SetMig(fields)
            BY <1>2, <2>5
        <3> HIDE DEF fields
        <3>2. /\ PlanStepFields /\ mig'.pc = "embed" /\ mig'.commission = c
              /\ mig'.plan = mig.plan /\ mig'.attempt = mig.attempt
            BY <2>1, <3>1, SetMigFields DEF MigFields, PlanStepFields
        <3>3. Wallet' = w /\ GasMaster' = gas
            BY <3>2, SameWallet DEF PlanStepFields
        <3>4. c * Shares(mig.plan) <= r
            <4> DEFINE n == Shares(mig.plan)
                       d == mig.commission
            <4>1. n \in Nat /\ d \in Nat /\ c <= d /\ r = d * n
                BY <2>1, <2>2, <2>4, <2>5
            <4> HIDE DEF n, d
            <4>2. c * n <= d * n
                BY <2>3, <4>1, LowerPrice
            <4> QED
                BY <4>1, <4>2 DEF n
        <3> HIDE DEF w, gas
        <3>5. PlanInv'
            BY <2>2, <3>2, <3>3, <3>4 DEF PlanInv, MigAt
        <3>6. TypeInv' /\ TxsInv' /\ MoneyInv'
            BY <2>1, <2>3, <3>2, <3>3 DEF TypeInv, TxsInv, MoneyInv, PlanStepFields
        <3> QED
            BY <3>5, <3>6 DEF MigInv
    <2>6. CASE ~(mig.attempt > 0 /\ c <= mig.commission)
        <3> DEFINE s == Reserve(c, mig.plan)
                   plan == Plan(w, TRUE, gas, s)
                   fields == [commission |-> c, attempt |-> mig.attempt + 1, plan |-> plan]
        <3>1. /\ DOMAIN fields = {"commission", "attempt", "plan"} /\ fields.commission = c
              /\ fields.attempt = mig.attempt + 1 /\ fields.plan = plan
              /\ SetMig(fields) /\ Builds(s)
            BY <1>2, <2>6
        <3> HIDE DEF fields
        <3>2. /\ PlanStepFields /\ mig'.pc = mig.pc /\ mig'.commission = c
              /\ mig'.plan = plan /\ mig'.attempt = mig.attempt + 1
            BY <2>1, <3>1, SetMigFields DEF MigFields, PlanStepFields
        <3>3. Wallet' = w /\ GasMaster' = gas
            BY <3>2, SameWallet DEF PlanStepFields
        <3>4. s = c * Shares(mig.plan) /\ s \in Nat
            <4>1. s = c * Shares(mig.plan)
                BY DEF Reserve, Shares
            <4> HIDE DEF s
            <4> QED
                BY <2>3, <2>4, <4>1
        <3>5. Affords(w, gas, s) /\ gas # NoGas
            BY <2>2, <3>1 DEF Builds, Affords, Drawn
        <3> HIDE DEF w, gas, s
        <3>6. Drawn(plan, w, gas, s)
            BY <3>5 DEF Drawn
        <3> HIDE DEF plan
        <3>7. s = c * Shares(plan)
            <4> DEFINE before == mig.plan
            <4>1. w \in Wallets /\ Drawn(before, w, gas, r)
                BY <2>1, <2>2
            <4> HIDE DEF before
            <4>2. Shares(plan) = Shares(before)
                BY <2>3, <3>4, <3>6, <4>1, DrawnAgain
            <4> QED
                BY <3>4, <4>2 DEF before
        <3>8. PlanInv'
            BY <2>1, <3>2, <3>3, <3>4, <3>6, <3>7 DEF PlanInv, MigAt
        <3>9. TypeInv' /\ TxsInv' /\ MoneyInv'
            BY <2>1, <2>3, <3>2, <3>3 DEF TypeInv, TxsInv, MoneyInv, PlanStepFields
        <3> QED
            BY <3>8, <3>9 DEF MigInv
    <2> QED
        BY <2>5, <2>6
<1> QED
    BY <1>1, <1>2 DEF Estimate

LEMMA KeptPriced ==
    ASSUME NEW w \in Wallets, NEW gas \in {NoGas, GasJetton}, NEW c \in Nat, NEW r \in Nat,
           NEW base, Drawn(base, w, gas, r), c * Shares(base) <= r,
           NEW plan, plan = WithCommission(base, gas, c)
    PROVE  Kept(plan, w, TRUE, gas, c)
<1>1. /\ GasOf(w, TRUE, gas) /\ gas # NoGas /\ Affords(w, gas, r)
      /\ base = Plan(w, TRUE, gas, r)
    BY DEF Drawn, Affords, GasOf
<1>2. Shape(base, w, TRUE, ChunkSize(w, TRUE, gas)) /\ Whole(base, w, gas, r)
    BY <1>1, PlanParts
<1>3. base \in Seq(Batches(w)) /\ c \in Int
    BY <1>2 DEF Shape
<1>4. plan \in Seq(Batches(w)) /\ Priced(plan, base, gas, c)
    BY <1>3, WithCommissionParts
<1>5. Final(plan, w, TRUE, gas, c)
    BY <1>1, <1>2, <1>3, <1>4, FinalPriced
<1>6. Whole(plan, w, gas, r)
    BY <1>2, <1>3, <1>4, WholePriced
<1>7. Shares(plan) = Shares(base)
    BY <1>3, <1>4, SponsoredPriced DEF Shares
<1> QED
    BY <1>1, <1>5, <1>6, <1>7 DEF Kept

LEMMA EmbedStep == ASSUME MigInv, EmbedCommission PROVE MigInv'
<1> DEFINE w == Wallet
           gas == GasMaster
           plan == WithCommission(mig.plan, gas, mig.commission)
           fields == [pc |-> "fund", plan |-> plan]
<1>1. CASE Error
    BY <1>1, ErrorStep
<1>2. CASE SetMig(fields)
    <2>1. /\ DOMAIN mig = MigFields /\ mig.pc = "embed" /\ w \in Wallets
          /\ mig.payer \in {"self", "battery", "gasless"}
          /\ mig.at = 1 /\ mig.txs = <<>> /\ mig.paid = 0 /\ mig.clock = 0 /\ mig.swept = 0
          /\ mig.attempt \in Nat /\ mig.commission \in Nat /\ mig.overdrawn = FALSE
        BY DEF EmbedCommission, MigAt, MigInv, TypeInv
    <2>2. PICK r \in Nat : /\ Drawn(mig.plan, w, gas, r)
                           /\ mig.commission * Shares(mig.plan) <= r
        BY <2>1 DEF MigInv, PlanInv, MigAt
    <2>3. DOMAIN fields = {"pc", "plan"} /\ fields.pc = "fund" /\ fields.plan = plan
        OBVIOUS
    <2> HIDE DEF fields
    <2>4. /\ PlanStepFields /\ mig'.pc = "fund" /\ mig'.commission = mig.commission
          /\ mig'.plan = plan /\ mig'.attempt = mig.attempt
        BY <1>2, <2>1, <2>3, SetMigFields DEF MigFields, PlanStepFields
    <2>5. Wallet' = w /\ GasMaster' = gas /\ RelayFunded' = RelayFunded
        BY <2>4, SameWallet DEF PlanStepFields
    <2>6. gas \in {NoGas, GasJetton} /\ RelayFunded = TRUE
        BY <2>2 DEF GasMaster, RelayFunded, Drawn
    <2>7. Kept(plan, w, TRUE, gas, mig.commission)
        <3> DEFINE base == mig.plan
                   c == mig.commission
        <3>1. c \in Nat /\ Drawn(base, w, gas, r) /\ c * Shares(base) <= r
              /\ plan = WithCommission(base, gas, c)
            BY <2>1, <2>2
        <3> HIDE DEF base, c, plan, w, gas
        <3>2. Kept(plan, w, TRUE, gas, c)
            BY <2>1, <2>6, <3>1, KeptPriced
        <3> QED
            BY <3>2 DEF c
    <2> HIDE DEF plan, w, gas
    <2>8. PlanInv'
        BY <2>4, <2>5, <2>6, <2>7 DEF PlanInv, MigAt
    <2>9. TypeInv' /\ TxsInv' /\ MoneyInv'
        BY <2>1, <2>4, <2>5 DEF TypeInv, TxsInv, MoneyInv, PlanStepFields
    <2> QED
        BY <2>8, <2>9 DEF MigInv
<1> QED
    BY <1>1, <1>2 DEF EmbedCommission

LEMMA KeptFinal ==
    ASSUME NEW plan, NEW w \in Wallets, NEW relayed, NEW gas, NEW c,
           Kept(plan, w, relayed, gas, c)
    PROVE  /\ Final(plan, w, relayed, gas, c) /\ plan \in Seq(Batches(w))
           /\ Len(plan) \in Nat /\ w.balance \in Nat
           /\ w.balance > MinTransferFee => Len(plan) \in 1..Len(plan)
<1>1. Final(plan, w, relayed, gas, c) /\ plan \in Seq(Batches(w))
    BY DEF Kept, Final
<1>2. Len(plan) \in Nat /\ w.balance \in Nat
    BY <1>1, WalletParts
<1>3. w.balance > MinTransferFee => Len(plan) \in 1..Len(plan)
    BY <1>1 DEF Final, Swept
<1> QED
    BY <1>1, <1>2, <1>3

LEMMA FundStep == ASSUME MigInv, Fund PROVE MigInv'
<1> DEFINE w == Wallet
           min == MinGramRequired(mig.plan)
           overfund == IF min # 0 /\ w.exists THEN min + Margin ELSE 0
           required == Worse(0, min)
           pc == IF required # 0 /\ overfund = 0 THEN "short" ELSE "batches"
           fields == [pc |-> pc, overfund |-> overfund, required |-> required,
                      emulated |-> w.balance + overfund]
<1>1. SetMig(fields) /\ mig.pc = "fund"
    BY DEF Fund, MigAt
<1>2. /\ DOMAIN mig = MigFields /\ w \in Wallets
      /\ mig.payer \in {"self", "battery", "gasless"}
      /\ mig.at = 1 /\ mig.txs = <<>> /\ mig.paid = 0 /\ mig.clock = 0 /\ mig.swept = 0
      /\ mig.attempt \in Nat /\ mig.commission \in Nat /\ mig.overdrawn = FALSE
      /\ Kept(mig.plan, w, RelayFunded, GasMaster, mig.commission)
    BY <1>1 DEF MigInv, TypeInv, PlanInv
<1>3. /\ DOMAIN fields = {"pc", "overfund", "required", "emulated"} /\ fields.pc = pc
      /\ fields.overfund = overfund /\ fields.required = required
      /\ fields.emulated = w.balance + overfund
    OBVIOUS
<1> HIDE DEF fields
<1>4. /\ PlanStepFields /\ mig'.pc = pc /\ mig'.commission = mig.commission
      /\ mig'.plan = mig.plan /\ mig'.attempt = mig.attempt
      /\ mig'.overfund = overfund /\ mig'.required = required
      /\ mig'.emulated = w.balance + overfund
    BY <1>1, <1>2, <1>3, SetMigFields DEF MigFields, PlanStepFields
<1>5. Wallet' = w /\ GasMaster' = GasMaster /\ RelayFunded' = RelayFunded
    BY <1>4, SameWallet DEF PlanStepFields
<1>6. RelayFunded \in BOOLEAN
    BY DEF RelayFunded
<1>7. /\ Final(mig.plan, w, RelayFunded, GasMaster, mig.commission)
      /\ Len(mig.plan) \in Nat /\ w.balance \in Nat
      /\ w.balance > MinTransferFee => Len(mig.plan) \in 1..Len(mig.plan)
    <2> DEFINE plan == mig.plan
               relayed == RelayFunded
               gas == GasMaster
               c == mig.commission
    <2>1. w \in Wallets /\ Kept(plan, w, relayed, gas, c)
        BY <1>2
    <2> HIDE DEF w, plan, relayed, gas, c
    <2>2. /\ Final(plan, w, relayed, gas, c)
          /\ Len(plan) \in Nat /\ w.balance \in Nat
          /\ w.balance > MinTransferFee => Len(plan) \in 1..Len(plan)
        BY <2>1, KeptFinal
    <2> QED
        BY <2>2 DEF w, plan, relayed, gas, c
<1>8. min \in Nat /\ (RelayFunded => min = 0)
    <2> DEFINE plan == mig.plan
               relayed == RelayFunded
               gas == GasMaster
               c == mig.commission
    <2>1. w \in Wallets /\ Final(plan, w, relayed, gas, c) /\ relayed \in BOOLEAN
        BY <1>2, <1>6, <1>7
    <2> HIDE DEF w, plan, relayed, gas, c
    <2>2. MinGramRequired(plan) \in Nat /\ (relayed => MinGramRequired(plan) = 0)
        BY <2>1, MinGram
    <2> QED
        BY <2>2 DEF plan, relayed
<1>9. Margin \in Nat
    BY MigrationAssumption
<1> HIDE DEF min
<1>10. /\ overfund \in Nat /\ required \in Int
       /\ required # 0 => required > w.balance
       /\ overfund # 0 => ~RelayFunded
    <2>1. required = IF min > w.balance /\ min > 0 THEN min ELSE 0
        BY DEF Worse
    <2> HIDE DEF required
    <2> QED
        BY <1>7, <1>8, <1>9, <2>1
<1> HIDE DEF overfund, required
<1>11. pc = "short" \/ (pc = "batches" /\ (required # 0 => overfund # 0))
    BY DEF pc
<1> HIDE DEF pc
<1>12. CASE pc = "short"
    BY <1>2, <1>4, <1>12, NothingTold DEF PlanStepFields
<1>13. CASE pc = "batches" /\ (required # 0 => overfund # 0)
    <2>1. TypeInv'
        BY <1>2, <1>4, <1>5, <1>13 DEF TypeInv, PlanStepFields
    <2>2. PlanInv'
        BY <1>2, <1>4, <1>5, <1>13 DEF PlanInv, MigAt
    <2>3. TxsInv'
        <3>1. <<>> \in Seq(TxsOf(w)) /\ Len(<<>>) = 1 - 1 /\ 1..1 - 1 = {}
            OBVIOUS
        <3>2. Signed(<<>>, w, mig.plan, 1, 0)
            BY <3>1 DEF Signed
        <3>3. /\ mig'.at = 1 /\ mig'.clock = 0 /\ mig'.txs = <<>> /\ mig'.plan = mig.plan
              /\ 1 \in 1..Len(mig.plan) + 1
            BY <1>2, <1>4, <1>7 DEF PlanStepFields
        <3> HIDE DEF w
        <3> QED
            BY <1>4, <1>5, <1>13, <3>2, <3>3 DEF TxsInv
    <2>4. MoneyInv'
        <3>1. ~SweepDone'
            <4>1. mig'.at = 1 /\ mig'.plan = mig.plan /\ Wallet' = w
                BY <1>2, <1>4, <1>5 DEF PlanStepFields
            <4> QED
                BY <1>7, <4>1 DEF SweepDone
        <3>2. mig'.paid = 0 /\ mig'.swept = 0
            BY <1>2, <1>4 DEF PlanStepFields
        <3>3. /\ {mig'.paid, mig'.emulated, mig'.required, mig'.swept} \subseteq Int
              /\ mig'.overfund \in Nat
              /\ mig'.emulated = w.balance + mig'.overfund - mig'.paid
              /\ mig'.paid <= w.balance
            BY <1>4, <1>7, <1>10, <3>2
        <3>4. mig'.required # 0 => /\ mig'.overfund # 0 /\ mig'.required > w.balance
                                   /\ mig'.required >= mig'.paid
            BY <1>4, <1>7, <1>10, <1>13, <3>2
        <3>5. mig'.overfund # 0 => ~RelayFunded'
            BY <1>4, <1>5, <1>10
        <3> HIDE DEF w
        <3> QED
            BY <1>4, <1>5, <1>13, <3>1, <3>3, <3>4, <3>5 DEF MoneyInv, MigAt
    <2> QED
        BY <2>1, <2>2, <2>3, <2>4 DEF MigInv
<1> QED
    BY <1>11, <1>12, <1>13

LEMMA ConcludeStep == ASSUME MigInv, Conclude PROVE MigInv'
<1> DEFINE pc == IF mig.required # 0 THEN "conflict" ELSE "done"
           fields == [pc |-> pc]
<1>1. SetMig(fields) /\ mig.pc = "batches" /\ mig.at > Len(mig.plan)
    BY DEF Conclude, MigAt
<1>2. DOMAIN mig = MigFields /\ DOMAIN fields = {"pc"} /\ fields.pc = pc
    BY DEF MigInv, TypeInv
<1> HIDE DEF fields
<1>3. /\ PlanStepFields /\ mig'.pc = pc /\ mig'.commission = mig.commission
      /\ mig'.plan = mig.plan /\ mig'.attempt = mig.attempt
      /\ mig'.overfund = mig.overfund /\ mig'.required = mig.required
      /\ mig'.emulated = mig.emulated
    BY <1>1, <1>2, SetMigFields DEF MigFields, PlanStepFields
<1>4. /\ Wallet' = Wallet /\ GasMaster' = GasMaster /\ RelayFunded' = RelayFunded
     
    BY <1>3, SameWallet DEF PlanStepFields
<1>5. pc \in {"conflict", "done"} /\ (pc = "conflict" <=> mig.required # 0)
    OBVIOUS
<1> HIDE DEF pc
<1>6. TypeInv' /\ PlanInv'
    BY <1>1, <1>3, <1>4, <1>5 DEF MigInv, TypeInv, PlanInv, PlanStepFields, MigAt
<1>7. TxsInv'
    <2>1. TxsInv /\ mig.pc = "batches"
        BY <1>1 DEF MigInv
    <2>2. mig.at = Len(mig.plan) + 1
        <3>1. mig.at \in 1..Len(mig.plan) + 1
            BY <2>1 DEF TxsInv
        <3>2. Len(mig.plan) \in Nat
            <4>1. Kept(mig.plan, Wallet, RelayFunded, GasMaster, mig.commission)
                BY <1>1 DEF MigInv, PlanInv
            <4>2. mig.plan \in Seq(Batches(Wallet))
                BY <4>1 DEF Kept, Final
            <4> QED
                BY <4>2
        <3> QED
            BY <1>1, <3>1, <3>2
    <2> QED
        BY <1>3, <1>4, <2>1, <2>2 DEF TxsInv, PlanStepFields
<1>8. MoneyInv'
    <2>1. MoneyInv /\ mig.pc = "batches"
        BY <1>1 DEF MigInv
    <2>2. SweepDone' = SweepDone
        BY <1>3, <1>4 DEF SweepDone, PlanStepFields
    <2> QED
        BY <1>3, <1>4, <1>5, <2>1, <2>2 DEF MoneyInv, PlanStepFields, MigAt
<1> QED
    BY <1>6, <1>7, <1>8 DEF MigInv

\* What the wallet pays, where it does not get more than it needs.
Costs(cost, grams) == cost \in Int /\ cost <= grams

Funds(balance, over, paid, required) ==
    /\ required = 0 => paid <= balance
    /\ required # 0 => over # 0 /\ required > balance /\ required >= paid
Spends(balance, over, paid, required, grams, cost, spent, after) ==
    /\ Costs(cost, grams) /\ grams = balance + over - paid
    /\ spent = balance + over - (grams - cost)
    /\ after = IF over # 0
               THEN IF spent > balance /\ spent > required THEN spent ELSE required
               ELSE required

\* A transaction that is not the sweep is paid for, or shows what it takes.
LEMMA PaidUp ==
    ASSUME NEW balance \in Nat, NEW over \in Nat, NEW paid \in Int, NEW required \in Int,
           NEW grams \in Int, NEW cost, NEW spent, NEW after,
           Funds(balance, over, paid, required),
           Spends(balance, over, paid, required, grams, cost, spent, after)
    PROVE  /\ grams - cost = balance + over - (paid + cost) /\ after \in Int
           /\ Funds(balance, over, paid + cost, after)
<1>1. cost \in Int /\ cost <= grams /\ grams = balance + over - paid
    BY DEF Costs, Spends
<1>2. spent = paid + cost
    BY <1>1 DEF Spends
<1> QED
    BY <1>1, <1>2 DEF Funds, Spends

\* A transaction is added to those of the answer.
LEMMA TxsGrow ==
    ASSUME NEW w, NEW txs, NEW at \in Nat \ {0}, NEW plan \in Seq(Batches(w)),
           at <= Len(plan), NEW clock \in Nat, NEW took \in Nat,
           Signed(txs, w, plan, at, clock),
           NEW more, more = Append(txs, [batch |-> plan[at], seqno |-> at,
                                         validUntil |-> clock + Lifetime]),
           NEW next, next = at + 1, NEW later, later = clock + took
    PROVE  Signed(more, w, plan, next, later)
<1>0. /\ txs \in Seq(TxsOf(w)) /\ Len(txs) = at - 1
      /\ \A i \in 1..at - 1 :
            /\ txs[i].batch = plan[i] /\ txs[i].seqno = i
            /\ txs[i].validUntil <= clock + Lifetime
            /\ i > 1 => txs[i].validUntil >= txs[i - 1].validUntil
    BY DEF Signed
<1> DEFINE t == [batch |-> plan[at], seqno |-> at, validUntil |-> clock + Lifetime]
           B == Batches(w)
<1>1. Lifetime \in Nat
    BY MigrationAssumption
<1>2. plan[at] \in B /\ clock + Lifetime \in Nat
    BY <1>1
<1> HIDE DEF B
<1>3. t \in TxsOf(w)
    BY <1>2 DEF B, TxsOf
<1>4. t.batch = plan[at] /\ t.seqno = at /\ t.validUntil = clock + Lifetime
    OBVIOUS
<1> HIDE DEF t
<1>5. /\ more \in Seq(TxsOf(w)) /\ Len(more) = at /\ more[at] = t
      /\ \A i \in 1..at - 1 : more[i] = txs[i]
    BY <1>0, <1>3 DEF t
<1>6. ASSUME NEW i \in 1..at - 1 PROVE txs[i].validUntil \in Nat
    <2>1. txs[i] \in TxsOf(w)
        BY <1>0
    <2>2. txs[i] \in [batch : B, seqno : Nat, validUntil : Nat]
        BY <2>1 DEF B, TxsOf
    <2> QED
        BY <2>2
<1>7. ASSUME NEW i \in 1..at
      PROVE  /\ more[i].batch = plan[i] /\ more[i].seqno = i
             /\ more[i].validUntil <= later + Lifetime
             /\ i > 1 => more[i].validUntil >= more[i - 1].validUntil
    <2>1. CASE i = at
        <3>1. more[i].batch = plan[i] /\ more[i].seqno = i
              /\ more[i].validUntil = clock + Lifetime
            BY <1>4, <1>5, <2>1
        <3>2. i > 1 => i - 1 \in 1..at - 1 /\ more[i - 1].validUntil <= clock + Lifetime
            BY <1>0, <1>5, <2>1
        <3>3. clock + Lifetime <= later + Lifetime
            BY <1>1
        <3>4. more[i].validUntil <= later + Lifetime
            BY <3>1, <3>3
        <3>5. i > 1 => more[i].validUntil >= more[i - 1].validUntil
            BY <3>1, <3>2
        <3> QED
            BY <3>1, <3>4, <3>5
    <2>2. CASE i # at
        <3>1. i \in 1..at - 1 /\ (i > 1 => i - 1 \in 1..at - 1)
            BY <2>2
        <3>2. txs[i].validUntil \in Nat /\ txs[i].validUntil <= clock + Lifetime
            BY <1>0, <1>6, <3>1
        <3>3. txs[i].validUntil <= later + Lifetime
            BY <1>1, <3>2
        <3> QED
            BY <1>0, <1>5, <3>1, <3>3
    <2> QED
        BY <2>1, <2>2
<1>8. next - 1 = at
    OBVIOUS
<1> QED
    BY <1>5, <1>7, <1>8 DEF Signed

\* What the source has for the transaction: the over-funding is taken back before
\* the sweep.
Grams(batch, grams, overfund) ==
    \/ /\ ~TakesBack(batch) /\ grams = mig.emulated /\ overfund = mig.overfund
    \/ /\ TakesBack(batch) /\ grams = mig.emulated - mig.overfund /\ overfund = 0

LEMMA EmulateOnStep ==
    ASSUME MigInv, mig.pc = "batches", mig.at <= Len(mig.plan),
           NEW batch, batch = mig.plan[mig.at], NEW grams, NEW overfund,
           Grams(batch, grams, overfund), EmulateOn(batch, grams, overfund)
    PROVE  MigInv'
<1> DEFINE w == Wallet
           plan == mig.plan
           at == mig.at
           sweep == GasFunded(batch) = 0
<1>1. /\ DOMAIN mig = MigFields /\ w \in Wallets /\ TypeInv /\ TxsInv /\ MoneyInv /\ PlanInv
      /\ Kept(plan, w, RelayFunded, GasMaster, mig.commission)
    BY DEF MigInv, TypeInv, PlanInv
<1>2. /\ Final(plan, w, RelayFunded, GasMaster, mig.commission) /\ plan \in Seq(Batches(w))
      /\ Len(plan) \in Nat /\ w.balance \in Nat
    <2> DEFINE relayed == RelayFunded
               gas == GasMaster
               c == mig.commission
    <2>1. w \in Wallets /\ Kept(plan, w, relayed, gas, c)
        BY <1>1
    <2> HIDE DEF w, plan, relayed, gas, c
    <2>2. /\ Final(plan, w, relayed, gas, c) /\ plan \in Seq(Batches(w))
          /\ Len(plan) \in Nat /\ w.balance \in Nat
        BY <2>1, KeptFinal
    <2> QED
        BY <2>2 DEF relayed, gas, c
<1>3. at \in 1..Len(plan)
    <2>1. at \in 1..Len(plan) + 1 /\ at <= Len(plan)
        BY <1>1 DEF TxsInv
    <2> HIDE DEF at, plan
    <2> QED
        BY <1>2, <2>1
<1>4. /\ GasFunded(batch) \in Nat
      /\ sweep <=> (w.balance > MinTransferFee /\ at = Len(plan))
    <2> DEFINE relayed == RelayFunded
               gas == GasMaster
               c == mig.commission
    <2>1. Final(plan, w, relayed, gas, c) /\ batch = plan[at]
        BY <1>2
    <2> HIDE DEF w, plan, at, relayed, gas, c
    <2>2. /\ GasFunded(plan[at]) \in Nat
          /\ GasFunded(plan[at]) = 0 <=> at \in Swept(plan, w)
        BY <1>1, <1>3, <2>1, GasFundedCount
    <2> QED
        BY <2>1, <2>2 DEF Swept
<1>5. PICK fee \in Fees, back \in Returns, took \in {0, 1} :
        LET needs == IF batch.sponsored THEN fee - Gas ELSE Attached(batch) + fee
            cost == IF sweep THEN grams ELSE IF batch.sponsored THEN needs ELSE needs - back
            spent == Wallet.balance + mig.overfund - (grams - cost)
        IN IF ~sweep /\ needs > grams
           THEN Fail
           ELSE SetMig([emulated |-> grams - cost, overfund |-> overfund,
                     required |-> IF overfund # 0 /\ ~sweep
                                  THEN Worse(mig.required, spent) ELSE mig.required,
                     paid |-> IF sweep THEN mig.paid ELSE mig.paid + cost,
                     swept |-> IF sweep THEN grams ELSE mig.swept,
                     txs |-> Append(mig.txs, Transaction(batch, mig.clock)),
                     clock |-> mig.clock + took, at |-> mig.at + 1])
    BY DEF EmulateOn
<1> DEFINE needs == IF batch.sponsored THEN fee - Gas ELSE Attached(batch) + fee
           cost == IF sweep THEN grams ELSE IF batch.sponsored THEN needs ELSE needs - back
           spent == w.balance + mig.overfund - (grams - cost)
           required == IF overfund # 0 /\ ~sweep THEN Worse(mig.required, spent)
                       ELSE mig.required
           paid == IF sweep THEN mig.paid ELSE mig.paid + cost
           swept == IF sweep THEN grams ELSE mig.swept
           txs == Append(mig.txs, Transaction(batch, mig.clock))
           fields == [emulated |-> grams - cost, overfund |-> overfund,
                      required |-> required, paid |-> paid, swept |-> swept, txs |-> txs,
                      clock |-> mig.clock + took, at |-> at + 1]
<1>6. CASE ~sweep /\ needs > grams
    <2>1. Fail
        BY <1>5, <1>6
    <2> QED
        BY <2>1, FailStep
<1>7. CASE ~(~sweep /\ needs > grams)
    <2>1. SetMig(fields)
        BY <1>5, <1>7
    <2>2. /\ DOMAIN fields = {"emulated", "overfund", "required", "paid", "swept", "txs",
                              "clock", "at"}
          /\ fields.emulated = grams - cost /\ fields.overfund = overfund
          /\ fields.required = required /\ fields.paid = paid /\ fields.swept = swept
          /\ fields.txs = txs /\ fields.clock = mig.clock + took /\ fields.at = at + 1
        OBVIOUS
    <2> HIDE DEF fields
    <2>3. /\ DOMAIN mig' = MigFields /\ mig'.pc = mig.pc /\ mig'.payer = mig.payer
          /\ mig'.wallet = mig.wallet /\ mig'.plan = plan /\ mig'.attempt = mig.attempt
          /\ mig'.commission = mig.commission /\ mig'.overdrawn = mig.overdrawn
          /\ mig'.emulated = grams - cost /\ mig'.overfund = overfund
          /\ mig'.required = required /\ mig'.paid = paid /\ mig'.swept = swept
          /\ mig'.txs = txs /\ mig'.clock = mig.clock + took /\ mig'.at = at + 1
        <3> HIDE DEF needs, cost, spent, required, paid, swept, txs, at
        <3> QED
            BY <1>1, <2>1, <2>2, SetMigFields DEF MigFields
    <2>4. Wallet' = w /\ GasMaster' = GasMaster /\ RelayFunded' = RelayFunded
        BY <2>3, SameWallet
    <2>5. TypeInv'
        BY <1>1, <2>3, <2>4 DEF TypeInv
    <2>6. PlanInv'
        BY <1>1, <2>3, <2>4 DEF PlanInv, MigAt
    <2>7. TxsInv'
        <3> DEFINE clock == mig.clock
                   old == mig.txs
        <3>1. clock \in Nat /\ Signed(old, w, plan, at, clock)
            BY <1>1 DEF TxsInv
        <3>2. txs = Append(old, [batch |-> plan[at], seqno |-> at,
                                 validUntil |-> clock + Lifetime])
            BY DEF Transaction
        <3>3. at \in Nat \ {0} /\ at <= Len(plan) /\ took \in Nat
            BY <1>2, <1>3
        <3> HIDE DEF clock, old, txs, plan, at, w
        <3>4. Signed(txs, w, plan, at + 1, clock + took)
            BY <1>2, <3>1, <3>2, <3>3, TxsGrow
        <3>5. mig'.clock = clock + took /\ clock + took \in Nat /\ mig'.txs = txs
              /\ mig'.at = at + 1 /\ mig'.plan = plan /\ mig'.pc = "batches"
            BY <2>3, <3>1, <3>3 DEF clock
        <3>6. at + 1 \in 1..Len(plan) + 1
            BY <1>2, <3>3
        <3> QED
            BY <2>4, <3>4, <3>5, <3>6 DEF TxsInv
    <2>8. MoneyInv'
        <3>1. ~SweepDone
            BY <1>2, <1>3 DEF SweepDone
        <3>2. /\ mig.paid \in Int /\ mig.emulated \in Int /\ mig.required \in Int
              /\ mig.swept \in Int /\ mig.overfund \in Nat
              /\ mig.emulated = w.balance + mig.overfund - mig.paid
              /\ mig.required = 0 => mig.paid <= w.balance
              /\ mig.required # 0 => /\ mig.overfund # 0 /\ mig.required > w.balance
                                     /\ mig.required >= mig.paid
              /\ mig.overfund # 0 => ~RelayFunded
            BY <1>1, <3>1 DEF MoneyInv
        <3>3. SweepDone' <=> sweep
            <4>1. mig'.at = Len(mig'.plan) + 1 <=> at = Len(plan)
                BY <1>2, <1>3, <2>3
            <4> QED
                BY <1>4, <2>3, <2>4, <4>1 DEF SweepDone
        <3>4. CASE sweep
            <4>1. cost = grams /\ paid = mig.paid /\ swept = grams /\ required = mig.required
                BY <3>4
            <4>2. TakesBack(batch) <=> mig.overfund # 0 /\ mig.required = 0
                BY <3>4 DEF TakesBack
            <4> HIDE DEF cost, paid, swept, required, sweep, w, plan, at
            <4>3. /\ grams \in Int /\ overfund \in Nat
                  /\ mig.required = 0 => grams = w.balance - mig.paid
                  /\ mig.required # 0 => overfund # 0
                  /\ overfund # 0 => ~RelayFunded
                <5>1. CASE TakesBack(batch)
                    <6>1. grams = mig.emulated - mig.overfund /\ overfund = 0
                        BY <5>1 DEF Grams
                    <6>2. mig.required = 0
                        BY <4>2, <5>1
                    <6> QED
                        BY <1>2, <3>2, <6>1, <6>2
                <5>2. CASE ~TakesBack(batch)
                    <6>1. grams = mig.emulated /\ overfund = mig.overfund
                        BY <5>2 DEF Grams
                    <6>2. mig.required = 0 => mig.overfund = 0
                        BY <4>2, <5>2
                    <6> QED
                        BY <1>2, <3>2, <6>1, <6>2
                <5> QED
                    BY <5>1, <5>2
            <4>4. mig'.emulated \in Int
                BY <2>3, <4>1, <4>3
            <4> QED
                BY <2>3, <2>4, <3>2, <3>3, <3>4, <4>1, <4>3, <4>4 DEF MoneyInv, MigAt
        <3>5. CASE ~sweep
            <4>1. grams = mig.emulated /\ overfund = mig.overfund
                BY <3>5 DEF Grams, TakesBack
            <4>2. /\ paid = mig.paid + cost /\ swept = mig.swept
                  /\ required = IF overfund # 0
                                THEN IF spent > w.balance /\ spent > mig.required
                                     THEN spent ELSE mig.required
                                ELSE mig.required
                BY <3>5 DEF Worse
            <4>3. Costs(cost, grams)
                <5>1. fee \in Nat /\ back \in Nat /\ Gas \in Nat
                    BY MigrationAssumption
                <5>2. Attached(batch) \in Nat
                    <6> DEFINE n == GasFunded(batch)
                    <6>1. Attached(batch) = IF batch.sponsored THEN 0 ELSE Gas * n
                        BY DEF Attached
                    <6>2. n \in Nat
                        BY <1>4
                    <6> HIDE DEF n
                    <6>3. Gas * n \in Nat
                        BY <5>1, <6>2
                    <6> QED
                        BY <6>1, <6>3
                <5>3. needs \in Int /\ needs <= grams /\ grams \in Int
                    BY <1>7, <3>2, <3>5, <4>1, <5>1, <5>2
                <5>4. cost = needs \/ cost = needs - back
                    BY <3>5
                <5> HIDE DEF needs, cost
                <5> QED
                    BY <5>1, <5>3, <5>4 DEF Costs
            <4>4. spent = w.balance + mig.overfund - (grams - cost)
                OBVIOUS
            <4> HIDE DEF cost, paid, swept, required, spent, needs, w, plan, at, sweep
            <4> DEFINE over == mig.overfund
                       paid0 == mig.paid
                       required0 == mig.required
            <4>5. /\ over \in Nat /\ paid0 \in Int /\ required0 \in Int /\ grams \in Int
                  /\ w.balance \in Nat /\ grams = w.balance + over - paid0
                  /\ required0 = 0 => paid0 <= w.balance
                  /\ required0 # 0 => over # 0 /\ required0 > w.balance /\ required0 >= paid0
                  /\ spent = w.balance + over - (grams - cost)
                  /\ required = IF over # 0
                                THEN IF spent > w.balance /\ spent > required0
                                     THEN spent ELSE required0
                                ELSE required0
                BY <1>2, <3>2, <4>1, <4>2, <4>4
            <4> DEFINE balance == w.balance
            <4> HIDE DEF over, paid0, required0, balance
            <4>a. /\ Funds(balance, over, paid0, required0)
                  /\ Spends(balance, over, paid0, required0, grams, cost, spent, required)
                BY <4>3, <4>5 DEF Funds, Spends, balance
            <4>b. /\ grams - cost = balance + over - (paid0 + cost) /\ required \in Int
                  /\ Funds(balance, over, paid0 + cost, required)
                <5>1. balance \in Nat
                    BY <4>5 DEF balance
                <5> QED
                    BY <4>5, <4>a, <5>1, PaidUp
            <4>6. /\ grams - cost = balance + over - (paid0 + cost) /\ required \in Int
                  /\ required = 0 => paid0 + cost <= balance
                  /\ required # 0 => /\ over # 0 /\ required > balance
                                     /\ required >= paid0 + cost
                BY <4>b DEF Funds
            <4>7. cost \in Int /\ paid = paid0 + cost /\ swept \in Int
                BY <3>2, <4>2, <4>3 DEF Costs, paid0
            <4>8. /\ mig'.paid = paid0 + cost /\ mig'.swept \in Int /\ mig'.required = required
                  /\ mig'.overfund = over /\ mig'.emulated = grams - cost
                BY <2>3, <4>1, <4>7 DEF over
            <4>9. /\ {mig'.paid, mig'.emulated, mig'.required, mig'.swept} \subseteq Int
                BY <4>5, <4>6, <4>7, <4>8
            <4>10. over # 0 => ~RelayFunded
                BY <3>2 DEF over
            <4> QED
                BY <2>3, <2>4, <3>3, <3>5, <4>5, <4>6, <4>8, <4>9, <4>10
                   DEF MoneyInv, MigAt, balance
        <3> QED
            BY <3>4, <3>5
    <2> QED
        BY <2>5, <2>6, <2>7, <2>8 DEF MigInv
<1> QED
    BY <1>6, <1>7

LEMMA EmulateStep == ASSUME MigInv, EmulateBatch PROVE MigInv'
<1> DEFINE batch == mig.plan[mig.at]
<1>1. /\ mig.pc = "batches" /\ mig.at <= Len(mig.plan)
      /\ \/ Fail
         \/ IF ~TakesBack(batch) THEN EmulateOn(batch, mig.emulated, mig.overfund)
            ELSE IF mig.emulated < mig.overfund
            THEN SetMig([pc |-> "error", overdrawn |-> TRUE])
            ELSE EmulateOn(batch, mig.emulated - mig.overfund, 0)
    BY DEF EmulateBatch, MigAt
<1>2. batch = mig.plan[mig.at]
    OBVIOUS
<1> HIDE DEF batch
<1>3. CASE Fail
    BY <1>3, FailStep
<1>4. CASE ~TakesBack(batch) /\ EmulateOn(batch, mig.emulated, mig.overfund)
    <2> DEFINE grams == mig.emulated
               overfund == mig.overfund
    <2>1. Grams(batch, grams, overfund)
        BY <1>4 DEF Grams
    <2>2. EmulateOn(batch, grams, overfund)
        BY <1>4
    <2> HIDE DEF grams, overfund
    <2> QED
        BY <1>1, <1>2, <2>1, <2>2, EmulateOnStep
<1>5. CASE ~Fail /\ TakesBack(batch)
    <2>1. /\ mig.overfund # 0 /\ GasFunded(batch) = 0 /\ mig.required = 0
        BY <1>5 DEF TakesBack
    <2>2. mig.emulated >= mig.overfund
        <3>0. Wallet \in Wallets /\ mig.plan \in Seq(Batches(Wallet))
            BY <1>1 DEF MigInv, TypeInv, PlanInv, Kept, Final
        <3>1. Wallet.balance \in Nat /\ Len(mig.plan) \in Nat
            BY <3>0, WalletParts
        <3>2. ~SweepDone
            <4>1. mig.at \in 1..Len(mig.plan) + 1
                BY <1>1 DEF MigInv, TxsInv
            <4> QED
                BY <1>1, <3>1, <4>1 DEF SweepDone
        <3>3. /\ mig.emulated = Wallet.balance + mig.overfund - mig.paid
              /\ mig.paid <= Wallet.balance /\ mig.paid \in Int /\ mig.overfund \in Nat
            BY <1>1, <2>1, <3>2 DEF MigInv, MoneyInv
        <3> QED
            BY <3>1, <3>3
    <2>3. mig.emulated \in Int /\ mig.overfund \in Int
        BY <1>1 DEF MigInv, MoneyInv
    <2>n. ~(mig.emulated < mig.overfund)
        BY <2>2, <2>3
    <2>4. EmulateOn(batch, mig.emulated - mig.overfund, 0)
        BY <1>1, <1>5, <2>n
    <2> DEFINE grams == mig.emulated - mig.overfund
    <2>5. Grams(batch, grams, 0)
        BY <1>5 DEF Grams
    <2>6. EmulateOn(batch, grams, 0)
        BY <2>4
    <2> HIDE DEF grams
    <2> QED
        BY <1>1, <1>2, <2>5, <2>6, EmulateOnStep
<1>6. Fail \/ (~TakesBack(batch) /\ EmulateOn(batch, mig.emulated, mig.overfund))
      \/ (~Fail /\ TakesBack(batch))
    BY <1>1
<1> QED
    BY <1>3, <1>4, <1>5, <1>6

LEMMA MigStep == ASSUME MigInv, [MigNext]_mig PROVE MigInv'
<1>1. CASE PrepareMigrationPlan
    BY <1>1, PlanStep
<1>2. CASE Estimate
    BY <1>2, EstimateStep
<1>3. CASE EmbedCommission
    BY <1>3, EmbedStep
<1>4. CASE Fund
    BY <1>4, FundStep
<1>5. CASE EmulateBatch
    BY <1>5, EmulateStep
<1>6. CASE Conclude
    BY <1>6, ConcludeStep
<1>7. ASSUME NEW payer \in {"self", "battery", "gasless"}, NEW w \in Wallets,
             AskMigration(payer, w)
      PROVE  MigInv'
    BY <1>7, AskStep
<1>8. CASE UNCHANGED mig
    BY <1>8 DEF MigInv, TypeInv, PlanInv, TxsInv, MoneyInv, MigAt, Wallet, RelayFunded,
       GasMaster, SweepDone
<1> QED
    BY <1>1, <1>2, <1>3, <1>4, <1>5, <1>6, <1>7, <1>8 DEF MigNext, PrepareMigration

\* The state of every request.
THEOREM MigInvHolds == MigSpec => []MigInv
BY MigInitHolds, MigStep, PTL DEF MigSpec

-----------------------------------------------------------------------------
(* What an answer with transactions shows. *)

\* Where something is moved.
MovedIn(plan, kind, item) ==
    {p \in Places(plan) : Message(plan, p).kind = kind /\ Message(plan, p).item = item}

LEMMA MovedHas ==
    ASSUME NEW w, NEW plan \in Seq(Batches(w)), NEW kind, NEW item, NEW p
    PROVE  p \in MovedIn(plan, kind, item) <=>
              \E i, j : /\ p = <<i, j>> /\ Has(plan, i, j)
                        /\ plan[i].messages[j].kind = kind
                        /\ plan[i].messages[j].item = item
<1>1. p \in Places(plan) <=> \E i, j : p = <<i, j>> /\ Has(plan, i, j)
    BY PlacesHave
<1>2. \A i, j : p = <<i, j>> => Message(plan, p) = plan[i].messages[j]
    BY DEF Message
<1> QED
    BY <1>1, <1>2 DEF MovedIn

LEMMA MovedOnce ==
    ASSUME NEW w, NEW plan \in Seq(Batches(w)), NEW kind, NEW item, NEW amount,
           Once(plan, kind, item, amount)
    PROVE  /\ Cardinality(MovedIn(plan, kind, item)) = 1
           /\ \A p \in MovedIn(plan, kind, item) : Message(plan, p).amount = amount
<1>1. PICK i, j : OnceAt(plan, kind, item, amount, i, j)
    BY DEF Once
<1>2. /\ Has(plan, i, j) /\ plan[i].messages[j].kind = kind
      /\ plan[i].messages[j].item = item /\ plan[i].messages[j].amount = amount
    BY <1>1 DEF OnceAt
<1>3. ASSUME NEW p PROVE p \in MovedIn(plan, kind, item) <=> p = <<i, j>>
    <2>1. CASE p = <<i, j>>
        <3>1. p \in MovedIn(plan, kind, item)
            BY <1>2, <2>1, MovedHas
        <3> QED
            BY <2>1, <3>1
    <2>2. CASE p \in MovedIn(plan, kind, item)
        <3>1. PICK k, l : /\ p = <<k, l>> /\ Has(plan, k, l)
                          /\ plan[k].messages[l].kind = kind
                          /\ plan[k].messages[l].item = item
            BY <2>2, MovedHas
        <3>2. k = i /\ l = j
            BY <1>1, <3>1 DEF OnceAt
        <3> QED
            BY <2>2, <3>1, <3>2
    <2> QED
        BY <2>1, <2>2
<1>4. MovedIn(plan, kind, item) = {<<i, j>>}
    BY <1>3
<1>5. Message(plan, <<i, j>>) = plan[i].messages[j]
    BY DEF Message
<1> QED
    BY <1>2, <1>4, <1>5, FS_Singleton

EndsOf(plan, batches) == {<<i, Len(plan[i].messages)>> : i \in batches}

\* The sweep is last, and a commission at the end of each sponsored transaction.
LEMMA SweptLast ==
    ASSUME NEW w \in Wallets, NEW relayed, NEW gas, NEW c, NEW plan,
           Final(plan, w, relayed, gas, c)
    PROVE  MovedIn(plan, "TON", NoGas) = IF w.balance > MinTransferFee
                                         THEN EndsOf(plan, {Len(plan)}) ELSE {}
<1>0. plan \in Seq(Batches(w))
    BY DEF Final
<1>1. <<Sweep>>[1] = Sweep /\ Len(<<Sweep>>) = 1 /\ Sweep.kind = "TON" /\ Sweep.item = NoGas
    BY DEF Sweep
<1>2. ASSUME NEW i \in Swept(plan, w)
      PROVE  /\ i \in 1..Len(plan) /\ Len(plan[i].messages) = 1
             /\ plan[i].messages[1].kind = "TON" /\ plan[i].messages[1].item = NoGas
    <2>1. i \in 1..Len(plan) /\ plan[i].messages = <<Sweep>>
        BY DEF Final
    <2> QED
        BY <1>1, <2>1
<1>3. ASSUME NEW p PROVE p \in MovedIn(plan, "TON", NoGas) <=>
                            \E i \in Swept(plan, w) : p = <<i, Len(plan[i].messages)>>
    <2>1. ASSUME p \in MovedIn(plan, "TON", NoGas)
          PROVE  \E i \in Swept(plan, w) : p = <<i, Len(plan[i].messages)>>
        <3>1. PICK i, j : /\ p = <<i, j>> /\ Has(plan, i, j)
                          /\ plan[i].messages[j].kind = "TON"
            BY <1>0, <2>1, MovedHas
        <3>2. i \in Swept(plan, w)
            BY <3>1 DEF Final
        <3>3. j = 1 /\ Len(plan[i].messages) = 1
            BY <1>2, <3>1, <3>2 DEF Has
        <3> QED
            BY <3>1, <3>2, <3>3
    <2>2. ASSUME NEW i \in Swept(plan, w), p = <<i, Len(plan[i].messages)>>
          PROVE  p \in MovedIn(plan, "TON", NoGas)
        <3>1. p = <<i, 1>> /\ Has(plan, i, 1)
            BY <1>2, <2>2 DEF Has
        <3>2. plan[i].messages[1].kind = "TON" /\ plan[i].messages[1].item = NoGas
            BY <1>2
        <3> QED
            BY <1>0, <3>1, <3>2, MovedHas
    <2> QED
        BY <2>1, <2>2
<1>4. MovedIn(plan, "TON", NoGas) = EndsOf(plan, Swept(plan, w))
    BY <1>3 DEF EndsOf
<1>5. EndsOf(plan, {}) = {}
    BY DEF EndsOf
<1> QED
    BY <1>4, <1>5 DEF Swept

LEMMA CommissionLast ==
    ASSUME NEW w \in Wallets, NEW relayed, NEW gas, NEW c, NEW plan,
           Final(plan, w, relayed, gas, c)
    PROVE  /\ MovedIn(plan, "commission", gas) =
                 IF gas = NoGas THEN {} ELSE EndsOf(plan, Sponsored(plan))
           /\ \A p \in MovedIn(plan, "commission", gas) : Message(plan, p).amount = c
<1>0. plan \in Seq(Batches(w)) /\ DOMAIN plan = 1..Len(plan)
    BY DEF Final
<1>1. ASSUME NEW i, NEW j, Has(plan, i, j)
      PROVE  /\ plan[i].messages[j].kind = "commission" <=>
                   /\ gas # NoGas /\ plan[i].sponsored
                   /\ j = Len(plan[i].messages)
             /\ plan[i].messages[j].kind = "commission" =>
                   plan[i].messages[j].item = gas /\ plan[i].messages[j].amount = c
    BY <1>1 DEF Final
<1>2. \A i \in 1..Len(plan) : Has(plan, i, Len(plan[i].messages))
    BY DEF Final, Has
<1>3. ASSUME NEW p PROVE p \in MovedIn(plan, "commission", gas) <=>
          gas # NoGas /\ \E i \in Sponsored(plan) : p = <<i, Len(plan[i].messages)>>
    <2>1. ASSUME p \in MovedIn(plan, "commission", gas)
          PROVE  gas # NoGas /\ \E i \in Sponsored(plan) : p = <<i, Len(plan[i].messages)>>
        <3>1. PICK i, j : /\ p = <<i, j>> /\ Has(plan, i, j)
                          /\ plan[i].messages[j].kind = "commission"
            BY <1>0, <2>1, MovedHas
        <3>2. gas # NoGas /\ plan[i].sponsored /\ j = Len(plan[i].messages)
            BY <1>1, <3>1
        <3>3. i \in Sponsored(plan)
            BY <1>0, <3>1, <3>2 DEF Sponsored, Has
        <3> QED
            BY <3>1, <3>2, <3>3
    <2>2. ASSUME gas # NoGas, NEW i \in Sponsored(plan), p = <<i, Len(plan[i].messages)>>
          PROVE  p \in MovedIn(plan, "commission", gas)
        <3> DEFINE j == Len(plan[i].messages)
        <3>1. i \in 1..Len(plan) /\ plan[i].sponsored
            BY <1>0 DEF Sponsored
        <3>2. p = <<i, j>> /\ Has(plan, i, j)
            BY <1>2, <2>2, <3>1
        <3>3. plan[i].messages[j].kind = "commission" /\ plan[i].messages[j].item = gas
            BY <1>1, <2>2, <3>1, <3>2
        <3> HIDE DEF j
        <3> QED
            BY <1>0, <3>2, <3>3, MovedHas
    <2> QED
        BY <2>1, <2>2
<1>4. MovedIn(plan, "commission", gas) =
          IF gas = NoGas THEN {} ELSE EndsOf(plan, Sponsored(plan))
    BY <1>3 DEF EndsOf
<1>5. ASSUME NEW p \in MovedIn(plan, "commission", gas) PROVE Message(plan, p).amount = c
    <2>1. PICK i, j : /\ p = <<i, j>> /\ Has(plan, i, j)
                      /\ plan[i].messages[j].kind = "commission"
        BY <1>0, MovedHas
    <2>2. Message(plan, p) = plan[i].messages[j]
        BY <2>1 DEF Message
    <2> QED
        BY <1>1, <2>1, <2>2
<1> QED
    BY <1>4, <1>5
\* The transactions of a whole plan are its batches.
LEMMA AnsweredIs ==
    ASSUME NEW w, mig.plan \in Seq(Batches(w)),
           Signed(mig.txs, w, mig.plan, Len(mig.plan) + 1, mig.clock)
    PROVE  Answered = mig.plan /\ DOMAIN mig.txs = 1..Len(mig.plan)
           /\ Len(mig.txs) = Len(mig.plan)
<1>1. Len(mig.plan) \in Nat /\ mig.plan = [i \in 1..Len(mig.plan) |-> mig.plan[i]]
    OBVIOUS
<1>2. Len(mig.txs) = Len(mig.plan) /\ mig.txs \in Seq(TxsOf(w))
    BY <1>1 DEF Signed
<1>3. DOMAIN mig.txs = 1..Len(mig.plan)
    BY <1>2
<1>4. \A i \in 1..Len(mig.plan) : mig.txs[i].batch = mig.plan[i]
    BY <1>1 DEF Signed
<1>5. Answered = [i \in 1..Len(mig.plan) |-> mig.plan[i]]
    BY <1>3, <1>4 DEF Answered
<1> QED
    BY <1>1, <1>2, <1>3, <1>5

\* Without a relay that is paid in a jetton the plan depends on the balance only by
\* whether it is swept.
LEMMA SamePlan ==
    ASSUME NEW w, NEW relayed, w.balance > MinTransferFee, NEW more, more > MinTransferFee,
           NEW rich, rich = [w EXCEPT !.balance = more], w \in Wallets
    PROVE  Plan(rich, relayed, NoGas, 0) = Plan(w, relayed, NoGas, 0)
<1>1. /\ rich.nfts = w.nfts /\ rich.jettons = w.jettons /\ rich.version = w.version
      /\ rich.balance = more
    BY DEF Wallets
<1>2. NftTransfers(rich) = NftTransfers(w) /\ JettonTransfers(rich, NoGas, 0) = JettonTransfers(w, NoGas, 0)
    BY <1>1 DEF NftTransfers, JettonTransfers, JettonTransfer
<1>3. ChunkSize(rich, relayed, NoGas) = ChunkSize(w, relayed, NoGas)
    BY <1>1 DEF ChunkSize
<1> QED
    BY <1>1, <1>2, <1>3 DEF Plan

\* Each transaction fits the wallet and the relay, and expires no earlier than the
\* one before it.
LEMMA TxsFit ==
    ASSUME NEW w, NEW relayed, NEW gas, NEW c, NEW plan, Final(plan, w, relayed, gas, c),
           NEW txs, NEW clock, Len(plan) \in Nat, Signed(txs, w, plan, Len(plan) + 1, clock),
           NEW i \in 1..Len(plan)
    PROVE  /\ txs[i].seqno = i
           /\ Len(txs[i].batch.messages) <= MaxMessages[w.version]
           /\ txs[i].batch.sponsored => Len(txs[i].batch.messages) <= SponsoredMax
           /\ i > 1 => txs[i].validUntil >= txs[i - 1].validUntil
<1>1. /\ txs[i].batch = plan[i] /\ txs[i].seqno = i
      /\ i > 1 => txs[i].validUntil >= txs[i - 1].validUntil
    BY DEF Signed
<1> QED
    BY <1>1 DEF Final

TellsPlan(pc) == pc \in {"done", "conflict"}

LEMMA AnswerIs ==
    ASSUME MigInv, TellsPlan(mig.pc)
    PROVE  /\ Wallet \in Wallets
           /\ Kept(mig.plan, Wallet, RelayFunded, GasMaster, mig.commission)
           /\ Final(mig.plan, Wallet, RelayFunded, GasMaster, mig.commission)
           /\ mig.plan \in Seq(Batches(Wallet)) /\ Len(mig.plan) \in Nat
           /\ Wallet.balance \in Nat
           /\ mig.at = Len(mig.plan) + 1
           /\ Signed(mig.txs, Wallet, mig.plan, Len(mig.plan) + 1, mig.clock)
           /\ Answered = mig.plan /\ DOMAIN mig.txs = 1..Len(mig.plan)
           /\ Len(mig.txs) = Len(mig.plan)
<1>1. /\ Wallet \in Wallets
      /\ Kept(mig.plan, Wallet, RelayFunded, GasMaster, mig.commission)
    BY DEF MigInv, TypeInv, PlanInv, TellsPlan
<1>2. Final(mig.plan, Wallet, RelayFunded, GasMaster, mig.commission)
    BY <1>1 DEF Kept
<1>3. mig.plan \in Seq(Batches(Wallet))
    BY <1>2 DEF Final
<1>4. Len(mig.plan) \in Nat /\ Wallet.balance \in Nat
    BY <1>1, <1>3, WalletParts
<1>5. mig.at = Len(mig.plan) + 1 /\ Signed(mig.txs, Wallet, mig.plan, mig.at, mig.clock)
    BY DEF MigInv, TxsInv, TellsPlan
<1>6. Signed(mig.txs, Wallet, mig.plan, Len(mig.plan) + 1, mig.clock)
    BY <1>5
<1>7. /\ Answered = mig.plan /\ DOMAIN mig.txs = 1..Len(mig.plan)
      /\ Len(mig.txs) = Len(mig.plan)
    BY <1>3, <1>6, AnsweredIs
<1> QED
    BY <1>1, <1>2, <1>3, <1>4, <1>5, <1>6, <1>7

\* What is moved in an answer is what is moved in the plan.
LEMMA MovedIs ==
    ASSUME Answered = mig.plan, NEW kind, NEW item
    PROVE  Moved(kind, item) = MovedIn(mig.plan, kind, item)
BY DEF Moved, MovedIn

LEMMA PlanFits == ASSUME MigInv PROVE WholePlanFits
<1> SUFFICES ASSUME TellsPlan(mig.pc) PROVE WholePlanFits
    BY DEF WholePlanFits, TellsPlan, MigAt
<1>1. /\ Wallet \in Wallets
      /\ Kept(mig.plan, Wallet, RelayFunded, GasMaster, mig.commission)
      /\ Final(mig.plan, Wallet, RelayFunded, GasMaster, mig.commission)
      /\ mig.plan \in Seq(Batches(Wallet)) /\ Len(mig.plan) \in Nat
      /\ Wallet.balance \in Nat
      /\ mig.at = Len(mig.plan) + 1
      /\ Signed(mig.txs, Wallet, mig.plan, Len(mig.plan) + 1, mig.clock)
      /\ Answered = mig.plan /\ DOMAIN mig.txs = 1..Len(mig.plan)
      /\ Len(mig.txs) = Len(mig.plan)
    BY AnswerIs
<1> DEFINE w == Wallet
           plan == mig.plan
           relayed == RelayFunded
           gas == GasMaster
           c == mig.commission
           txs == mig.txs
           clock == mig.clock
<1>2. /\ w \in Wallets /\ Kept(plan, w, relayed, gas, c) /\ Final(plan, w, relayed, gas, c)
      /\ plan \in Seq(Batches(w)) /\ Len(plan) \in Nat
      /\ Signed(txs, w, plan, Len(plan) + 1, clock)
    BY <1>1
<1>3. \A kind, item : Moved(kind, item) = MovedIn(plan, kind, item)
    BY <1>1, MovedIs
<1> HIDE DEF w, plan, relayed, gas, c, txs, clock
<1>5. PICK r \in Nat : Whole(plan, w, gas, r)
    BY <1>2 DEF Kept
<1>6. \A x \in w.nfts : Cardinality(MovedIn(plan, "nft", x)) = 1
    <2>1. \A x \in w.nfts : Once(plan, "nft", x, 1)
        BY <1>5 DEF Whole
    <2> QED
        BY <1>2, <2>1, MovedOnce
<1>7. \A j \in DOMAIN w.jettons : Cardinality(MovedIn(plan, "jetton", j)) = 1
    <2>1. \A j \in DOMAIN w.jettons : Once(plan, "jetton", j, Moving(w, gas, r, j))
        BY <1>5 DEF Whole
    <2> TAKE j \in DOMAIN w.jettons
    <2> DEFINE moving == Moving(w, gas, r, j)
    <2>2. Once(plan, "jetton", j, moving)
        BY <2>1
    <2> HIDE DEF moving
    <2> QED
        BY <1>2, <2>2, MovedOnce
<1>8. MovedIn(plan, "TON", NoGas) = IF w.balance > MinTransferFee
                                    THEN EndsOf(plan, {Len(plan)}) ELSE {}
    BY <1>2, SweptLast
<1>9. MovedIn(plan, "commission", gas) = IF gas = NoGas THEN {} ELSE EndsOf(plan, Sponsored(plan))
    BY <1>2, CommissionLast
<1>10. \A i \in 1..Len(plan) :
          /\ txs[i].seqno = i
          /\ Len(txs[i].batch.messages) <= MaxMessages[w.version]
          /\ txs[i].batch.sponsored => Len(txs[i].batch.messages) <= SponsoredMax
          /\ i > 1 => txs[i].validUntil >= txs[i - 1].validUntil
    BY <1>2, TxsFit
<1>11. \A b : Ends(b) = EndsOf(Answered, b)
    BY DEF Ends, EndsOf
<1>12. ASSUME mig.pc = "conflict", Wallet.balance > MinTransferFee
       PROVE  Answered = Plan([Wallet EXCEPT !.balance = mig.required],
                              RelayFunded, GasMaster, 0)
    <2>1. mig.required # 0 /\ mig.overfund # 0 /\ mig.required > Wallet.balance
          /\ ~RelayFunded /\ mig.required \in Int
        BY <1>12 DEF MigInv, MoneyInv, MigAt
    <2>2. GasMaster = NoGas
        BY <2>1 DEF GasMaster, RelayFunded
    <2>3. mig.required > MinTransferFee
        BY <1>1, <1>12, <2>1, MigrationAssumption
    <2> DEFINE required == mig.required
               rich == [w EXCEPT !.balance = required]
    <2>4. required > MinTransferFee /\ w.balance > MinTransferFee
        BY <1>12, <2>3 DEF w
    <2>5. rich = [w EXCEPT !.balance = required]
        OBVIOUS
    <2> HIDE DEF required, rich
    <2>6. Plan(rich, relayed, NoGas, 0) = Plan(w, relayed, NoGas, 0)
        BY <1>2, <2>4, <2>5, SamePlan
    <2>7. plan = Plan(w, relayed, gas, 0) /\ gas = NoGas
        BY <1>2, <2>2 DEF Kept, gas
    <2> QED
        BY <1>1, <2>5, <2>6, <2>7 DEF plan, w, relayed, gas, required
<1> QED
    BY <1>1, <1>3, <1>6, <1>7, <1>8, <1>9, <1>10, <1>11, <1>12
       DEF WholePlanFits, MigAt, w, plan, relayed, gas, c, txs

LEMMA OverfundStays == ASSUME MigInv PROVE OverfundStaysInside
<1>1. ~mig.overdrawn
    BY DEF MigInv, TypeInv
<1>2. ASSUME mig.pc = "done"
      PROVE  /\ mig.paid <= Wallet.balance
             /\ Wallet.balance > MinTransferFee => mig.swept = Wallet.balance - mig.paid
    <2>1. mig.at = Len(mig.plan) + 1
        BY <1>2, AnswerIs DEF TellsPlan
    <2>2. mig.required = 0 /\ mig.paid <= Wallet.balance
          /\ (SweepDone => mig.swept = Wallet.balance - mig.paid)
        BY <1>2 DEF MigInv, MoneyInv, MigAt
    <2> QED
        BY <2>1, <2>2 DEF SweepDone
<1>3. ASSUME mig.pc = "conflict"
      PROVE  mig.required > Wallet.balance /\ mig.required >= mig.paid
    BY <1>3 DEF MigInv, MoneyInv, MigAt
<1> QED
    BY <1>1, <1>2, <1>3 DEF OverfundStaysInside, MigAt

LEMMA CommissionCovered == ASSUME MigInv PROVE CommissionIsCovered
<1> SUFFICES ASSUME TellsPlan(mig.pc), GasMaster # NoGas PROVE CommissionIsCovered
    BY DEF CommissionIsCovered, TellsPlan, MigAt
<1>1. /\ Wallet \in Wallets
      /\ Kept(mig.plan, Wallet, RelayFunded, GasMaster, mig.commission)
      /\ Final(mig.plan, Wallet, RelayFunded, GasMaster, mig.commission)
      /\ mig.plan \in Seq(Batches(Wallet)) /\ Answered = mig.plan
    BY AnswerIs
<1> DEFINE w == Wallet
           plan == mig.plan
           relayed == RelayFunded
           gas == GasMaster
           c == mig.commission
           shares == Shares(plan)
<1>2. /\ w \in Wallets /\ Kept(plan, w, relayed, gas, c) /\ Final(plan, w, relayed, gas, c)
      /\ plan \in Seq(Batches(w)) /\ gas # NoGas
    BY <1>1
<1>3. \A kind, item : Moved(kind, item) = MovedIn(plan, kind, item)
    BY <1>1, MovedIs
<1>4. c \in Nat /\ shares \in Nat
    <2>1. c \in Nat
        BY DEF MigInv, TypeInv
    <2>2. \A i \in 1..Len(plan) : plan[i].sponsored = (relayed /\ i \notin Swept(plan, w))
        BY <1>2 DEF Final
    <2> HIDE DEF w, plan, relayed, gas, c
    <2>3. Cardinality(Sponsored(plan)) \in Nat
        BY <1>2, <2>2, SponsoredIs
    <2> QED
        BY <2>1, <2>3 DEF Shares
<1> HIDE DEF w, plan, relayed, gas, c
<1>5. PICK r \in Nat : /\ Whole(plan, w, gas, r) /\ Affords(w, gas, r)
                       /\ c * Shares(plan) <= r
    BY <1>2 DEF Kept
<1>6. gas \in DOMAIN w.jettons /\ w.jettons[gas] > r
    BY <1>5 DEF Affords
<1>7. w.jettons[gas] \in Nat
    BY <1>2, <1>6, WalletParts
<1>8. Moving(w, gas, r, gas) = w.jettons[gas] - r
    BY DEF Moving
<1>9. \A p \in MovedIn(plan, "commission", gas) : Message(plan, p).amount = c
    BY <1>2, CommissionLast
<1>10. \A p \in MovedIn(plan, "jetton", gas) : Message(plan, p).amount = w.jettons[gas] - r
    <2> DEFINE moving == Moving(w, gas, r, gas)
    <2>1. Once(plan, "jetton", gas, moving)
        BY <1>5, <1>6 DEF Whole
    <2> HIDE DEF moving
    <2>2. \A p \in MovedIn(plan, "jetton", gas) : Message(plan, p).amount = moving
        BY <1>2, <2>1, MovedOnce
    <2> QED
        BY <1>8, <2>2 DEF moving
<1>11. w.jettons[gas] - r > 0 /\ w.jettons[gas] - r + c * shares <= w.jettons[gas]
    <2> DEFINE drawn == c * shares
               held == w.jettons[gas]
    <2>1. drawn \in Nat /\ drawn <= r /\ held \in Nat /\ held > r
        BY <1>4, <1>5, <1>6, <1>7
    <2> HIDE DEF drawn, held
    <2>2. held - r > 0 /\ held - r + drawn <= held
        BY <2>1
    <2> QED
        BY <2>2 DEF drawn, held
<1>12. shares = Cardinality(Sponsored(plan))
    BY DEF Shares
<1> HIDE DEF shares
<1>13. /\ \A p \in MovedIn(plan, "commission", gas) : Message(plan, p).amount = c
       /\ \A p \in MovedIn(plan, "jetton", gas) :
             LET moved == Message(plan, p).amount IN
             /\ moved > 0
             /\ moved + c * Cardinality(Sponsored(plan)) <= w.jettons[gas]
    BY <1>9, <1>10, <1>11, <1>12
<1> QED
    BY <1>1, <1>3, <1>13 DEF CommissionIsCovered, w, plan, gas, c

(***************************************************************************)
(* For every wallet, payer, relay and emulator, whatever fails: an answer  *)
(* of PrepareMigration is a whole plan that fits, which pays for itself    *)
(* in TON and in the jetton of the relay (migration_handlers.go).          *)
(***************************************************************************)
THEOREM PlansAreRight == MigSpec => []PlanIsRight
<1>1. MigInv => PlanIsRight
    BY PlanFits, OverfundStays, CommissionCovered DEF PlanIsRight
<1> QED
    BY <1>1, MigInvHolds, PTL

-----------------------------------------------------------------------------
(* The messages of a wallet that are shown as lost. *)

Actions == [kind : {"before", "wallet", "after", "failed"}, msg : Nat]
Calls == [pc : {"idle", "asked", "adding", "done"}, msgs : Seq(Told), arrived : SUBSET Nat,
          below : Nat, relayed : BOOLEAN, known : BOOLEAN, left : SUBSET Nat,
          actions : Seq(Actions)]

\* What the loop has added: of the messages it had to, those not left, each once.
AddedInv(e) ==
    /\ e.left \subseteq Unmatched(e)
    /\ \A k \in DOMAIN e.actions : e.actions[k].kind = "failed" =>
          /\ e.actions[k].msg \in Unmatched(e) \ e.left
          /\ \A l \in DOMAIN e.actions : e.actions[k] = e.actions[l] => k = l
    /\ \A i \in Unmatched(e) \ e.left : ShownAt(e, i) # {}

EnrichInv ==
    /\ enrich \in Calls /\ enrich.arrived \subseteq DOMAIN enrich.msgs
    /\ enrich.pc \in {"adding", "done"} => FoundStay(enrich) /\ AddedInv(enrich)
    /\ enrich.pc = "done" => enrich.left = {}

\* The list is three actions, or two.
LEMMA FoundParts ==
    ASSUME NEW e \in Calls
    PROVE  /\ FoundActions(e) \in Seq(Actions)
           /\ Len(FoundActions(e)) = IF e.known THEN 3 ELSE 2
           /\ \A k \in DOMAIN FoundActions(e) : FoundActions(e)[k].kind # "failed"
<1>1. CASE e.known
    BY <1>1 DEF FoundActions, FoundAction, Actions
<1>2. CASE ~e.known
    BY <1>2 DEF FoundActions, FoundAction, Actions
<1> QED
    BY <1>1, <1>2

\* A list that got an element at a place.
Widened(with, s, at, x) ==
    /\ Len(with) = Len(s) + 1
    /\ \A k \in 1..Len(s) + 1 :
          with[k] = IF k < at THEN s[k] ELSE IF k = at THEN x ELSE s[k - 1]

LEMMA AddActionParts ==
    ASSUME NEW e \in Calls, NEW i \in Nat, FoundStay(e)
    PROVE  /\ AddAction(e, i) \in Seq(Actions)
           /\ Widened(AddAction(e, i), e.actions,
                      IF e.known THEN 3 ELSE Len(e.actions) + 1, FailedAction(i))
<1> DEFINE s == e.actions
           x == FailedAction(i)
           n == Len(s)
<1>1. s \in Seq(Actions) /\ n \in Nat /\ x \in Actions
    BY DEF Calls, Actions, FailedAction
<1>2. CASE ~e.known
    <2>1. AddAction(e, i) = Append(s, x)
        BY <1>2 DEF AddAction
    <2> HIDE DEF s, x
    <2>2. Append(s, x) \in Seq(Actions) /\ Len(Append(s, x)) = n + 1
          /\ \A k \in 1..n + 1 : Append(s, x)[k] = IF k <= n THEN s[k] ELSE x
        BY <1>1
    <2>3. Widened(Append(s, x), s, n + 1, x)
        BY <1>1, <2>2 DEF Widened, n
    <2> QED
        BY <1>2, <2>1, <2>2, <2>3 DEF s, x
<1>3. CASE e.known
    <2>0. n >= 3
        <3>1. n - 3 >= 0
            BY <1>3, FoundParts DEF FoundStay
        <3> QED
            BY <1>1, <3>1
    <2> DEFINE a == SubSeq(s, 1, 2)
               b == SubSeq(s, 3, n)
    <2>1. AddAction(e, i) = a \o <<x>> \o b
        BY <1>3 DEF AddAction, InsertAt
    <2> HIDE DEF s, x, n
    <2>2. a \in Seq(Actions) /\ Len(a) = 2 /\ (\A k \in 1..2 : a[k] = s[k])
        BY <1>1, <2>0 DEF n
    <2>3. b \in Seq(Actions) /\ Len(b) = n - 2 /\ (\A k \in 1..n - 2 : b[k] = s[k + 2])
        BY <1>1, <2>0 DEF n
    <2> HIDE DEF a, b
    <2> DEFINE c == a \o <<x>>
               y == <<x>>
    <2>y. y \in Seq(Actions) /\ Len(y) = 1 /\ y[1] = x /\ c = a \o y
        BY <1>1
    <2> HIDE DEF y, c
    <2>c. Joined(c, a, y) /\ c \in Seq(Actions)
        BY <2>2, <2>y, JoinTwo
    <2>4. c \in Seq(Actions) /\ Len(c) = 3 /\ c[3] = x /\ (\A k \in 1..2 : c[k] = s[k])
        BY <2>2, <2>y, <2>c DEF Joined
    <2> HIDE DEF c
    <2> DEFINE d == c \o b
    <2>d. Joined(d, c, b) /\ d \in Seq(Actions)
        BY <2>3, <2>4, JoinTwo
    <2> HIDE DEF d
    <2>5. d \in Seq(Actions) /\ Len(d) = n + 1
        BY <1>1, <2>3, <2>4, <2>d DEF Joined
    <2>6. \A k \in 1..n + 1 : d[k] = IF k < 3 THEN s[k] ELSE IF k = 3 THEN x ELSE s[k - 1]
        <3> TAKE k \in 1..n + 1
        <3>1. CASE k <= 3
            <4>1. k \in 1..Len(c)
                BY <1>1, <2>4, <3>1
            <4>2. d[k] = c[k]
                BY <2>d, <4>1 DEF Joined
            <4> QED
                BY <1>1, <2>4, <3>1, <4>2
        <3>2. CASE k > 3
            <4> DEFINE l == k - 3
            <4>1. l \in 1..n - 2 /\ l + 2 = k - 1 /\ k = 3 + l
                BY <1>1, <2>0, <3>2
            <4> HIDE DEF l
            <4>2. d[Len(c) + l] = b[l]
                BY <2>3, <2>d, <4>1 DEF Joined
            <4>3. d[k] = s[k - 1]
                BY <2>3, <2>4, <4>1, <4>2
            <4> QED
                BY <1>1, <3>2, <4>3
        <3> QED
            BY <1>1, <3>1, <3>2
    <2>7. Widened(d, s, 3, x)
        BY <2>5, <2>6 DEF Widened, n
    <2>8. AddAction(e, i) = d
        BY <2>1 DEF c, d, y
    <2> QED
        BY <1>3, <2>5, <2>7, <2>8 DEF s, x
<1> QED
    BY <1>2, <1>3

\* A turn of the loop.
LEMMA AddedMore ==
    ASSUME NEW e \in Calls, FoundStay(e), AddedInv(e), NEW i \in e.left,
           NEW f, f = [e EXCEPT !.left = e.left \ {i}, !.actions = AddAction(e, i)]
    PROVE  f \in Calls /\ FoundStay(f) /\ AddedInv(f)
<1> DEFINE s == e.actions
           t == AddAction(e, i)
           x == FailedAction(i)
           at == IF e.known THEN 3 ELSE Len(s) + 1
           n == Len(s)
           found == FoundActions(e)
           m == Len(found)
<1>0. i \in Nat
    BY DEF Calls
<1>1. /\ t \in Seq(Actions) /\ Widened(t, s, at, x)
      /\ s \in Seq(Actions) /\ n \in Nat
    BY <1>0, AddActionParts DEF Calls
<1>2. /\ f \in Calls /\ f.actions = t /\ f.left = e.left \ {i} /\ f.known = e.known
      /\ f.msgs = e.msgs /\ f.arrived = e.arrived /\ f.below = e.below /\ f.relayed = e.relayed
    BY <1>1 DEF Calls
<1>3. Unmatched(f) = Unmatched(e) /\ FoundActions(f) = FoundActions(e)
    BY <1>2 DEF Unmatched, Matched, MoreTold, InMsgCount, FoundActions
<1>4. m = IF e.known THEN 3 ELSE 2
    BY FoundParts
<1>5. /\ n - m >= 0 /\ n >= m
      /\ \A k \in 1..n :
            /\ k <= (IF e.known THEN 2 ELSE m) => s[k] = found[k]
            /\ k > (IF e.known THEN 2 ELSE m) /\ k <= (IF e.known THEN 2 ELSE m) + (n - m)
                  => s[k].kind = "failed"
            /\ k > (IF e.known THEN 2 ELSE m) + (n - m) => s[k] = found[k - (n - m)]
    <2>1. DOMAIN s = 1..n
        BY <1>1
    <2>2. n - m >= 0
        BY DEF FoundStay
    <2>3. n >= m
        BY <1>1, <1>4, <2>2
    <2> QED
        BY <2>1, <2>2, <2>3 DEF FoundStay
<1>6. /\ Len(t) = n + 1 /\ DOMAIN t = 1..n + 1
      /\ \A k \in 1..n + 1 : t[k] = IF k < at THEN s[k] ELSE IF k = at THEN x ELSE s[k - 1]
    BY <1>1 DEF Widened
<1>7. at \in 1..n + 1
    BY <1>1, <1>4, <1>5
<1>x. x.kind = "failed" /\ x.msg = i
    BY DEF FailedAction
<1>8. FoundStay(f)
    <2> HIDE DEF s, t, n, found, m, x
    <2>1. \A k \in 1..n + 1 :
            /\ k <= (IF e.known THEN 2 ELSE m) => t[k] = found[k]
            /\ k > (IF e.known THEN 2 ELSE m) /\ k <= (IF e.known THEN 2 ELSE m) + (n + 1 - m)
                  => t[k].kind = "failed"
            /\ k > (IF e.known THEN 2 ELSE m) + (n + 1 - m) => t[k] = found[k - (n + 1 - m)]
        <3> TAKE k \in 1..n + 1
        <3>1. CASE e.known
            <4>1. at = 3 /\ m = 3
                BY <1>4, <3>1
            <4>2. CASE k < 3
                BY <1>1, <1>5, <1>6, <3>1, <4>1, <4>2
            <4>3. CASE k = 3
                BY <1>1, <1>5, <1>6, <1>x, <3>1, <4>1, <4>3
            <4>4. CASE k > 3
                <5>1. k - 1 \in 1..n /\ t[k] = s[k - 1]
                    BY <1>1, <1>6, <4>1, <4>4
                <5> DEFINE l == k - 1
                <5>2. l \in 1..n /\ t[k] = s[l] /\ k = l + 1
                    BY <5>1
                <5> HIDE DEF l
                <5>3. /\ l > 2 /\ l <= 2 + (n - 3) => s[l].kind = "failed"
                      /\ l > 2 + (n - 3) => s[l] = found[l - (n - 3)]
                    BY <1>5, <3>1, <4>1, <5>2
                <5>4. l - (n - 3) = k - (n + 1 - 3)
                    BY <1>1, <5>2
                <5> QED
                    BY <1>1, <3>1, <4>1, <4>4, <5>2, <5>3, <5>4
            <4> QED
                BY <1>1, <4>2, <4>3, <4>4
        <3>2. CASE ~e.known
            <4>1. at = n + 1 /\ m = 2
                BY <1>4, <3>2 DEF n
            <4>2. CASE k <= n
                BY <1>1, <1>5, <1>6, <3>2, <4>1, <4>2
            <4>3. CASE k = n + 1
                BY <1>1, <1>5, <1>6, <1>x, <3>2, <4>1, <4>3
            <4> QED
                BY <1>1, <4>2, <4>3
        <3> QED
            BY <3>1, <3>2
    <2>2. n + 1 - m >= 0
        BY <1>1, <1>4, <1>5
    <2>3. /\ f.actions = t /\ FoundActions(f) = found /\ f.known = e.known
          /\ Len(t) = n + 1 /\ DOMAIN t = 1..n + 1
        BY <1>2, <1>3, <1>6 DEF t, found
    <2>4. Len(found) = m
        BY DEF m
    <2> DEFINE first == IF e.known THEN 2 ELSE m
               more == n + 1 - m
    <2>5. /\ f.actions = t /\ FoundActions(f) = found
          /\ first = IF f.known THEN 2 ELSE Len(FoundActions(f))
          /\ more = Len(f.actions) - Len(FoundActions(f))
        <3>1. f.actions = t /\ FoundActions(f) = found /\ f.known = e.known
            BY <2>3
        <3>2. Len(f.actions) = n + 1 /\ Len(FoundActions(f)) = m
            BY <2>3, <2>4, <3>1
        <3>3. first = IF f.known THEN 2 ELSE Len(FoundActions(f))
            <4> DEFINE length == Len(FoundActions(f))
            <4>1. length = m /\ f.known = e.known
                BY <3>1, <3>2
            <4> HIDE DEF length
            <4>2. first = IF f.known THEN 2 ELSE length
                BY ONLY <4>1
            <4> QED
                BY <4>2 DEF length
        <3>4. more = Len(f.actions) - Len(FoundActions(f))
            <4>1. more = (n + 1) - m
                BY <1>1, <1>4
            <4> DEFINE longer == n + 1
                       a == Len(f.actions)
                       b == Len(FoundActions(f))
            <4>2. a = longer /\ b = m
                BY <3>2
            <4> HIDE DEF a, b, longer
            <4>3. longer - m = a - b
                BY <4>2
            <4> QED
                BY <4>1, <4>3 DEF a, b, longer
        <3> QED
            BY <3>1, <3>3, <3>4
    <2>6. /\ more >= 0
          /\ \A k \in DOMAIN t : /\ k <= first => t[k] = found[k]
                                 /\ k > first /\ k <= first + more => t[k].kind = "failed"
                                 /\ k > first + more => t[k] = found[k - more]
        BY <2>1, <2>2, <2>3
    <2> HIDE DEF first, more
    <2> QED
        BY <2>5, <2>6 DEF FoundStay
\* Where an action of the list came from.
<1> DEFINE from(k) == IF k < at THEN k ELSE k - 1
<1>9. \A k \in 1..n + 1 : k # at => from(k) \in 1..n /\ t[k] = s[from(k)]
    <2> HIDE DEF s, t, n, x, at
    <2> QED
        BY <1>1, <1>6, <1>7
<1>10. \A k, l \in 1..n + 1 : k # at /\ l # at /\ from(k) = from(l) => k = l
    <2> HIDE DEF s, t, n, x, at
    <2> QED
        BY <1>1, <1>7
<1>11. t[at] = x
    BY <1>6, <1>7
<1>12. /\ \A k \in 1..n : s[k].kind = "failed" =>
             /\ s[k].msg \in Unmatched(e) \ e.left
             /\ \A l \in 1..n : s[k] = s[l] => k = l
       /\ e.left \subseteq Unmatched(e)
       /\ \A j \in Unmatched(e) \ e.left : \E k \in 1..n : s[k] = FailedAction(j)
    <2>1. DOMAIN s = 1..n
        BY <1>1
    <2> QED
        BY <2>1 DEF AddedInv, ShownAt
<1>13. AddedInv(f)
    <2> HIDE DEF s, t, n, at, from
    <2>1. f.left \subseteq Unmatched(f)
        BY <1>2, <1>3, <1>12
    <2>2. ASSUME NEW k \in 1..n + 1, t[k].kind = "failed"
          PROVE  /\ t[k].msg \in Unmatched(e) \ (e.left \ {i})
                 /\ \A l \in 1..n + 1 : t[k] = t[l] => k = l
        <3>1. CASE k = at
            <4>1. t[k] = x /\ i \in Unmatched(e)
                BY <1>11, <1>12, <3>1
            <4>2. ASSUME NEW l \in 1..n + 1, t[k] = t[l], l # at PROVE FALSE
                <5>1. from(l) \in 1..n /\ s[from(l)] = x
                    BY <1>9, <4>1, <4>2
                <5> QED
                    BY <1>12, <1>x, <5>1
            <4> QED
                BY <1>x, <3>1, <4>1, <4>2
        <3>2. CASE k # at
            <4>1. from(k) \in 1..n /\ t[k] = s[from(k)]
                BY <1>9, <3>2
            <4>2. t[k].msg \in Unmatched(e) \ e.left
                BY <1>12, <2>2, <4>1
            <4>3. ASSUME NEW l \in 1..n + 1, t[k] = t[l] PROVE k = l
                <5>1. CASE l = at
                    BY <1>11, <1>x, <4>2, <4>3, <5>1
                <5>2. CASE l # at
                    <6>1. from(l) \in 1..n /\ t[l] = s[from(l)]
                        BY <1>9, <5>2
                    <6>2. from(k) = from(l)
                        BY <1>12, <2>2, <4>1, <4>3, <6>1
                    <6> QED
                        BY <1>10, <3>2, <5>2, <6>2
                <5> QED
                    BY <5>1, <5>2
            <4> QED
                BY <4>2, <4>3
        <3> QED
            BY <3>1, <3>2
    <2>3. ASSUME NEW j \in Unmatched(e) \ (e.left \ {i})
          PROVE  \E k \in 1..n + 1 : t[k] = FailedAction(j)
        <3>1. CASE j = i
            BY <1>7, <1>11, <3>1 DEF x
        <3>2. CASE j # i
            <4>1. PICK l \in 1..n : s[l] = FailedAction(j)
                BY <1>12, <3>2
            <4>2. PICK k \in 1..n + 1 : k # at /\ from(k) = l
                <5>1. CASE l < at
                    BY <1>1, <1>7, <5>1 DEF from
                <5>2. CASE l >= at
                    <6>1. l + 1 \in 1..n + 1 /\ l + 1 # at /\ from(l + 1) = l
                        BY <1>1, <1>7, <5>2 DEF from
                    <6> QED
                        BY <6>1
                <5> QED
                    BY <1>1, <1>7, <5>1, <5>2
            <4> QED
                BY <1>9, <4>1, <4>2
        <3> QED
            BY <3>1, <3>2
    <2>4. f.actions = t /\ DOMAIN t = 1..n + 1
        BY <1>2, <1>6 DEF t
    <2> HIDE DEF x
    <2> QED
        BY <1>2, <1>3, <2>1, <2>2, <2>3, <2>4 DEF AddedInv, ShownAt
<1> QED
    BY <1>2, <1>8, <1>13

LEMMA EnrichStep == ASSUME EnrichInv, [EnrichNext]_enrich PROVE EnrichInv'
<1>0. enrich \in Calls
    BY DEF EnrichInv
<1>1. CASE AskEnrich
    <2>1. PICK n \in 1..MaxTold : \E msgs \in [1..n -> Told] :
             \E arrived \in SUBSET (1..n), below \in 0..MaxBelow :
             \E relayed, known \in BOOLEAN :
                /\ below > 0 => arrived # {}
                /\ enrich' = [enrich EXCEPT !.pc = "asked", !.msgs = msgs, !.arrived = arrived,
                              !.below = below, !.relayed = relayed, !.known = known]
        BY <1>1 DEF AskEnrich
    <2>2. PICK msgs \in [1..n -> Told] :
             \E arrived \in SUBSET (1..n), below \in 0..MaxBelow :
             \E relayed, known \in BOOLEAN :
                /\ below > 0 => arrived # {}
                /\ enrich' = [enrich EXCEPT !.pc = "asked", !.msgs = msgs, !.arrived = arrived,
                              !.below = below, !.relayed = relayed, !.known = known]
        BY <2>1
    <2>3. PICK arrived \in SUBSET (1..n), below \in 0..MaxBelow :
             \E relayed, known \in BOOLEAN :
                /\ below > 0 => arrived # {}
                /\ enrich' = [enrich EXCEPT !.pc = "asked", !.msgs = msgs, !.arrived = arrived,
                              !.below = below, !.relayed = relayed, !.known = known]
        BY <2>2
    <2>4. PICK relayed \in BOOLEAN, known \in BOOLEAN :
                enrich' = [enrich EXCEPT !.pc = "asked", !.msgs = msgs, !.arrived = arrived,
                           !.below = below, !.relayed = relayed, !.known = known]
        BY <2>3
    <2>n. n \in Nat /\ MaxBelow \in Nat
        BY IntentionsAssumption
    <2>m. msgs \in Seq(Told) /\ DOMAIN msgs = 1..n
        BY <2>n
    <2>b. below \in Nat /\ arrived \in SUBSET Nat
        BY <2>n
    <2>5. /\ enrich' \in Calls /\ enrich'.pc = "asked"
          /\ enrich'.arrived \subseteq DOMAIN enrich'.msgs
        BY <1>0, <2>4, <2>m, <2>b DEF Calls
    <2> QED
        BY <2>5 DEF EnrichInv
<1>2. CASE RemoveMatched
    <2> DEFINE e == enrich
               f == [enrich EXCEPT !.pc = "adding", !.left = Unmatched(enrich),
                                   !.actions = FoundActions(enrich)]
    <2>1. enrich' = f
        BY <1>2 DEF RemoveMatched
    <2>2. Unmatched(e) \in SUBSET Nat
        <3>1. DOMAIN e.msgs \in SUBSET Nat
            BY <1>0 DEF Calls
        <3> QED
            BY <3>1 DEF Unmatched
    <2>3. FoundActions(e) \in Seq(Actions)
        BY <1>0, FoundParts
    <2>4. /\ f \in Calls /\ f.pc = "adding" /\ f.actions = FoundActions(e)
          /\ f.left = Unmatched(e) /\ f.known = e.known
          /\ f.msgs = e.msgs /\ f.arrived = e.arrived /\ f.below = e.below /\ f.relayed = e.relayed
        BY <1>0, <2>2, <2>3 DEF Calls
    <2> HIDE DEF f, e
    <2>5. Unmatched(f) = Unmatched(e) /\ FoundActions(f) = FoundActions(e)
        BY <2>4 DEF Unmatched, Matched, MoreTold, InMsgCount, FoundActions
    <2>6. FoundStay(f)
        <3> DEFINE found == FoundActions(e)
                   m == Len(found)
        <3>1. found \in Seq(Actions) /\ m = IF f.known THEN 3 ELSE 2
            BY <1>0, <2>4, FoundParts DEF e
        <3> HIDE DEF found, m
        <3>2. m - m >= 0 /\ m - m = 0 /\ DOMAIN found = 1..m /\ \A k \in 1..m : k - (m - m) = k
            <4>1. found \in Seq(Actions) /\ m \in Nat
                BY <3>1
            <4>2. DOMAIN found = 1..m
                BY <4>1 DEF m
            <4> QED
                BY <4>1, <4>2
        <3>3. \A a \in {2, m} : \A k \in 1..m : ~(k > a /\ k <= a + (m - m))
            BY <3>1
        <3>4. f.actions = found /\ FoundActions(f) = found
            BY <2>4, <2>5 DEF found
        <3>5. Len(f.actions) = m /\ Len(FoundActions(f)) = m
            BY <3>4 DEF m
        <3> QED
            BY <3>2, <3>3, <3>4, <3>5 DEF FoundStay
    <2>7. AddedInv(f)
        <3>1. \A k \in DOMAIN f.actions : f.actions[k].kind # "failed"
            BY <1>0, <2>4, FoundParts DEF e
        <3> QED
            BY <2>4, <2>5, <3>1 DEF AddedInv
    <2>8. FoundStay(enrich') /\ AddedInv(enrich')
        BY <2>1, <2>6, <2>7
    <2>9. enrich'.arrived \subseteq DOMAIN enrich'.msgs
        BY <2>1, <2>4 DEF EnrichInv, e
    <2> QED
        BY <1>0, <2>1, <2>4, <2>8, <2>9 DEF EnrichInv
<1>3. CASE AddFailed
    <2>1. enrich.pc = "adding"
        BY <1>3 DEF AddFailed
    <2>2. PICK i \in enrich.left :
             enrich' = [enrich EXCEPT !.left = enrich.left \ {i}, !.actions = AddAction(enrich, i)]
        BY <1>3 DEF AddFailed
    <2>3. FoundStay(enrich) /\ AddedInv(enrich)
        BY <2>1 DEF EnrichInv
    <2>4. enrich' \in Calls /\ FoundStay(enrich') /\ AddedInv(enrich')
        BY <1>0, <2>2, <2>3, AddedMore
    <2>5. enrich'.pc = "adding" /\ enrich'.arrived \subseteq DOMAIN enrich'.msgs
        BY <1>0, <2>1, <2>2 DEF Calls, EnrichInv
    <2> QED
        BY <2>4, <2>5 DEF EnrichInv
<1>4. CASE EnrichReturns
    <2> DEFINE e == enrich
               f == [enrich EXCEPT !.pc = "done"]
    <2>1. enrich' = f /\ enrich.left = {} /\ FoundStay(enrich) /\ AddedInv(enrich)
        BY <1>4 DEF EnrichReturns, EnrichInv
    <2>4. /\ f \in Calls /\ f.pc = "done" /\ f.actions = e.actions
          /\ f.left = e.left /\ f.known = e.known
          /\ f.msgs = e.msgs /\ f.arrived = e.arrived /\ f.below = e.below /\ f.relayed = e.relayed
        BY <1>0 DEF Calls
    <2>2. FoundStay(e) /\ AddedInv(e) /\ e.left = {}
        BY <2>1
    <2> HIDE DEF f, e
    <2>5. Unmatched(f) = Unmatched(e) /\ FoundActions(f) = FoundActions(e)
        BY <2>4 DEF Unmatched, Matched, MoreTold, InMsgCount, FoundActions
    <2>6. FoundStay(f)
        BY <2>2, <2>4, <2>5 DEF FoundStay
    <2>7. AddedInv(f)
        BY <2>2, <2>4, <2>5 DEF AddedInv, ShownAt
    <2>8. FoundStay(enrich') /\ AddedInv(enrich')
        BY <2>1, <2>6, <2>7
    <2>9. enrich'.arrived \subseteq DOMAIN enrich'.msgs
        BY <2>1, <2>4 DEF EnrichInv, e
    <2> QED
        BY <2>1, <2>2, <2>4, <2>8, <2>9 DEF EnrichInv
<1>5. CASE UNCHANGED enrich
    BY <1>5 DEF EnrichInv
<1> QED
    BY <1>1, <1>2, <1>3, <1>4, <1>5 DEF EnrichNext, EnrichWithIntentions

\* A message that arrives with what it was told is like itself, and no other when
\* all can be told apart.
LEMMA OwnArrival ==
    ASSUME NEW m \in Told
    PROVE  /\ m.mode # "inside" => IsMatch(m, Arrival(m))
           /\ \A n \in Told : IsMatch(n, Arrival(m)) => Alike(n, m)
<1>1. m.mode \in {"apart", "inside", "all"}
    BY IntentionsAssumption
<1>2. /\ Arrival(m).dest = m.dest /\ Arrival(m).body = m.body /\ Arrival(m).id = m.id
    BY DEF Arrival
<1>3. m.mode = "apart" => Arrival(m).value = Value
    BY DEF Arrival
<1> QED
    BY <1>1, <1>2, <1>3 DEF IsMatch, CompareMessageFields, Alike

LEMMA LostAreShown == ASSUME EnrichInv PROVE IntentionsRight
<1> SUFFICES ASSUME enrich.pc = "done" PROVE IntentionsRight
    BY DEF IntentionsRight
<1> DEFINE e == enrich
<1>1. /\ e \in Calls /\ FoundStay(e) /\ AddedInv(e) /\ e.left = {}
      /\ e.arrived \subseteq DOMAIN e.msgs
    BY DEF EnrichInv
<1>2. \A i \in DOMAIN e.msgs : e.msgs[i] \in Told
    BY <1>1 DEF Calls
<1> HIDE DEF e
<1>3. ASSUME NEW i \in DOMAIN e.msgs
      PROVE  \A k \in ShownAt(e, i) : k \in DOMAIN e.actions /\ e.actions[k] = FailedAction(i)
                 /\ e.actions[k].kind = "failed" /\ e.actions[k].msg = i
    BY DEF ShownAt, FailedAction
<1>4. ASSUME NEW i \in DOMAIN e.msgs, i \in e.arrived, e.msgs[i].mode # "inside"
      PROVE  ShownAt(e, i) = {}
    <2>1. i \in Matched(e)
        BY <1>2, <1>4, OwnArrival DEF Matched
    <2>2. i \notin Unmatched(e)
        BY <2>1 DEF Unmatched
    <2> QED
        BY <1>1, <1>3, <2>2 DEF AddedInv
<1>5. ASSUME NEW i \in DOMAIN e.msgs, NEW k \in ShownAt(e, i), NEW l \in ShownAt(e, i)
      PROVE  k = l
    BY <1>1, <1>3 DEF AddedInv
<1>6. ASSUME NEW i \in DOMAIN e.msgs, i \notin e.arrived, AllApart(e), MoreTold(e)
      PROVE  ShownAt(e, i) # {}
    <2>1. ASSUME NEW j \in e.arrived, IsMatch(e.msgs[i], Arrival(e.msgs[j]))
          PROVE  FALSE
        <3>0. j \in DOMAIN e.msgs
            BY <1>1
        <3>1. Alike(e.msgs[i], e.msgs[j])
            BY <1>2, <2>1, <3>0, OwnArrival
        <3> QED
            BY <1>6, <3>0, <3>1 DEF AllApart
    <2>2. i \in Unmatched(e)
        BY <1>6, <2>1 DEF Unmatched, Matched
    <2> QED
        BY <1>1, <2>2 DEF AddedInv
<1> QED
    BY <1>1, <1>4, <1>5, <1>6 DEF IntentionsRight, e

(***************************************************************************)
(* For every message a wallet may be told, and however many of them arrive: *)
(* EnrichWithIntentions (bath/intentions.go) keeps the actions found in    *)
(* their order, shows nothing twice or as lost that arrived, and shows all *)
(* that was lost if it can be told apart.                                  *)
(***************************************************************************)
THEOREM OnlyTheLostAreShown == EnrichSpec => []IntentionsRight
<1>1. EnrichInit => EnrichInv
    BY DEF EnrichInit, EnrichInv, Calls
<1>2. EnrichInv => IntentionsRight
    BY LostAreShown
<1> QED
    BY <1>1, <1>2, EnrichStep, PTL DEF EnrichSpec
=============================================================================
