--------------------------- MODULE MsgSenderProofs ---------------------------
(***************************************************************************)
(* Proofs about the loop of MsgSender, for any number of batches, callers  *)
(* and receivers, any capacity of the channels and any time limits.        *)
(*                                                                         *)
(*   CopiedBeforeSent  while a message is being copied, every receiver     *)
(*       that is not to come any more has it; a copy is never taken back,  *)
(*       and what callers copy and try are messages of their own.          *)
(*   NoneLeftOut  by the messages of the batch at hand that are behind.    *)
(*   FittingIsTried, SendsEndInTime  by an account of time: what has       *)
(*       passed since the loop took its batches is paid by the messages it *)
(*       has tried, each of them once a round, and by the sleep.           *)
(***************************************************************************)
EXTENDS MsgSender, FiniteSetTheorems, WellFoundedInduction, TLAPS

-----------------------------------------------------------------------------
(* Copies before sends. *)

CopyInv ==
    /\ copied \in [Msg -> SUBSET Receiver]
    /\ togo \in SUBSET Receiver
    /\ BatchCopyBeforeSend
    /\ pc = "copy" /\ Current \in Slot => Receiver \ togo \subseteq copied[Current]

LEMMA InitCopyInv == Init => CopyInv
BY DEF Init, CopyInv, BatchCopyBeforeSend

\* A step that keeps the message at hand and copies and tries nothing.
LEMMA StepKeep ==
    ASSUME CopyInv, UNCHANGED <<queue, pos, togo, tried, copied>>,
           pc' = pc \/ pc' # "copy"
    PROVE  CopyInv'
BY DEF CopyInv, BatchCopyBeforeSend, Current

\* A step after which no message is at hand.
LEMMA StepAway ==
    ASSUME CopyInv, UNCHANGED <<togo, tried, copied>>, pc' # "copy"
    PROVE  CopyInv'
BY DEF CopyInv, BatchCopyBeforeSend

LEMMA StepNextMessage == CopyInv /\ NextMessage => CopyInv'
<1> SUFFICES ASSUME CopyInv, NextMessage PROVE CopyInv'
    OBVIOUS
<1>1. CASE Current \in Invalid
    BY <1>1, StepAway DEF NextMessage
<1>2. CASE Current \notin Invalid
    BY <1>2 DEF NextMessage, CopyInv, BatchCopyBeforeSend
<1> QED
    BY <1>1, <1>2

LEMMA StepCopyTo ==
    ASSUME CopyInv, NEW r \in Receiver, CopyTo(r)
    PROVE  CopyInv'
<1> PICK m : m = Current
    OBVIOUS
<1>1. /\ pc = "copy" /\ r \in togo
      /\ copied' = [copied EXCEPT ![m] = @ \cup {r}]
      /\ togo' = togo \ {r}
      /\ UNCHANGED <<pc, queue, pos, tried>>
    BY DEF CopyTo
<1>2. Current' = m
    BY <1>1 DEF Current
<1>3. copied \in [Msg -> SUBSET Receiver] /\ togo \in SUBSET Receiver
    BY DEF CopyInv
<1>4. copied' \in [Msg -> SUBSET Receiver] /\ togo' \in SUBSET Receiver
    BY <1>1, <1>3
<1>5. BatchCopyBeforeSend'
    BY <1>1, <1>3 DEF CopyInv, BatchCopyBeforeSend
<1>6. m \in Slot => Receiver \ togo' \subseteq copied'[m]
    BY <1>1, <1>3 DEF CopyInv, Msg
<1> QED
    BY <1>2, <1>4, <1>5, <1>6 DEF CopyInv

LEMMA StepBeginSend == CopyInv /\ BeginSend => CopyInv'
<1> SUFFICES ASSUME CopyInv, BeginSend PROVE CopyInv'
    OBVIOUS
<1>1. /\ pc = "copy" /\ togo = {} /\ pc' = "send"
      /\ tried' = tried \cup {Current}
      /\ UNCHANGED <<togo, copied>>
    BY DEF BeginSend
<1>2. Current \in Slot => copied[Current] = Receiver
    BY <1>1 DEF CopyInv, Msg
<1> QED
    BY <1>1, <1>2 DEF CopyInv, BatchCopyBeforeSend

LEMMA StepCall ==
    ASSUME CopyInv, NEW c \in Caller, Call(c)
    PROVE  CopyInv'
<1>0. c \notin Slot /\ c \in Msg
    BY MsgSenderAssumption DEF Msg
<1>1. /\ UNCHANGED <<pc, queue, pos, togo>>
      /\ tried' \in {tried, tried \cup {c}}
      /\ copied' = copied \/ \E r \in Receiver :
                                copied' = [copied EXCEPT ![c] = @ \cup {r}]
    <2>1. CASE SendMessage(c)
        BY <2>1 DEF SendMessage, loopVars
    <2>2. CASE SendAnswered(c)
        BY <2>2 DEF SendAnswered, loopVars
    <2>3. CASE Return(c)
        BY <2>3 DEF Return, loopVars
    <2>4. ASSUME NEW r \in Receiver, Offer(c, r)
          PROVE  /\ UNCHANGED <<pc, queue, pos, togo, tried>>
                 /\ \/ copied' = copied
                    \/ copied' = [copied EXCEPT ![c] = @ \cup {r}]
        BY <2>4 DEF Offer, loopVars
    <2> QED
        BY <2>1, <2>2, <2>3, <2>4 DEF Call
<1>2. copied' \in [Msg -> SUBSET Receiver]
    BY <1>0, <1>1 DEF CopyInv
<1>3. \A m \in Slot : copied'[m] = copied[m]
    BY <1>0, <1>1 DEF CopyInv, Msg
<1>4. tried' \cap Slot = tried \cap Slot
    BY <1>0, <1>1
<1>5. BatchCopyBeforeSend'
    BY <1>3, <1>4 DEF CopyInv, BatchCopyBeforeSend
<1>6. Current' = Current
    BY <1>1 DEF Current
<1> QED
    BY <1>1, <1>2, <1>3, <1>5, <1>6 DEF CopyInv

LEMMA NextCopyInv == CopyInv /\ [Next]_vars => CopyInv'
<1> SUFFICES ASSUME CopyInv, [Next]_vars PROVE CopyInv'
    OBVIOUS
<1>1. ASSUME NEW b \in Batch, Accept(b) PROVE CopyInv'
    BY <1>1, StepKeep DEF Accept, loopVars
<1>2. CASE Loop
    <2>1. CASE DropExpired
        BY <2>1, StepAway DEF DropExpired
    <2>2. CASE Take
        BY <2>2, StepAway DEF Take
    <2>3. CASE NextBatch
        BY <2>3, StepAway DEF NextBatch
    <2>4. CASE GiveUp
        BY <2>4, StepAway DEF GiveUp, SendReturns
    <2>5. CASE Wake
        BY <2>5, StepAway DEF Wake
    <2> QED
        BY <1>2, <2>1, <2>2, <2>3, <2>4, <2>5, StepNextMessage, StepCopyTo,
           StepBeginSend DEF Loop
<1>3. CASE Answer
    BY <1>3, StepAway DEF Answer, SendReturns
<1>4. ASSUME NEW c \in Caller, Call(c) PROVE CopyInv'
    BY <1>4, StepCall
<1>5. ASSUME NEW r \in Receiver, Consume(r) PROVE CopyInv'
    BY <1>5, StepKeep DEF Consume, loopVars
<1>6. CASE Tick
    BY <1>6, StepKeep DEF Tick
<1>7. CASE UNCHANGED vars
    BY <1>7, StepKeep DEF vars, loopVars
<1> QED
    BY <1>1, <1>2, <1>3, <1>4, <1>5, <1>6, <1>7 DEF Next

\* With any number of receivers, none of which owes the loop anything, and any
\* number of callers that push into the same channels without waiting, a message
\* of a batch is tried only after every receiver has got its copy.
THEOREM CopiedBeforeSent == Spec => []BatchCopyBeforeSend
<1>1. CopyInv => BatchCopyBeforeSend
    BY DEF CopyInv
<1> QED
    BY <1>1, InitCopyInv, NextCopyInv, PTL DEF Spec

-----------------------------------------------------------------------------
(* Sequences of batches. *)

\* No element of s comes twice.
Once(s) == \A i, j \in DOMAIN s : s[i] = s[j] => i = j

\* A set of numbers that has 0 and goes on and on has all of them.
LEMMA AllNumbers ==
    ASSUME NEW S, 0 \in S, \A n \in Nat : n \in S => n + 1 \in S
    PROVE  Nat \subseteq S
<1> DEFINE R == OpToRel(<, Nat)
           T == Nat \ S
<1>1. SUFFICES ASSUME T # {} PROVE FALSE
    OBVIOUS
<1>2. \A i, j \in Nat : i < j => <<i, j>> \in R
    BY DEF OpToRel
<1>3. \E n \in T : \A k \in T : <<k, n>> \notin R
    <2>1. IsWellFoundedOn(R, Nat) /\ T \subseteq Nat
        BY NatLessThanWellFounded
    <2> HIDE DEF R, T
    <2> QED
        BY <1>1, <2>1, WFMin
<1>4. PICK n \in T : \A k \in T : ~(k < n)
    BY <1>2, <1>3
<1>5. n # 0 /\ n - 1 \in Nat /\ n - 1 < n
    BY <1>4
<1>6. n - 1 \in S
    BY <1>4, <1>5
<1>7. n - 1 + 1 = n
    BY <1>5
<1> QED
    BY <1>4, <1>5, <1>6, <1>7

\* Kept has one more of the elements of s for each of them that is in T.
LEMMA KeptSteps ==
    ASSUME NEW s, NEW n \in Nat, Len(s) = n, NEW T
    PROVE  \E kept : /\ kept[0] = <<>>
                     /\ \A i \in 1..n : kept[i] = IF s[i] \in T THEN Append(kept[i-1], s[i])
                                                           ELSE kept[i-1]
                     /\ Kept(s, T) = kept[n]
<1> DEFINE More(g, i) == IF s[i] \in T THEN Append(g[i-1], s[i]) ELSE g[i-1]
           Def(g, k) == g = [i \in 0..k |-> IF i = 0 THEN <<>> ELSE More(g, i)]
           S == {k \in Nat : \E g : Def(g, k)}
<1>1. 0 \in S
    <2> DEFINE g == [i \in 0..0 |-> <<>>]
    <2>1. Def(g, 0)
        OBVIOUS
    <2> QED
        BY <2>1
<1>2. ASSUME NEW k \in Nat, k \in S PROVE k + 1 \in S
    <2>1. PICK g : Def(g, k)
        BY <1>2
    <2> DEFINE h == [i \in 0..k+1 |-> IF i = k + 1 THEN More(g, i) ELSE g[i]]
    <2>2. \A i \in 0..k : h[i] = g[i]
        OBVIOUS
    <2>3. h[k + 1] = More(g, k + 1)
        OBVIOUS
    <2>4. \A i \in 1..k+1 : More(h, i) = More(g, i)
        BY <2>2
    <2>5. \A i \in 0..k+1 : h[i] = IF i = 0 THEN <<>> ELSE More(h, i)
        <3>1. \A i \in 0..k : g[i] = IF i = 0 THEN <<>> ELSE More(g, i)
            BY <2>1
        <3> HIDE DEF More, Def, h
        <3>2. ASSUME NEW i \in 0..k+1 PROVE h[i] = IF i = 0 THEN <<>> ELSE More(h, i)
            BY <2>2, <2>3, <2>4, <3>1
        <3> QED
            BY <3>2
    <2>6. Def(h, k + 1)
        <3>1. h = [i \in 0..k+1 |-> h[i]]
            OBVIOUS
        <3> HIDE DEF h, More
        <3> QED
            BY <2>5, <3>1
    <2> HIDE DEF Def, h
    <2> QED
        BY <2>6
<1>3. n \in S
    <2> HIDE DEF S
    <2> QED
        BY <1>1, <1>2, AllNumbers
<1>4. PICK kept : Def(kept, n) /\ Kept(s, T) = kept[n]
    <2> DEFINE g == CHOOSE g : Def(g, n)
    <2>1. Def(g, n)
        <3>1. \E f : Def(f, n)
            BY <1>3
        <3> HIDE DEF Def
        <3> QED
            BY <3>1
    <2>2. Kept(s, T) = g[n]
        BY DEF Kept
    <2> HIDE DEF g, Def
    <2> QED
        BY <2>1, <2>2
<1>5. \A i \in 0..n : kept[i] = IF i = 0 THEN <<>> ELSE More(kept, i)
    BY <1>4
<1> HIDE DEF Def
<1> QED
    BY <1>4, <1>5

\* A sequence gets a new last element.
LEMMA AppendParts ==
    ASSUME NEW s \in Seq(Batch), Once(s), NEW e \in Batch, e \notin Range(s)
    PROVE  /\ Append(s, e) \in Seq(Batch)
           /\ Range(Append(s, e)) = Range(s) \cup {e}
           /\ Once(Append(s, e))
<1>1. /\ Append(s, e) \in Seq(Batch)
      /\ Len(Append(s, e)) = Len(s) + 1
      /\ \A j \in 1..Len(s) : Append(s, e)[j] = s[j]
      /\ Append(s, e)[Len(s) + 1] = e
    OBVIOUS
<1>2. Len(s) \in Nat /\ DOMAIN s = 1..Len(s)
    OBVIOUS
<1>3. DOMAIN Append(s, e) = DOMAIN s \cup {Len(s) + 1}
    <2>1. DOMAIN Append(s, e) = 1..Len(Append(s, e))
        BY <1>1
    <2> QED
        BY <1>1, <1>2, <2>1
<1>4. \A j \in DOMAIN s : s[j] # e
    BY DEF Range
<1>5. Range(Append(s, e)) = Range(s) \cup {e}
    BY <1>1, <1>2, <1>3 DEF Range
<1>6. Once(Append(s, e))
    BY <1>1, <1>2, <1>3, <1>4 DEF Once
<1> QED
    BY <1>1, <1>5, <1>6

\* A sequence loses its first element.
LEMMA TailParts ==
    ASSUME NEW s \in Seq(Batch), Once(s), s # <<>>
    PROVE  /\ Head(s) \in Range(s) /\ Head(s) \in Batch
           /\ Tail(s) \in Seq(Batch)
           /\ Range(Tail(s)) = Range(s) \ {Head(s)}
           /\ Once(Tail(s))
<1> PICK n : n = Len(s)
    OBVIOUS
<1>1. n \in Nat \ {0} /\ DOMAIN s = 1..n /\ Head(s) = s[1] /\ s[1] \in Batch
    OBVIOUS
<1>2. /\ Tail(s) \in Seq(Batch) /\ Len(Tail(s)) = n - 1
      /\ \A j \in 1..n-1 : Tail(s)[j] = s[j + 1]
    OBVIOUS
<1>3. DOMAIN Tail(s) = 1..n-1
    BY <1>2
<1>4. Once(Tail(s))
    BY <1>1, <1>2, <1>3 DEF Once
<1>5. ASSUME NEW e PROVE e \in Range(Tail(s)) <=> e \in Range(s) /\ e # s[1]
    <2>1. CASE e \in Range(Tail(s))
        <3>1. PICK j \in 1..n-1 : e = Tail(s)[j]
            BY <1>3, <2>1 DEF Range
        <3>2. e = s[j + 1] /\ j + 1 \in 1..n /\ j + 1 # 1
            BY <1>1, <1>2, <3>1
        <3> QED
            BY <1>1, <2>1, <3>2 DEF Once, Range
    <2>2. CASE e \in Range(s) /\ e # s[1]
        <3>1. PICK j \in 1..n : e = s[j]
            BY <1>1, <2>2 DEF Range
        <3>2. j - 1 \in 1..n-1 /\ j - 1 + 1 = j
            BY <1>1, <2>2, <3>1
        <3>3. e = Tail(s)[j - 1]
            BY <1>2, <3>1, <3>2
        <3> QED
            BY <1>3, <2>2, <3>2, <3>3 DEF Range
    <2> QED
        BY <2>1, <2>2
<1>6. Head(s) \in Range(s)
    BY <1>1 DEF Range
<1> QED
    BY <1>1, <1>2, <1>4, <1>5, <1>6

\* Kept(s, T) has the elements of s that are in T, and none of them twice.
LEMMA KeptParts ==
    ASSUME NEW s \in Seq(Batch), Once(s), NEW T
    PROVE  /\ Kept(s, T) \in Seq(Batch)
           /\ Range(Kept(s, T)) = Range(s) \cap T
           /\ Once(Kept(s, T))
<1> PICK n : n = Len(s)
    OBVIOUS
<1>1. n \in Nat /\ DOMAIN s = 1..n /\ \A i \in 1..n : s[i] \in Batch
    OBVIOUS
<1>2. PICK kept : /\ kept[0] = <<>>
                  /\ \A i \in 1..n : kept[i] = IF s[i] \in T THEN Append(kept[i-1], s[i])
                                                        ELSE kept[i-1]
                  /\ Kept(s, T) = kept[n]
    BY <1>1, KeptSteps
<1> DEFINE Of(i) == {s[j] : j \in 1..i} \cap T
           Good(i) == /\ kept[i] \in Seq(Batch)
                      /\ Range(kept[i]) = Of(i)
                      /\ Once(kept[i])
           S == {i \in Nat : i <= n => Good(i)}
<1>3. 0 \in S
    <2>1. 1..0 = {} /\ DOMAIN <<>> = {} /\ <<>> \in Seq(Batch)
        OBVIOUS
    <2>2. Of(0) = {} /\ Range(<<>>) = {} /\ Once(<<>>)
        BY <2>1 DEF Range, Once
    <2>3. Good(0)
        BY <1>2, <2>1, <2>2
    <2> QED
        BY <2>3
<1>4. ASSUME NEW i \in Nat, i \in S, i + 1 <= n PROVE Good(i + 1)
    <2> DEFINE e == s[i + 1]
    <2>1. Good(i) /\ i + 1 \in 1..n /\ i + 1 - 1 = i
        BY <1>1, <1>4
    <2>2. kept[i + 1] = IF e \in T THEN Append(kept[i], e) ELSE kept[i]
        BY <1>2, <2>1
    <2>3. \A j \in 1..i : j \in 1..n /\ s[j] # e
        BY <1>1, <1>4, <2>1 DEF Once
    <2>4. 1..i+1 = (1..i) \cup {i + 1}
        BY <1>4
    <2>5. Of(i + 1) = Of(i) \cup ({e} \cap T)
        BY <2>4
    <2>6. e \in Batch /\ e \notin Range(kept[i])
        BY <1>1, <2>1, <2>3
    <2>7. CASE e \notin T
        BY <2>1, <2>2, <2>5, <2>7
    <2>8. CASE e \in T
        <3> PICK k : k = kept[i]
            OBVIOUS
        <3>1. /\ k \in Seq(Batch) /\ Range(k) = Of(i) /\ Once(k)
              /\ kept[i + 1] = Append(k, e)
            BY <2>1, <2>2, <2>8
        <3> HIDE DEF Of, e
        <3>2. e \notin Range(k)
            BY <2>6
        <3>3. /\ Append(k, e) \in Seq(Batch)
              /\ Range(Append(k, e)) = Range(k) \cup {e}
              /\ Once(Append(k, e))
            BY <2>6, <3>1, <3>2, AppendParts
        <3>4. Range(Append(k, e)) = Of(i + 1)
            BY <2>5, <2>8, <3>1, <3>3
        <3> QED
            BY <3>1, <3>3, <3>4
    <2> QED
        BY <2>7, <2>8
<1>5. n \in S
    <2>1. \A i \in Nat : i \in S => i + 1 \in S
        <3> HIDE DEF Good
        <3> QED
            BY <1>4, <1>1
    <2> HIDE DEF S
    <2> QED
        BY <1>1, <1>3, <2>1, AllNumbers
<1>6. Of(n) = Range(s) \cap T
    BY <1>1 DEF Range
<1> QED
    BY <1>1, <1>2, <1>5, <1>6

-----------------------------------------------------------------------------
(* Where the loop is: what it took is part of what was accepted, no batch is
   in a list twice, and a message at hand is a valid one of the first batch. *)

LoopInv ==
    /\ pc \in {"drop", "take", "next", "copy", "send", "sleep"}
    /\ batches \in Seq(Batch) /\ Once(batches)
    /\ queue \in Seq(Batch) /\ Once(queue)
    /\ pos \in Nat \ {0}
    /\ accepted \in SUBSET Batch /\ IsFiniteSet(accepted)
    /\ Range(batches) \subseteq accepted
    /\ took \subseteq accepted
    /\ Range(queue) \subseteq took
    /\ pc \in {"drop", "take", "sleep"} => queue = <<>>
    /\ pc \in {"copy", "send"} =>
          queue # <<>> /\ pos <= Size[Head(queue)] /\ Current \notin Invalid

LEMMA InitLoopInv == Init => LoopInv
<1> SUFFICES ASSUME Init PROVE LoopInv
    OBVIOUS
<1>1. batches = <<>> /\ queue = <<>> /\ accepted = {} /\ took = {} /\ pc = "drop" /\ pos = 1
    BY DEF Init
<1>2. <<>> \in Seq(Batch) /\ Once(<<>>) /\ Range(<<>>) = {}
    BY DEF Once, Range
<1> QED
    BY <1>1, <1>2, FS_EmptySet DEF LoopInv

\* A step that changes at most where the loop is, between two messages.
LEMMA LoopKeep ==
    ASSUME LoopInv, UNCHANGED <<batches, queue, accepted, took>>,
           \/ UNCHANGED <<pc, pos>>
           \/ /\ pos' \in {pos, pos + 1} /\ pc' = "next"
           \/ /\ pos' = pos /\ pc' \in {"drop", "take", "sleep"} /\ queue = <<>>
           \/ /\ pos' = pos /\ pc' = "copy" /\ queue # <<>>
              /\ pos <= Size[Head(queue)] /\ Current \notin Invalid
           \/ /\ pos' = pos /\ pc' = "send" /\ pc = "copy"
    PROVE  LoopInv'
BY DEF LoopInv, Current, Once

LEMMA NextLoopInv == LoopInv /\ [Next]_vars => LoopInv'
<1> SUFFICES ASSUME LoopInv, [Next]_vars PROVE LoopInv'
    OBVIOUS
<1>1. ASSUME NEW b \in Batch, Accept(b) PROVE LoopInv'
    <2>1. /\ batches' = Append(batches, b) /\ accepted' = accepted \cup {b}
          /\ UNCHANGED <<pc, queue, pos, took>> /\ b \notin accepted
        BY <1>1 DEF Accept, loopVars, roundVars
    <2>2. /\ batches' \in Seq(Batch) /\ Once(batches')
          /\ Range(batches') = Range(batches) \cup {b}
        BY <2>1, AppendParts DEF LoopInv
    <2>3. IsFiniteSet(accepted')
        BY <2>1, FS_AddElement DEF LoopInv
    <2>4. Current' = Current /\ (Range(queue))' = Range(queue) /\ Once(queue')
        BY <2>1 DEF Current, LoopInv
    <2> QED
        BY <2>1, <2>2, <2>3, <2>4 DEF LoopInv, Range
<1>2. CASE Loop
    <2>1. CASE DropExpired
        <3>1. PICK T : batches' = Kept(batches, T)
            BY <2>1 DEF DropExpired
        <3>2. /\ batches' \in Seq(Batch) /\ Once(batches')
              /\ Range(batches') \subseteq accepted
            BY <3>1, KeptParts DEF LoopInv
        <3>3. /\ pc = "drop" /\ pc' = "take"
              /\ UNCHANGED <<queue, pos, accepted, took>>
            BY <2>1 DEF DropExpired, roundVars
        <3> QED
            BY <3>2, <3>3 DEF LoopInv, Range, Once
    <2>2. CASE Take
        BY <2>2 DEF Take, LoopInv, Range, Once
    <2>3. CASE NextBatch
        <3>1. CASE queue = <<>> /\ pc' = "sleep" /\ UNCHANGED <<queue, pos>>
            BY <2>3, <3>1, LoopKeep DEF NextBatch, roundVars
        <3>2. CASE queue # <<>> /\ queue' = Tail(queue) /\ pos' = 1 /\ UNCHANGED pc
            <4>1. /\ queue' \in Seq(Batch) /\ Once(queue')
                  /\ Range(queue') \subseteq Range(queue)
                BY <3>2, TailParts DEF LoopInv
            <4>2. pc' = "next" /\ UNCHANGED <<batches, accepted, took>>
                BY <2>3, <3>2 DEF NextBatch, roundVars
            <4> QED
                BY <3>2, <4>1, <4>2 DEF LoopInv, Range, Once
        <3> QED
            BY <2>3, <3>1, <3>2 DEF NextBatch
    <2>4. CASE NextMessage
        BY <2>4, LoopKeep DEF NextMessage, roundVars
    <2>5. ASSUME NEW r \in Receiver, CopyTo(r) PROVE LoopInv'
        BY <2>5, LoopKeep DEF CopyTo, roundVars
    <2>6. CASE BeginSend
        BY <2>6, LoopKeep DEF BeginSend
    <2>7. CASE GiveUp
        BY <2>7, LoopKeep DEF GiveUp, SendReturns, roundVars
    <2>8. CASE Wake
        BY <2>8, LoopKeep DEF Wake, roundVars, LoopInv
    <2> QED
        BY <1>2, <2>1, <2>2, <2>3, <2>4, <2>5, <2>6, <2>7, <2>8 DEF Loop
<1>3. CASE Answer
    BY <1>3, LoopKeep DEF Answer, SendReturns, roundVars
<1>4. ASSUME NEW c \in Caller, Call(c) PROVE LoopInv'
    <2>1. UNCHANGED <<batches, loopVars, accepted, took>>
        BY <1>4 DEF Call, SendMessage, SendAnswered, Offer, Return, roundVars
    <2> QED
        BY <2>1, LoopKeep DEF loopVars
<1>5. ASSUME NEW r \in Receiver, Consume(r) PROVE LoopInv'
    BY <1>5, LoopKeep DEF Consume, loopVars, roundVars
<1>6. CASE Tick
    BY <1>6, LoopKeep DEF Tick, roundVars
<1>7. CASE UNCHANGED vars
    BY <1>7, LoopKeep DEF vars, loopVars, roundVars
<1> QED
    BY <1>1, <1>2, <1>3, <1>4, <1>5, <1>6, <1>7 DEF Next

-----------------------------------------------------------------------------
(* What the round has done: all valid messages of the batches left behind and
   those of the batch at hand before pos, and nothing else. *)

RoundInv ==
    /\ RoundLeavesNoneOut
    /\ round \subseteq Due(took) /\ round \subseteq tried
    /\ queue # <<>> =>
          \A i \in 1..pos-1 : <<Head(queue), i>> \in Valid => <<Head(queue), i>> \in round
    /\ pc = "send" => Current \in round
    /\ \A b \in Range(queue), i \in Nat : <<b, i>> \in round =>
          b = Head(queue) /\ (i < pos \/ (i = pos /\ pc = "send"))

LEMMA InitRoundInv == Init => RoundInv
BY DEF Init, RoundInv, RoundLeavesNoneOut

\* A step that tries no message of the round.
LEMMA RoundKeep ==
    ASSUME RoundInv, UNCHANGED <<queue, pos, took, round>>, tried \subseteq tried',
           \/ pc' = pc
           \/ pc # "send" /\ pc' # "send"
    PROVE  RoundInv'
<1>1. Current' = Current /\ (Range(queue))' = Range(queue) /\ (Due(took))' = Due(took)
    BY DEF Current, Range, Due
<1>2. RoundLeavesNoneOut'
    BY <1>1 DEF RoundInv, RoundLeavesNoneOut
<1> QED
    BY <1>1, <1>2 DEF RoundInv

\* The message at hand is invalid or has been tried.
LEMMA RoundOn ==
    ASSUME LoopInv, RoundInv, queue # <<>>,
           UNCHANGED <<queue, took, round, tried>>,
           pc' = "next", pos' = pos + 1,
           \/ pc = "next" /\ Current \in Invalid
           \/ pc = "send"
    PROVE  RoundInv'
<1>1. (Range(queue))' = Range(queue) /\ (Due(took))' = Due(took)
    BY DEF Range, Due
<1>2. RoundLeavesNoneOut'
    BY <1>1 DEF RoundInv, RoundLeavesNoneOut
<1>3. pos \in Nat \ {0}
    BY DEF LoopInv
<1>4. Current \in Valid => Current \in round
    BY DEF RoundInv, Valid
<1>5. ASSUME NEW i \in 1..pos'-1, <<Head(queue), i>> \in Valid
      PROVE  <<Head(queue), i>> \in round
    <2>1. CASE i = pos
        BY <1>4, <1>5, <2>1 DEF Current
    <2>2. CASE i \in 1..pos-1
        BY <1>5, <2>2 DEF RoundInv
    <2> QED
        BY <1>3, <2>1, <2>2
<1>6. ASSUME NEW b \in Range(queue), NEW i \in Nat, <<b, i>> \in round
      PROVE  b = Head(queue) /\ i < pos'
    BY <1>3, <1>6 DEF RoundInv
<1> QED
    BY <1>1, <1>2, <1>5, <1>6 DEF RoundInv

\* All messages of the batch are behind: none of the valid ones is left out.
LEMMA RoundNextBatch ==
    ASSUME LoopInv, RoundInv, queue # <<>>, pos > Size[Head(queue)],
           queue' = Tail(queue), pos' = 1, pc' = "next",
           UNCHANGED <<took, round, tried>>
    PROVE  RoundInv'
<1> PICK h : h = Head(queue)
    OBVIOUS
<1>1. h \in Batch /\ (Range(queue))' = Range(queue) \ {h}
    BY TailParts DEF LoopInv, Range
<1>2. Size[h] \in Nat /\ pos \in Nat
    BY <1>1, MsgSenderAssumption DEF LoopInv
<1>3. SlotsOf(h) \cap Valid \subseteq round
    <2>1. ASSUME NEW m \in SlotsOf(h), m \in Valid PROVE m \in round
        <3>1. PICK i \in 1..Size[h] : m = <<h, i>>
            BY DEF SlotsOf
        <3>2. i \in 1..pos-1
            BY <1>2, <3>1
        <3> QED
            BY <2>1, <3>1, <3>2 DEF RoundInv
    <2> QED
        BY <2>1
<1>4. RoundLeavesNoneOut'
    BY <1>1, <1>3 DEF RoundInv, RoundLeavesNoneOut
<1>5. (Due(took))' = Due(took)
    BY DEF Due
<1>6. \A b \in (Range(queue))', i \in Nat : <<b, i>> \notin round
    BY <1>1 DEF RoundInv
<1> QED
    BY <1>4, <1>5, <1>6 DEF RoundInv

LEMMA RoundTake == Take => RoundInv'
<1> SUFFICES ASSUME Take PROVE RoundInv'
    OBVIOUS
<1>1. took' = (Range(queue))' /\ round' = {} /\ pc' = "next" /\ pos' = 1
    BY DEF Take, Range
<1>2. RoundLeavesNoneOut'
    BY <1>1 DEF RoundLeavesNoneOut
<1> QED
    BY <1>1, <1>2 DEF RoundInv

\* The message that is sent is one of the round that has not been tried in it.
LEMMA RoundSendsNew ==
    ASSUME LoopInv, RoundInv, pc = "copy"
    PROVE  Current \in Due(took) /\ Current \notin round
<1> PICK h : h = Head(queue)
    OBVIOUS
<1>1. h \in Batch /\ h \in Range(queue) /\ h \in took
    BY TailParts DEF LoopInv
<1>2. pos \in Nat \ {0} /\ Size[h] \in Nat /\ pos <= Size[h]
    BY <1>1, MsgSenderAssumption DEF LoopInv
<1>3. Current \in SlotsOf(h)
    BY <1>2 DEF Current, SlotsOf
<1>4. Current \in Valid
    <2>1. Current \in Slot
        BY <1>1, <1>3 DEF Slot
    <2>2. Current \notin Invalid
        BY DEF LoopInv
    <2> QED
        BY <2>1, <2>2 DEF Valid, Msg
<1>5. Current \in Due(took)
    BY <1>1, <1>3, <1>4 DEF Due
<1>6. <<h, pos>> \notin round
    <2>1. \A b \in Range(queue), i \in Nat : <<b, i>> \in round => i < pos
        BY DEF RoundInv
    <2> QED
        BY <1>1, <1>2, <2>1
<1> QED
    BY <1>5, <1>6 DEF Current

LEMMA RoundBeginSend ==
    ASSUME LoopInv, RoundInv, BeginSend
    PROVE  RoundInv'
<1>1. /\ pc = "copy" /\ pc' = "send"
      /\ tried' = tried \cup {Current} /\ round' = round \cup {Current}
      /\ UNCHANGED <<queue, pos, took>>
    BY DEF BeginSend
<1>2. /\ Current' = Current /\ (Range(queue))' = Range(queue)
      /\ (Due(took))' = Due(took)
    BY <1>1 DEF Current, Range, Due
<1>3. Current \in Due(took)
    BY <1>1, RoundSendsNew
<1>4. RoundLeavesNoneOut'
    BY <1>1, <1>2 DEF RoundInv, RoundLeavesNoneOut
<1>5. ASSUME NEW b \in Range(queue), NEW i \in Nat, <<b, i>> \in round'
      PROVE  b = Head(queue) /\ (i < pos \/ i = pos)
    <2>1. CASE <<b, i>> \in round
        BY <1>1, <2>1 DEF RoundInv
    <2>2. CASE <<b, i>> = Current
        BY <2>2 DEF Current
    <2> QED
        BY <1>1, <1>5, <2>1, <2>2
<1> QED
    BY <1>1, <1>2, <1>3, <1>4, <1>5 DEF RoundInv

LEMMA NextRoundInv == LoopInv /\ RoundInv /\ [Next]_vars => RoundInv'
<1> SUFFICES ASSUME LoopInv, RoundInv, [Next]_vars PROVE RoundInv'
    OBVIOUS
<1>1. ASSUME NEW b \in Batch, Accept(b) PROVE RoundInv'
    BY <1>1, RoundKeep DEF Accept, loopVars, roundVars
<1>2. CASE Loop
    <2>1. CASE DropExpired
        BY <2>1, RoundKeep DEF DropExpired, roundVars
    <2>2. CASE Take
        BY <2>2, RoundTake
    <2>3. CASE NextBatch
        <3>1. pc = "next" /\ UNCHANGED <<took, round, tried>>
            BY <2>3 DEF NextBatch, roundVars
        <3>2. CASE pc' = "sleep" /\ UNCHANGED <<queue, pos>>
            BY <3>1, <3>2, RoundKeep
        <3>3. CASE /\ queue # <<>> /\ pos > Size[Head(queue)]
                   /\ queue' = Tail(queue) /\ pos' = 1 /\ UNCHANGED pc
            BY <3>1, <3>3, RoundNextBatch
        <3> QED
            BY <2>3, <3>2, <3>3 DEF NextBatch
    <2>4. CASE NextMessage
        <3>1. /\ pc = "next" /\ queue # <<>>
              /\ UNCHANGED <<queue, took, round, tried>>
            BY <2>4 DEF NextMessage, roundVars
        <3>2. CASE Current \in Invalid /\ pos' = pos + 1 /\ UNCHANGED pc
            BY <3>1, <3>2, RoundOn
        <3>3. CASE pc' = "copy" /\ UNCHANGED pos
            BY <3>1, <3>3, RoundKeep
        <3> QED
            BY <2>4, <3>2, <3>3 DEF NextMessage
    <2>5. ASSUME NEW r \in Receiver, CopyTo(r) PROVE RoundInv'
        BY <2>5, RoundKeep DEF CopyTo, roundVars
    <2>6. CASE BeginSend
        BY <2>6, RoundBeginSend
    <2>7. CASE GiveUp
        BY <2>7, RoundOn DEF GiveUp, SendReturns, roundVars, LoopInv
    <2>8. CASE Wake
        BY <2>8, RoundKeep DEF Wake, roundVars
    <2> QED
        BY <1>2, <2>1, <2>2, <2>3, <2>4, <2>5, <2>6, <2>7, <2>8 DEF Loop
<1>3. CASE Answer
    <2>1. /\ pc = "send" /\ queue # <<>>
          /\ UNCHANGED <<queue, took, round, tried>>
        BY <1>3 DEF Answer, SendReturns, roundVars, LoopInv
    <2>2. CASE SendReturns
        BY <2>1, <2>2, RoundOn DEF SendReturns
    <2>3. CASE UNCHANGED <<pc, pos>>
        BY <2>1, <2>3, RoundKeep
    <2> QED
        BY <1>3, <2>2, <2>3 DEF Answer
<1>4. ASSUME NEW c \in Caller, Call(c) PROVE RoundInv'
    <2>1. UNCHANGED <<loopVars, took, round>> /\ tried \subseteq tried'
        BY <1>4 DEF Call, SendMessage, SendAnswered, Offer, Return, roundVars
    <2> QED
        BY <2>1, RoundKeep DEF loopVars
<1>5. ASSUME NEW r \in Receiver, Consume(r) PROVE RoundInv'
    BY <1>5, RoundKeep DEF Consume, loopVars, roundVars
<1>6. CASE Tick
    BY <1>6, RoundKeep DEF Tick, roundVars
<1>7. CASE UNCHANGED vars
    BY <1>7, RoundKeep DEF vars, loopVars, roundVars
<1> QED
    BY <1>1, <1>2, <1>3, <1>4, <1>5, <1>6, <1>7 DEF Next

\* Whatever fails, is invalid or is accepted meanwhile, and however many batches
\* there are: a round tries every valid message of the batches it took.
THEOREM NoneLeftOut == Spec => []RoundLeavesNoneOut
<1>1. LoopInv /\ RoundInv => RoundLeavesNoneOut
    BY DEF RoundInv
<1> QED
    BY <1>1, InitLoopInv, NextLoopInv, InitRoundInv, NextRoundInv, PTL DEF Spec

-----------------------------------------------------------------------------
(* Time. *)

\* A finite number of batches has a finite number of messages.
LEMMA DueFinite ==
    ASSUME NEW S \in SUBSET Batch, IsFiniteSet(S)
    PROVE  IsFiniteSet(Due(S))
<1> DEFINE Slots == {SlotsOf(b) : b \in S}
           f == [b \in S |-> SlotsOf(b)]
<1>1. f \in Surjection(S, Slots)
    BY DEF Surjection
<1>2. IsFiniteSet(Slots)
    <2> HIDE DEF f, Slots
    <2> QED
        BY <1>1, FS_Surjection
<1>3. \A T \in Slots : IsFiniteSet(T)
    <2>1. ASSUME NEW b \in S PROVE IsFiniteSet(SlotsOf(b))
        <3>1. Size[b] \in Int /\ 1 \in Int
            BY MsgSenderAssumption
        <3>2. IsFiniteSet(1..Size[b])
            BY <3>1, FS_Interval
        <3>3. IsFiniteSet({b})
            BY FS_Singleton
        <3> QED
            BY <3>2, <3>3, FS_Product DEF SlotsOf
    <2> QED
        BY <2>1
<1>4. IsFiniteSet(UNION Slots)
    <2> HIDE DEF Slots
    <2> QED
        BY <1>2, <1>3, FS_UNION
<1> QED
    BY <1>4, FS_Intersection DEF Due

\* More batches take no less time.
LEMMA LoadGrows ==
    ASSUME NEW T \in SUBSET Batch, IsFiniteSet(T), NEW S \in SUBSET T
    PROVE  /\ Load(S) \in Nat /\ Load(T) \in Nat /\ Load(S) <= Load(T)
           /\ Load(S) * SendLimit <= Load(T) * SendLimit
<1>1. IsFiniteSet(S) /\ S \in SUBSET Batch
    BY FS_Subset
<1>2. IsFiniteSet(Due(S)) /\ IsFiniteSet(Due(T))
    BY <1>1, DueFinite
<1>3. Due(S) \subseteq Due(T)
    BY DEF Due
<1>4. Load(S) \in Nat /\ Load(T) \in Nat
    BY <1>2, FS_CardinalityType DEF Load
<1>5. Load(S) <= Load(T)
    BY <1>2, <1>3, FS_Subset DEF Load
<1>6. \A i, j, k \in Nat : i <= j => i * k <= j * k
    OBVIOUS
<1> QED
    BY <1>4, <1>5, <1>6, MsgSenderAssumption

\* The time since the round before the last sleep ended or, in a round, since it
\* took its batches, is no longer than this.
Spent ==
    Cardinality(round) * SendLimit
        + (IF pc \in {"drop", "take", "sleep"} THEN Pause ELSE 0)
        - (IF pc \in {"send", "sleep"} THEN timer ELSE 0)

Sent(b) == SlotsOf(b) \cap Valid \subseteq tried

TimerInv ==
    /\ timer \in Nat
    /\ pc = "send" => timer <= SendLimit
    /\ pc = "sleep" => timer <= Pause

\* A batch that the round did not take and that fits is waiting for the next.
WaitInv ==
    \A b \in accepted \ took :
        Fits(b) => Sent(b) \/ (b \in Range(batches) /\ age[b] <= Spent)

\* A batch that the round took was not older than TTL when it did.
LateInv ==
    pc \in {"next", "copy", "send"} => \A b \in took : age[b] <= TTL + Spent

AgeInv ==
    /\ age \in [Batch -> Nat]
    /\ \A b \in Batch \ accepted : age[b] = 0
    /\ pc = "take" => \A b \in Range(batches) : age[b] <= TTL

TimeInv ==
    /\ TimerInv /\ AgeInv /\ TriedBeforeDropped
    /\ ~stalled => WaitInv /\ LateInv

LEMMA RoundFinite ==
    ASSUME LoopInv, RoundInv
    PROVE  /\ IsFiniteSet(round) /\ Cardinality(round) \in Nat
           /\ Cardinality(round) <= Load(took)
           /\ Cardinality(round) * SendLimit \in Nat
           /\ Load(took) * SendLimit \in Nat
           /\ Cardinality(round) * SendLimit <= Load(took) * SendLimit
<1>1. IsFiniteSet(took) /\ took \in SUBSET Batch
    BY FS_Subset DEF LoopInv
<1>2. IsFiniteSet(Due(took))
    BY <1>1, DueFinite
<1>3. round \in SUBSET Due(took)
    BY DEF RoundInv
<1>4. IsFiniteSet(round) /\ Cardinality(round) <= Load(took)
    BY <1>2, <1>3, FS_Subset DEF Load
<1>5. Cardinality(round) \in Nat /\ Load(took) \in Nat
    BY <1>2, <1>4, FS_CardinalityType DEF Load
<1>6. \A i, j, k \in Nat : i * k \in Nat /\ (i <= j => i * k <= j * k)
    OBVIOUS
<1> QED
    BY <1>4, <1>5, <1>6, MsgSenderAssumption

LEMMA SpentType ==
    ASSUME LoopInv, RoundInv, TimerInv
    PROVE  Spent \in Nat
<1> PICK x : x = Cardinality(round) * SendLimit
    OBVIOUS
<1>1. x \in Nat /\ SendLimit \in Nat /\ Pause \in Nat
    BY RoundFinite, MsgSenderAssumption
<1>2. pc = "send" => SendLimit <= x
    <2> SUFFICES ASSUME pc = "send" PROVE SendLimit <= x
        OBVIOUS
    <2>1. round # {} /\ IsFiniteSet(round) /\ Cardinality(round) \in Nat
        BY RoundFinite DEF RoundInv
    <2>2. Cardinality(round) # 0
        BY <2>1, FS_EmptySet
    <2>3. \A i, k \in Nat : i # 0 => k <= i * k
        OBVIOUS
    <2> QED
        BY <1>1, <2>1, <2>2, <2>3
<1>3. Spent = x + (IF pc \in {"drop", "take", "sleep"} THEN Pause ELSE 0)
                - (IF pc \in {"send", "sleep"} THEN timer ELSE 0)
    BY DEF Spent
<1> QED
    BY <1>1, <1>2, <1>3 DEF TimerInv

\* Batches that are accepted leave no more time for the others.
LEMMA FitsLess ==
    ASSUME LoopInv, LoopInv', accepted \subseteq accepted', NEW b, (Fits(b))'
    PROVE  Fits(b)
<1> DEFINE S == accepted \ {b}
           T == accepted' \ {b}
<1>1. IsFiniteSet(T) /\ T \in SUBSET Batch
    BY FS_Subset DEF LoopInv
<1>2. S \in SUBSET T
    OBVIOUS
<1>3. /\ Load(S) \in Nat /\ Load(T) \in Nat
      /\ Load(S) * SendLimit <= Load(T) * SendLimit
    <2> HIDE DEF S, T
    <2> QED
        BY <1>1, <1>2, LoadGrows
<1>4. Load(T) * SendLimit + Pause <= TTL
    BY DEF Fits, Load, Due
<1>5. Load(S) * SendLimit \in Nat /\ Load(T) * SendLimit \in Nat
    <2>1. \A i, k \in Nat : i * k \in Nat
        OBVIOUS
    <2> QED
        BY <1>3, <2>1, MsgSenderAssumption
<1>6. Load(S) * SendLimit + Pause <= TTL
    BY <1>3, <1>4, <1>5, MsgSenderAssumption
<1> QED
    BY <1>6 DEF Fits

\* A step that leaves the batches alone, ages none and takes no time.
LEMMA TimeKeep ==
    ASSUME LoopInv, LoopInv', RoundInv, RoundInv', TimeInv, TimerInv',
           UNCHANGED <<batches, age, accepted, took, stalled>>,
           tried \subseteq tried', Spent' >= Spent,
           pc' = "take" => pc = "take",
           pc' \in {"next", "copy", "send"} => pc \in {"next", "copy", "send"}
    PROVE  TimeInv'
<1>1. Spent \in Nat /\ Spent' \in Nat
    <2>1. Spent \in Nat
        BY SpentType DEF TimeInv
    <2>2. (Spent \in Nat)'
        <3>1. (LoopInv /\ RoundInv /\ TimerInv => Spent \in Nat)'
            BY SpentType, PTL
        <3> QED
            BY <3>1
    <2> QED
        BY <2>1, <2>2
<1>2. ASSUME NEW b PROVE (Fits(b))' <=> Fits(b)
    BY DEF Fits, Load, Due
<1>3. ASSUME NEW b, Sent(b) PROVE (Sent(b))'
    BY <1>3 DEF Sent
<1>4. (Range(batches))' = Range(batches)
    BY DEF Range
<1>5. AgeInv'
    BY <1>4 DEF TimeInv, AgeInv
<1>6. TriedBeforeDropped'
    <2>1. ~stalled => \A d \in accepted \ Range(batches) : Fits(d) => Sent(d)
        BY DEF TimeInv, TriedBeforeDropped, Sent
    <2>2. (~stalled => \A d \in accepted \ Range(batches) : Fits(d) => Sent(d))'
        BY <1>2, <1>3, <1>4, <2>1
    <2> QED
        BY <2>2 DEF TriedBeforeDropped, Sent
<1>7. ASSUME WaitInv PROVE WaitInv'
    <2> SUFFICES ASSUME NEW b \in accepted \ took, (Fits(b))'
                 PROVE  (Sent(b))' \/ (b \in Range(batches) /\ age[b] <= Spent')
        BY <1>4 DEF WaitInv
    <2>1. Sent(b) \/ (b \in Range(batches) /\ age[b] <= Spent)
        BY <1>2, <1>7 DEF WaitInv
    <2>2. age[b] \in Nat
        BY DEF TimeInv, AgeInv, LoopInv
    <2> QED
        BY <1>1, <1>3, <2>1, <2>2
<1>8. ASSUME LateInv PROVE LateInv'
    <2> SUFFICES ASSUME pc' \in {"next", "copy", "send"}, NEW b \in took
                 PROVE  age[b] <= TTL + Spent'
        BY DEF LateInv
    <2>1. age[b] <= TTL + Spent
        BY <1>8 DEF LateInv
    <2>2. age[b] \in Nat /\ TTL \in Nat
        BY MsgSenderAssumption DEF TimeInv, AgeInv, LoopInv
    <2> QED
        BY <1>1, <2>1, <2>2
<1>9. stalled' = stalled
    OBVIOUS
<1> QED
    BY <1>5, <1>6, <1>7, <1>8, <1>9 DEF TimeInv

LEMMA InitTimeInv == Init => TimeInv
<1> SUFFICES ASSUME Init PROVE TimeInv
    OBVIOUS
<1>1. /\ batches = <<>> /\ age = [b \in Batch |-> 0] /\ pc = "drop" /\ timer = 0
      /\ accepted = {} /\ took = {}
    BY DEF Init
<1>2. TimerInv /\ AgeInv /\ TriedBeforeDropped
    BY <1>1 DEF TimerInv, AgeInv, TriedBeforeDropped
<1>3. WaitInv /\ LateInv
    BY <1>1 DEF WaitInv, LateInv
<1> QED
    BY <1>2, <1>3 DEF TimeInv

LEMMA TimeAccept ==
    ASSUME LoopInv, LoopInv', RoundInv, TimeInv, NEW b \in Batch, Accept(b)
    PROVE  TimeInv'
<1>1. /\ b \notin accepted /\ accepted' = accepted \cup {b}
      /\ batches' = Append(batches, b)
      /\ UNCHANGED <<age, pc, timer, tried, took, round, stalled>>
    BY DEF Accept, loopVars, roundVars
<1>2. (Range(batches))' = Range(batches) \cup {b}
    <2>1. Range(batches') = Range(batches) \cup {b}
        BY <1>1, AppendParts DEF LoopInv
    <2> QED
        BY <2>1 DEF Range
<1>3. age[b] = 0 /\ age \in [Batch -> Nat]
    BY <1>1 DEF TimeInv, AgeInv
<1>4. Spent \in Nat /\ Spent' = Spent
    BY <1>1, SpentType DEF TimeInv, Spent
<1>5. ASSUME NEW d, (Fits(d))' PROVE Fits(d)
    BY <1>1, <1>5, FitsLess
<1>6. ASSUME NEW d PROVE (Sent(d))' <=> Sent(d)
    BY <1>1 DEF Sent
<1>7. TimerInv'
    BY <1>1 DEF TimeInv, TimerInv
<1>8. AgeInv'
    BY <1>1, <1>2, <1>3, MsgSenderAssumption DEF TimeInv, AgeInv
<1>9. TriedBeforeDropped'
    <2>1. ~stalled => \A d \in accepted \ Range(batches) : Fits(d) => Sent(d)
        BY DEF TimeInv, TriedBeforeDropped, Sent
    <2>2. (~stalled => \A d \in accepted \ Range(batches) : Fits(d) => Sent(d))'
        BY <1>1, <1>2, <1>5, <1>6, <2>1
    <2> QED
        BY <2>2 DEF TriedBeforeDropped, Sent
<1>10. ASSUME WaitInv PROVE WaitInv'
    <2> SUFFICES ASSUME NEW d \in accepted' \ took, (Fits(d))'
                 PROVE  Sent(d) \/ (d \in (Range(batches))' /\ age[d] <= Spent)
        BY <1>1, <1>4, <1>6 DEF WaitInv
    <2>1. CASE d = b
        BY <1>2, <1>3, <1>4, <2>1
    <2>2. CASE d # b
        BY <1>1, <1>2, <1>5, <1>10, <2>2 DEF WaitInv
    <2> QED
        BY <2>1, <2>2
<1>11. ASSUME LateInv PROVE LateInv'
    BY <1>1, <1>4, <1>11 DEF LateInv
<1> QED
    BY <1>1, <1>7, <1>8, <1>9, <1>10, <1>11 DEF TimeInv

\* Before the round a batch is dropped only after all of it was tried: if it was
\* not in the last round it has waited no longer than that and a sleep.
LEMMA TimeDrop ==
    ASSUME LoopInv, LoopInv', RoundInv, TimeInv, DropExpired
    PROVE  TimeInv'
<1>1. /\ pc = "drop" /\ pc' = "take" /\ queue = <<>>
      /\ batches' = Kept(batches, {d \in Batch : age[d] <= TTL})
      /\ UNCHANGED <<age, timer, accepted, tried, took, round, stalled>>
    BY DEF DropExpired, roundVars, LoopInv
<1>2. (Range(batches))' = Range(batches) \cap {d \in Batch : age[d] <= TTL}
    <2>1. Range(batches') = Range(batches) \cap {d \in Batch : age[d] <= TTL}
        BY <1>1, KeptParts DEF LoopInv
    <2> QED
        BY <2>1 DEF Range
<1>3. /\ age \in [Batch -> Nat] /\ accepted \subseteq Batch
      /\ took \in SUBSET accepted /\ IsFiniteSet(accepted)
    BY DEF TimeInv, AgeInv, LoopInv
<1>4. /\ Spent' = Spent /\ Spent = Cardinality(round) * SendLimit + Pause
      /\ Spent \in Nat
    BY <1>1, SpentType, RoundFinite, MsgSenderAssumption DEF TimeInv, Spent
<1>5. ASSUME NEW d PROVE ((Fits(d))' <=> Fits(d)) /\ ((Sent(d))' <=> Sent(d))
    BY <1>1 DEF Fits, Load, Due, Sent
<1>6. ASSUME NEW d \in took PROVE Sent(d)
    <2>1. Range(queue) = {}
        BY <1>1 DEF Range
    <2> QED
        BY <2>1 DEF RoundInv, RoundLeavesNoneOut, Sent
<1>7. ASSUME NEW d \in accepted \ took, Fits(d) PROVE Spent <= TTL
    <2>1. took \in SUBSET (accepted \ {d}) /\ IsFiniteSet(accepted \ {d})
        BY <1>3, FS_Subset
    <2> PICK T : T = accepted \ {d}
        OBVIOUS
    <2>2. /\ Load(took) * SendLimit <= Load(T) * SendLimit
          /\ Load(took) \in Nat /\ Load(T) \in Nat
        BY <1>3, <2>1, LoadGrows
    <2>3. Cardinality(round) * SendLimit <= Load(took) * SendLimit
        BY RoundFinite
    <2>4. Load(T) * SendLimit + Pause <= TTL
        BY <1>7 DEF Fits
    <2>5. \A i \in Nat : i * SendLimit \in Nat
        BY MsgSenderAssumption
    <2> QED
        BY <1>4, <2>2, <2>3, <2>4, <2>5, RoundFinite, MsgSenderAssumption
<1>8. TimerInv' /\ LateInv'
    BY <1>1 DEF TimeInv, TimerInv, LateInv
<1>9. AgeInv'
    BY <1>1, <1>2 DEF TimeInv, AgeInv
<1>10. ASSUME ~stalled, NEW d \in accepted, Fits(d)
       PROVE  Sent(d) \/ (d \notin took /\ d \in (Range(batches))' /\ age[d] <= Spent)
    <2>1. CASE d \in took
        BY <1>6, <2>1
    <2>2. CASE d \notin took
        <3>1. Sent(d) \/ (d \in Range(batches) /\ age[d] <= Spent)
            BY <1>10, <2>2 DEF TimeInv, WaitInv
        <3>2. Spent <= TTL /\ age[d] \in Nat
            BY <1>3, <1>7, <1>10, <2>2
        <3> QED
            BY <1>2, <1>3, <1>4, <2>2, <3>1, <3>2, MsgSenderAssumption
    <2> QED
        BY <2>1, <2>2
<1>11. ASSUME ~stalled PROVE WaitInv'
    BY <1>1, <1>4, <1>5, <1>10, <1>11 DEF WaitInv
<1>12. TriedBeforeDropped'
    <2>1. (~stalled => \A d \in accepted \ Range(batches) : Fits(d) => Sent(d))'
        BY <1>1, <1>5, <1>10
    <2> QED
        BY <2>1 DEF TriedBeforeDropped, Sent
<1> QED
    BY <1>1, <1>8, <1>9, <1>11, <1>12 DEF TimeInv

LEMMA TimeTake ==
    ASSUME LoopInv, RoundInv, TimeInv, Take
    PROVE  TimeInv'
<1>1. /\ pc = "take" /\ pc' = "next" /\ took' = Range(batches) /\ round' = {}
      /\ UNCHANGED <<batches, age, timer, accepted, tried, stalled>>
    BY DEF Take
<1>2. (Range(batches))' = Range(batches)
    BY <1>1 DEF Range
<1>3. Cardinality({}) = 0
    BY FS_EmptySet
<1>4. Spent' = 0
    BY <1>1, <1>3, MsgSenderAssumption DEF Spent
<1>5. ASSUME NEW d PROVE ((Fits(d))' <=> Fits(d)) /\ ((Sent(d))' <=> Sent(d))
    BY <1>1 DEF Fits, Load, Due, Sent
<1>6. TimerInv' /\ AgeInv'
    BY <1>1, <1>2 DEF TimeInv, TimerInv, AgeInv
<1>7. TriedBeforeDropped'
    BY <1>1, <1>2, <1>5 DEF TimeInv, TriedBeforeDropped, Sent
<1>8. ASSUME ~stalled PROVE WaitInv'
    <2>1. \A d \in accepted \ Range(batches) : Fits(d) => Sent(d)
        BY <1>8 DEF TimeInv, TriedBeforeDropped, Sent
    <2> QED
        BY <1>1, <1>5, <2>1 DEF WaitInv
<1>9. LateInv'
    <2>1. \A b \in Range(batches) : age[b] <= TTL /\ age[b] \in Nat
        BY <1>1 DEF TimeInv, AgeInv, LoopInv
    <2> QED
        BY <1>1, <1>4, <2>1, MsgSenderAssumption DEF LateInv
<1> QED
    BY <1>1, <1>6, <1>7, <1>8, <1>9 DEF TimeInv

\* A tick is paid by the sleep or by the message that is sent.
LEMMA TimeTick ==
    ASSUME LoopInv, RoundInv, TimeInv, Tick
    PROVE  TimeInv'
<1>1. /\ UNCHANGED <<batches, pc, accepted, tried, took, round>>
      /\ age' = [b \in Batch |-> IF b \in accepted /\ age[b] < MaxAge
                                 THEN age[b] + 1 ELSE age[b]]
      /\ timer' = IF pc = "copy" THEN timer ELSE timer - 1
      /\ pc = "copy" \/ (pc \in {"send", "sleep"} /\ timer > 0)
    BY DEF Tick, roundVars, Waiting, Blocked
<1>2. ~stalled' => ~stalled /\ pc # "copy"
    BY DEF Tick
<1>3. age \in [Batch -> Nat] /\ timer \in Nat
    BY DEF TimeInv, AgeInv, TimerInv
<1>4. \A b \in Batch : age'[b] \in Nat /\ age'[b] <= age[b] + 1
    BY <1>1, <1>3
<1>5. (Range(batches))' = Range(batches)
    BY <1>1 DEF Range
<1>6. ASSUME NEW d PROVE ((Fits(d))' <=> Fits(d)) /\ ((Sent(d))' <=> Sent(d))
    BY <1>1 DEF Fits, Load, Due, Sent
<1>7. TimerInv'
    BY <1>1, <1>3, MsgSenderAssumption DEF TimeInv, TimerInv
<1>8. AgeInv'
    <2>1. \A b \in Batch \ accepted : age'[b] = 0
        BY <1>1 DEF TimeInv, AgeInv
    <2>2. age' \in [Batch -> Nat]
        BY <1>1, <1>3
    <2> QED
        BY <1>1, <2>1, <2>2 DEF AgeInv
<1>9. TriedBeforeDropped'
    BY <1>1, <1>2, <1>5, <1>6 DEF TimeInv, TriedBeforeDropped, Sent
<1>10. ASSUME ~stalled' PROVE Spent \in Nat /\ Spent' = Spent + 1
    <2> PICK x : x = Cardinality(round) * SendLimit
        OBVIOUS
    <2>1. x \in Nat /\ Pause \in Nat
        BY RoundFinite, MsgSenderAssumption
    <2>2. Spent = x + (IF pc = "sleep" THEN Pause ELSE 0) - timer
        BY <1>1, <1>2, <1>10 DEF Spent
    <2>3. Spent' = x + (IF pc = "sleep" THEN Pause ELSE 0) - (timer - 1)
        BY <1>1, <1>2, <1>10 DEF Spent
    <2>4. Spent \in Nat
        BY SpentType DEF TimeInv
    <2> QED
        BY <1>3, <2>1, <2>2, <2>3, <2>4
<1>11. ASSUME ~stalled' PROVE WaitInv'
    <2> SUFFICES ASSUME NEW b \in accepted \ took, Fits(b), ~Sent(b)
                 PROVE  b \in Range(batches) /\ age'[b] <= Spent'
        BY <1>1, <1>5, <1>6 DEF WaitInv
    <2>1. b \in Range(batches) /\ age[b] <= Spent
        BY <1>2, <1>11 DEF TimeInv, WaitInv
    <2>2. age[b] \in Nat /\ age'[b] \in Nat /\ age'[b] <= age[b] + 1
        BY <1>3, <1>4 DEF LoopInv
    <2> QED
        BY <1>10, <1>11, <2>1, <2>2
<1>12. ASSUME ~stalled' PROVE LateInv'
    <2> SUFFICES ASSUME pc = "send", NEW b \in took
                 PROVE  age'[b] <= TTL + Spent'
        BY <1>1, <1>2, <1>12 DEF LateInv
    <2>1. age[b] <= TTL + Spent
        BY <1>2, <1>12 DEF TimeInv, LateInv
    <2>2. /\ age[b] \in Nat /\ age'[b] \in Nat /\ age'[b] <= age[b] + 1
          /\ TTL \in Nat
        BY <1>3, <1>4, MsgSenderAssumption DEF LoopInv
    <2> QED
        BY <1>10, <1>12, <2>1, <2>2
<1> QED
    BY <1>7, <1>8, <1>9, <1>11, <1>12 DEF TimeInv

\* A message that is sent has its full SendLimit ahead.
LEMMA TimeBeginSend ==
    ASSUME LoopInv, LoopInv', RoundInv, RoundInv', TimeInv, BeginSend
    PROVE  TimeInv'
<1>1. /\ pc = "copy" /\ pc' = "send" /\ timer' = SendLimit
      /\ tried' = tried \cup {Current} /\ round' = round \cup {Current}
      /\ UNCHANGED <<batches, age, accepted, took, stalled>>
    BY DEF BeginSend
<1>2. Cardinality(round') = Cardinality(round) + 1 /\ Cardinality(round) \in Nat
    BY <1>1, RoundFinite, RoundSendsNew, FS_AddElement
<1>3. \A i \in Nat : /\ (i + 1) * SendLimit - SendLimit = i * SendLimit
                     /\ i * SendLimit \in Nat /\ (i + 1) * SendLimit \in Nat
    BY MsgSenderAssumption
<1>4. Spent = Cardinality(round) * SendLimit
    BY <1>1, <1>2, <1>3 DEF Spent
<1>5. Spent' = Cardinality(round') * SendLimit - SendLimit
    BY <1>1, <1>2, <1>3, MsgSenderAssumption DEF Spent
<1>6. Spent' >= Spent
    BY <1>2, <1>3, <1>4, <1>5
<1>7. TimerInv'
    BY <1>1, MsgSenderAssumption DEF TimerInv
<1> QED
    BY <1>1, <1>6, <1>7, TimeKeep

\* Any other step of the loop takes no time, or gives back what is left of it.
LEMMA TimeLoop ==
    ASSUME LoopInv, LoopInv', RoundInv, RoundInv', TimeInv,
           \/ NextBatch \/ NextMessage \/ GiveUp \/ Wake \/ Answer
           \/ \E r \in Receiver : CopyTo(r)
    PROVE  TimeInv'
<1>1. /\ UNCHANGED <<batches, age, accepted, tried, took, round, stalled>>
      /\ \/ UNCHANGED <<pc, timer>>
         \/ pc = "next" /\ pc' = "sleep" /\ timer' = Pause
         \/ pc = "next" /\ pc' = "copy" /\ UNCHANGED timer
         \/ pc = "send" /\ pc' = "next" /\ UNCHANGED timer
         \/ pc = "sleep" /\ timer = 0 /\ pc' = "drop" /\ UNCHANGED timer
    BY DEF NextBatch, NextMessage, CopyTo, GiveUp, Wake, Answer, SendReturns,
           roundVars
<1> PICK x : x = Cardinality(round) * SendLimit
    OBVIOUS
<1>2. x \in Nat /\ Pause \in Nat /\ timer \in Nat
    BY RoundFinite, MsgSenderAssumption DEF TimeInv, TimerInv
<1>3. TimerInv'
    BY <1>1, <1>2 DEF TimeInv, TimerInv
<1>4. Spent = x + (IF pc \in {"drop", "take", "sleep"} THEN Pause ELSE 0)
                - (IF pc \in {"send", "sleep"} THEN timer ELSE 0)
    BY DEF Spent
<1>5. Spent' = x + (IF pc' \in {"drop", "take", "sleep"} THEN Pause ELSE 0)
                 - (IF pc' \in {"send", "sleep"} THEN timer' ELSE 0)
    BY <1>1 DEF Spent
<1>6. Spent' >= Spent
    BY <1>1, <1>2, <1>4, <1>5
<1> QED
    BY <1>1, <1>3, <1>6, TimeKeep

LEMMA NextTimeInv ==
    LoopInv /\ LoopInv' /\ RoundInv /\ RoundInv' /\ TimeInv /\ [Next]_vars => TimeInv'
<1> SUFFICES ASSUME LoopInv, LoopInv', RoundInv, RoundInv', TimeInv, [Next]_vars
             PROVE  TimeInv'
    OBVIOUS
<1>1. ASSUME UNCHANGED <<batches, age, pc, timer, accepted, took, round, stalled>>,
             tried \subseteq tried'
      PROVE  TimeInv'
    <2>1. Spent' = Spent /\ Spent \in Nat
        BY <1>1, SpentType DEF Spent, TimeInv
    <2>2. TimerInv'
        BY <1>1 DEF TimeInv, TimerInv
    <2> QED
        BY <1>1, <2>1, <2>2, TimeKeep
<1>2. ASSUME NEW c \in Caller, Call(c) PROVE TimeInv'
    <2>1. /\ UNCHANGED <<batches, age, loopVars, accepted, took, round, stalled>>
          /\ tried \subseteq tried'
        BY <1>2 DEF Call, SendMessage, SendAnswered, Offer, Return, roundVars
    <2> QED
        BY <1>1, <2>1 DEF loopVars
<1>3. ASSUME NEW r \in Receiver, Consume(r) PROVE TimeInv'
    BY <1>1, <1>3 DEF Consume, loopVars, roundVars
<1>4. CASE UNCHANGED vars
    BY <1>1, <1>4 DEF vars, loopVars, roundVars
<1>5. \/ \E b \in Batch : Accept(b)
      \/ DropExpired \/ Take \/ BeginSend \/ Tick
      \/ \/ NextBatch \/ NextMessage \/ GiveUp \/ Wake \/ Answer
         \/ \E r \in Receiver : CopyTo(r)
      \/ \E c \in Caller : Call(c)
      \/ \E r \in Receiver : Consume(r)
      \/ UNCHANGED vars
    BY DEF Next, Loop
<1> QED
    BY <1>2, <1>3, <1>4, <1>5, TimeAccept, TimeDrop, TimeTake, TimeBeginSend,
       TimeTick, TimeLoop

LEMMA SenderInvariant == Spec => [](LoopInv /\ RoundInv /\ TimeInv)
<1>1. /\ LoopInv /\ RoundInv /\ TimeInv /\ [Next]_vars
      => (LoopInv /\ RoundInv /\ TimeInv)'
    <2> SUFFICES ASSUME LoopInv, RoundInv, TimeInv, [Next]_vars
                 PROVE  LoopInv' /\ RoundInv' /\ TimeInv'
        OBVIOUS
    <2>1. LoopInv' /\ RoundInv'
        BY NextLoopInv, NextRoundInv
    <2> QED
        BY <2>1, NextTimeInv
<1> QED
    BY <1>1, InitLoopInv, InitRoundInv, InitTimeInv, PTL DEF Spec

\* For any number of batches of any size, any TTL, pause and limit of a send:
\* while no receiver holds the loop up, a batch the others leave time for is
\* dropped only after each of its valid messages has been tried.
THEOREM FittingIsTried == Spec => []TriedBeforeDropped
<1>1. TimeInv => TriedBeforeDropped
    BY DEF TimeInv
<1> QED
    BY <1>1, SenderInvariant, PTL

\* And no message is sent later than its batch's TTL and a whole round, of the
\* batches that were taken, after the batch was accepted.
THEOREM SendsEndInTime == Spec => []SendsEndAfterTTL
<1>1. LoopInv /\ RoundInv /\ TimeInv => SendsEndAfterTTL
    <2> SUFFICES ASSUME LoopInv, RoundInv, TimeInv, pc = "send", ~stalled
                 PROVE  age[Head(queue)] <= TTL + Load(took) * SendLimit
        BY DEF SendsEndAfterTTL
    <2>1. Head(queue) \in took /\ Head(queue) \in Batch
        BY TailParts DEF LoopInv
    <2>2. age[Head(queue)] <= TTL + Spent /\ age[Head(queue)] \in Nat
        BY <2>1 DEF TimeInv, LateInv, AgeInv
    <2>3. Spent <= Load(took) * SendLimit
        <3>1. timer \in Nat /\ Spent = Cardinality(round) * SendLimit - timer
            BY RoundFinite DEF TimeInv, TimerInv, Spent
        <3> QED
            BY <3>1, RoundFinite
    <2>4. Spent \in Nat
        BY SpentType DEF TimeInv
    <2>5. Load(took) * SendLimit \in Nat
        BY RoundFinite
    <2> QED
        BY <2>2, <2>3, <2>4, <2>5, MsgSenderAssumption
<1> QED
    BY <1>1, SenderInvariant, PTL
=============================================================================
