------------------------------ MODULE MsgSender ------------------------------
(***************************************************************************)
(* pkg/blockchain/msg_sender.go: how external messages get to the lite     *)
(* servers.                                                                *)
(*                                                                         *)
(*   SendMultipleMessages  puts a batch into "batches" and returns;        *)
(*   the loop of NewMsgSender  drops the batches older than TTL, then      *)
(*       sends every message of the others, then sleeps; nothing is        *)
(*       removed on success, so a message is sent again in every round     *)
(*       until its batch expires;                                          *)
(*   SendMessage  sends one message on the goroutine of its caller.        *)
(*                                                                         *)
(* "receivers" get copies over buffered channels, Consume is the other     *)
(* end of one.  Which server an attempt picks does not matter here: any    *)
(* attempt may be answered, refused or hang.                               *)
(*                                                                         *)
(* Time is counted in ticks.  It passes while the loop sleeps, waits for   *)
(* a server or is blocked on a receiver; the steps between take no time.   *)
(***************************************************************************)
EXTENDS Integers, Sequences, FiniteSetsExt

CONSTANTS
    Batch,      \* the batches that may be handed over
    Size,       \* Size[b]: how many messages b has
    Invalid,    \* messages liteapi.VerifySendMessagePayload refuses
    Caller,     \* callers of SendMessage, each with one message
    Receiver,   \* receivers
    Cap,        \* capacity of a receiver's channel
    TTL,        \* ttl
    Pause,      \* what the loop sleeps between two rounds
    SendLimit,  \* what one message of a batch may take (context.WithTimeout)
    MaxTries,   \* attempts of send
    MaxAge      \* bound: ages are counted up to here

\* The messages: those of the batches, <<batch, index>>, and the callers'.
SlotsOf(b) == {b} \X (1..Size[b])
Slot == UNION {SlotsOf(b) : b \in Batch}
Msg == Slot \cup Caller

ASSUME MsgSenderAssumption ==
    /\ Size \in [Batch -> Nat]
    /\ Invalid \in SUBSET Msg
    /\ Slot \cap Caller = {}
    /\ Cap \in Nat /\ TTL \in Nat /\ Pause \in Nat /\ SendLimit \in Nat
    /\ MaxTries \in Nat \ {0}
    /\ MaxAge \in Nat /\ MaxAge > TTL

VARIABLES
    batches,   \* batches (under mu)
    age,       \* now - RecvAt of a batch
    pc,        \* where the loop is
    queue,     \* what is left of the batches the round took
    pos,       \* index in Head(queue) of the message at hand
    togo,      \* receivers the message at hand has still to go to
    tries,     \* attempts of the message at hand that failed
    timer,     \* ticks until the sleep or the context of the send ends
    caller,    \* caller[c]: control point, failed attempts, receivers to go
    buffer,    \* buffer[r]: the channel of receiver r
    accepted,  \* history: batches SendMultipleMessages took
    tried,     \* history: messages an attempt was made to send
    took,      \* history: the batches the round took
    round,     \* history: the messages it tried
    copied,    \* history: copied[m]: receivers m was put into the channel of
    stalled    \* history: time has passed while the loop waited for a receiver

loopVars == <<pc, queue, pos, togo, tries, timer>>
vars == <<batches, age, loopVars, caller, buffer, accepted, tried,
          took, round, copied, stalled>>
roundVars == <<took, round>>

Valid == Msg \ Invalid
Current == <<Head(queue), pos>>

Init ==
    /\ batches = <<>>
    /\ age = [b \in Batch |-> 0]
    /\ pc = "drop" /\ queue = <<>> /\ pos = 1
    /\ togo = {} /\ tries = 0 /\ timer = 0
    /\ caller = [c \in Caller |-> [pc |-> "idle", tries |-> 0, togo |-> {}]]
    /\ buffer = [r \in Receiver |-> <<>>]
    /\ accepted = {} /\ tried = {}
    /\ took = {} /\ round = {}
    /\ copied = [m \in Msg |-> {}]
    /\ stalled = FALSE

-----------------------------------------------------------------------------
(* SendMultipleMessages. *)

Accept(b) ==
    /\ b \notin accepted
    /\ Size[b] > 0
    /\ batches' = Append(batches, b)
    /\ accepted' = accepted \cup {b}
    /\ UNCHANGED <<age, loopVars, caller, buffer, tried, roundVars, copied,
                   stalled>>

-----------------------------------------------------------------------------
(* The loop. *)

\* The elements of s that are in T, in order: kept[i] are those of the first i.
Kept(s, T) ==
    LET kept[i \in 0..Len(s)] ==
            IF i = 0 THEN <<>>
            ELSE IF s[i] \in T THEN Append(kept[i-1], s[i]) ELSE kept[i-1]
    IN kept[Len(s)]

\* Mutant: dropped at TTL, not after it.
DropAtTTL ==
    /\ pc = "drop"
    /\ pc' = "take"
    /\ batches' = Kept(batches, {b \in Batch : age[b] < TTL})
    /\ UNCHANGED <<age, queue, pos, togo, tries, timer, caller, buffer,
                   accepted, tried, roundVars, copied, stalled>>

DropExpired ==
    /\ pc = "drop"
    /\ pc' = "take"
    /\ batches' = Kept(batches, {b \in Batch : age[b] <= TTL})
    /\ UNCHANGED <<age, queue, pos, togo, tries, timer, caller, buffer,
                   accepted, tried, roundVars, copied, stalled>>

\* batchesReadyForSending
Take ==
    /\ pc = "take"
    /\ pc' = "next"
    /\ queue' = batches
    /\ pos' = 1
    /\ took' = Range(batches)
    /\ round' = {}
    /\ UNCHANGED <<batches, age, togo, tries, timer, caller, buffer, accepted,
                   tried, copied, stalled>>

\* The loops of sendBatches: the next batch, or the end of the round.
NextBatch ==
    /\ pc = "next"
    /\ \/ /\ queue = <<>>
          /\ pc' = "sleep" /\ timer' = Pause
          /\ UNCHANGED <<queue, pos>>
       \/ /\ queue # <<>> /\ pos > Size[Head(queue)]
          /\ queue' = Tail(queue) /\ pos' = 1
          /\ UNCHANGED <<pc, timer>>
    /\ UNCHANGED <<batches, age, togo, tries, caller, buffer, accepted, tried,
                   roundVars, copied, stalled>>

\* sendMessageFromBatch: an invalid message is left out.
NextMessage ==
    /\ pc = "next" /\ queue # <<>> /\ pos <= Size[Head(queue)]
    /\ IF Current \in Invalid
       THEN pos' = pos + 1 /\ UNCHANGED <<pc, togo>>
       ELSE pc' = "copy" /\ togo' = Receiver /\ UNCHANGED pos
    /\ UNCHANGED <<batches, age, queue, tries, timer, caller, buffer,
                   accepted, tried, roundVars, copied, stalled>>

\* Mutant: a receiver that is too slow is passed over.
CopyOrDrop(r) ==
    /\ pc = "copy" /\ r \in togo
    /\ togo' = togo \ {r}
    /\ IF Len(buffer[r]) < Cap
       THEN /\ buffer' = [buffer EXCEPT ![r] = Append(@, Current)]
            /\ copied' = [copied EXCEPT ![Current] = @ \cup {r}]
       ELSE UNCHANGED <<buffer, copied>>
    /\ UNCHANGED <<batches, age, pc, queue, pos, tries, timer, caller,
                   accepted, tried, roundVars, stalled>>

\* The send to the channel of r blocks while it is full.
CopyTo(r) ==
    /\ pc = "copy" /\ r \in togo
    /\ Len(buffer[r]) < Cap
    /\ buffer' = [buffer EXCEPT ![r] = Append(@, Current)]
    /\ copied' = [copied EXCEPT ![Current] = @ \cup {r}]
    /\ togo' = togo \ {r}
    /\ UNCHANGED <<batches, age, pc, queue, pos, tries, timer, caller,
                   accepted, tried, roundVars, stalled>>

BeginSend ==
    /\ pc = "copy" /\ togo = {}
    /\ pc' = "send"
    /\ tries' = 0
    /\ timer' = SendLimit
    /\ tried' = tried \cup {Current}
    /\ round' = round \cup {Current}
    /\ UNCHANGED <<batches, age, queue, pos, togo, caller, buffer, accepted,
                   took, copied, stalled>>

\* Mutant: the first message of a batch ends it.
SendEndsBatch ==
    /\ pc' = "next"
    /\ queue' = Tail(queue)
    /\ pos' = 1
    /\ UNCHANGED <<togo, tries, timer>>

\* The loop goes on with the next message, whatever came of this one.
SendReturns ==
    /\ pc' = "next"
    /\ pos' = pos + 1
    /\ UNCHANGED <<queue, togo, tries, timer>>

\* A server answers before the context ends: with success, or with an error
\* that leads to another attempt or, after the last, to the next message.
Answer ==
    /\ pc = "send" /\ timer > 0
    /\ \/ SendReturns
       \/ /\ tries + 1 < MaxTries
          /\ tries' = tries + 1
          /\ UNCHANGED <<pc, queue, pos, togo, timer>>
    /\ UNCHANGED <<batches, age, caller, buffer, accepted, tried, roundVars,
                   copied, stalled>>

\* Mutant: attempts go on until a server takes the message.
NeverGiveUp == pc = "send" /\ timer = 0 /\ UNCHANGED vars

\* The context has ended: no further attempt.
GiveUp ==
    /\ pc = "send" /\ timer = 0
    /\ SendReturns
    /\ UNCHANGED <<batches, age, caller, buffer, accepted, tried, roundVars,
                   copied, stalled>>

\* Mutant: only the first round drops what has expired.
WakeToTake ==
    /\ pc = "sleep" /\ timer = 0
    /\ pc' = "take"
    /\ UNCHANGED <<batches, age, queue, pos, togo, tries, timer, caller,
                   buffer, accepted, tried, roundVars, copied, stalled>>

Wake ==
    /\ pc = "sleep" /\ timer = 0
    /\ pc' = "drop"
    /\ UNCHANGED <<batches, age, queue, pos, togo, tries, timer, caller,
                   buffer, accepted, tried, roundVars, copied, stalled>>

-----------------------------------------------------------------------------
(* SendMessage, on the goroutine of caller c. *)

\* The first attempt, unless the message is refused.
SendMessage(c) ==
    /\ caller[c].pc = "idle"
    /\ IF c \in Invalid
       THEN /\ caller' = [caller EXCEPT ![c].pc = "done"]
            /\ UNCHANGED tried
       ELSE /\ caller' = [caller EXCEPT ![c].pc = "send"]
            /\ tried' = tried \cup {c}
    /\ UNCHANGED <<batches, age, loopVars, buffer, accepted, roundVars,
                   copied, stalled>>

\* Success, another attempt, or an error: of the last attempt, or of an earlier
\* one when the caller has gone away.
SendAnswered(c) ==
    /\ caller[c].pc = "send"
    /\ \/ caller' = [caller EXCEPT ![c].pc = "offer", ![c].togo = Receiver]
       \/ /\ caller[c].tries + 1 < MaxTries
          /\ caller' = [caller EXCEPT ![c].tries = @ + 1]
       \/ caller' = [caller EXCEPT ![c].pc = "done"]
    /\ UNCHANGED <<batches, age, loopVars, buffer, accepted, tried, roundVars,
                   copied, stalled>>

\* select with a default: a receiver whose channel is full gets no copy.
Offer(c, r) ==
    /\ caller[c].pc = "offer" /\ r \in caller[c].togo
    /\ caller' = [caller EXCEPT ![c].togo = @ \ {r}]
    /\ IF Len(buffer[r]) < Cap
       THEN /\ buffer' = [buffer EXCEPT ![r] = Append(@, c)]
            /\ copied' = [copied EXCEPT ![c] = @ \cup {r}]
       ELSE UNCHANGED <<buffer, copied>>
    /\ UNCHANGED <<batches, age, loopVars, accepted, tried, roundVars, stalled>>

Return(c) ==
    /\ caller[c].pc = "offer" /\ caller[c].togo = {}
    /\ caller' = [caller EXCEPT ![c].pc = "done"]
    /\ UNCHANGED <<batches, age, loopVars, buffer, accepted, tried, roundVars,
                   copied, stalled>>

-----------------------------------------------------------------------------
(* The environment. *)

Consume(r) ==
    /\ buffer[r] # <<>>
    /\ buffer' = [buffer EXCEPT ![r] = Tail(@)]
    /\ UNCHANGED <<batches, age, loopVars, caller, accepted, tried, roundVars,
                   copied, stalled>>

Blocked == pc = "copy" /\ \E r \in togo : Len(buffer[r]) = Cap
Waiting == Blocked \/ (pc \in {"send", "sleep"} /\ timer > 0)

Tick ==
    /\ Waiting
    /\ age' = [b \in Batch |-> IF b \in accepted /\ age[b] < MaxAge
                               THEN age[b] + 1 ELSE age[b]]
    /\ timer' = IF pc = "copy" THEN timer ELSE timer - 1
    /\ stalled' = (stalled \/ pc = "copy")
    /\ UNCHANGED <<batches, pc, queue, pos, togo, tries, caller, buffer,
                   accepted, tried, roundVars, copied>>

-----------------------------------------------------------------------------
\* What the loop does on its own, without an answer from a server.
Loop ==
    \/ DropExpired \/ Take \/ NextBatch \/ NextMessage
    \/ \E r \in Receiver : CopyTo(r)
    \/ BeginSend \/ GiveUp \/ Wake

Call(c) ==
    \/ SendMessage(c) \/ SendAnswered(c) \/ Return(c)
    \/ \E r \in Receiver : Offer(c, r)

Next ==
    \/ \E b \in Batch : Accept(b)
    \/ Loop
    \/ Answer
    \/ \E c \in Caller : Call(c)
    \/ \E r \in Receiver : Consume(r)
    \/ Tick

Spec == Init /\ [][Next]_vars

\* The loop is one goroutine that is never starved, and time passes.  Nothing is
\* assumed of the servers, the context of a send ends without them, and nothing
\* of the receivers.
FairSpec == Spec /\ WF_vars(Loop) /\ WF_vars(Tick)

-----------------------------------------------------------------------------
(* Properties *)

CallerState ==
    [pc : {"idle", "send", "offer", "done"},
     tries : 0..MaxTries-1, togo : SUBSET Receiver]

TypeOK ==
    /\ batches \in Seq(Batch)
    /\ age \in [Batch -> 0..MaxAge]
    /\ pc \in {"drop", "take", "next", "copy", "send", "sleep"}
    /\ queue \in Seq(Batch)
    /\ pos \in Nat \ {0}
    /\ pc \in {"copy", "send"} => queue # <<>> /\ pos <= Size[Head(queue)]
    /\ togo \in SUBSET Receiver
    /\ tries \in 0..MaxTries-1
    /\ timer \in 0..(IF Pause > SendLimit THEN Pause ELSE SendLimit)
    /\ caller \in [Caller -> CallerState]
    /\ buffer \in [Receiver -> Seq(Msg)]
    /\ \A r \in Receiver : Len(buffer[r]) <= Cap
    /\ accepted \in SUBSET Batch
    /\ tried \in SUBSET Valid
    /\ took \in SUBSET Batch
    /\ round \in SUBSET Slot
    /\ copied \in [Msg -> SUBSET Receiver]
    /\ stalled \in BOOLEAN

\* "receivers get a copy of a message before sending it to the blockchain"
\* (msg_sender.go:26): SendMessage does it the other way round, but the loop keeps
\* that order.  However slow the receivers and whatever the callers push into the
\* same channels, no message of a batch is tried before every receiver has a copy.
BatchCopyBeforeSend == \A m \in tried \cap Slot : copied[m] = Receiver

\* sendBatches goes on after a message that failed, and batches handed over or
\* dropped meanwhile do not disturb it: a batch the round took and has left
\* behind has had every valid message tried in that round.
RoundLeavesNoneOut ==
    \A b \in took \ Range(queue) : SlotsOf(b) \cap Valid \subseteq round

\* What the loop sends of the batches of S, and what that takes at most, in sends.
Due(S) == (UNION {SlotsOf(b) : b \in S}) \cap Valid
Load(S) == Cardinality(Due(S))

\* The batches accepted so far leave time for b: if it came just after the round
\* took its batches, it waits for all of them, each message for its full
\* SendLimit, and for the sleep.
Fits(b) == Load(accepted \ {b}) * SendLimit + Pause <= TTL

\* As long as the others leave time for it and no receiver holds the loop up, no
\* batch expires untried.
TriedBeforeDropped ==
    ~stalled =>
        \A b \in accepted \ Range(batches) :
            Fits(b) => SlotsOf(b) \cap Valid \subseteq tried

\* A batch is compared with TTL before the round, not before the send; still the
\* sends of a batch end at most a round after its TTL.
SendsEndAfterTTL ==
    (pc = "send" /\ ~stalled)
        => age[Head(queue)] <= TTL + Load(took) * SendLimit

\* Whatever the servers do, a batch is forgotten at last, unless a receiver
\* stops reading and the loop with it.
BatchIsForgotten ==
    \A b \in Batch :
        b \in accepted ~> (b \notin Range(batches) \/ []Blocked)
=============================================================================
