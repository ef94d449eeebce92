----------------------------- MODULE Intentions -----------------------------
(***************************************************************************)
(* pkg/bath/intentions.go: the messages a wallet was told to send that led *)
(* to no transaction, shown as failed actions beside those found in the    *)
(* trace.  A message and the transaction it led to are told to belong      *)
(* together by what both say: destination, value, body.                    *)
(*                                                                         *)
(* The trace is that of one transaction of a wallet: of its messages, in   *)
(* the order it was told them, some have arrived.  The value of a message  *)
(* is as it was told, or less its fee (a mode without "pay fees apart"),   *)
(* or whatever the wallet had (128 and above).                             *)
(***************************************************************************)
EXTENDS Integers, Sequences, FiniteSets, SequencesExt

CONSTANTS
    Told,      \* messages a wallet may be told to send
    MaxTold,   \* bound: how many of them
    MaxBelow   \* bound: transactions below those of its messages

ASSUME IntentionsAssumption ==
    /\ \A m \in Told : m.mode \in {"apart", "inside", "all"}
    /\ MaxTold \in Nat /\ MaxBelow \in Nat

VARIABLE enrich   \* a call of EnrichWithIntentions

Value == 2   \* in every message; of it the fee is taken

\* msgs: what the wallet was told; arrived: those with a transaction; below: how
\* many transactions come after these; relayed: the wallet got its order in a
\* message; known: the wallet's transaction is one of an action found; left:
\* messages the loop has still to add; actions: the list.
EnrichInit == enrich = [pc |-> "idle", msgs |-> <<>>, arrived |-> {}, below |-> 0,
                        relayed |-> FALSE, known |-> FALSE, left |-> {}, actions |-> <<>>]

AskEnrich ==
    /\ enrich.pc = "idle"
    /\ \E n \in 1..MaxTold : \E msgs \in [1..n -> Told] :
       \E arrived \in SUBSET (1..n), below \in 0..MaxBelow :
       \E relayed, known \in BOOLEAN :
          /\ below > 0 => arrived # {}
          /\ enrich' = [enrich EXCEPT !.pc = "asked", !.msgs = msgs, !.arrived = arrived,
                        !.below = below, !.relayed = relayed, !.known = known]

\* The message of the transaction m led to: the decoder does not know a cell.
Arrival(m) ==
    [dest |-> m.dest, body |-> m.body, id |-> m.id,
     value |-> CASE m.mode = "apart" -> Value
                 [] m.mode = "inside" -> Value - 1
                 [] m.mode = "all" -> Value + 1]

-----------------------------------------------------------------------------
\* Mutant: a message of mode 128 is expected to arrive with its value.
SameValue(m, in) == m.dest = in.dest /\ in.value = Value

CompareMessageFields(m, in) ==
    m.dest = in.dest /\ (m.mode = "all" \/ in.value = Value)

\* Bodies of a type nobody compares are taken to be the same.
IsMatch(m, in) ==
    /\ CompareMessageFields(m, in)
    /\ m.body = in.body
    /\ m.body = "text" => m.id = in.id

\* Children of the transactions of the trace, each with a message: those of the
\* wallet's messages, those further down, and the wallet itself if it is not at
\* the root.  Only the first match a message here; what comes further down goes
\* elsewhere.
InMsgCount(e) == Cardinality(e.arrived) + e.below + (IF e.relayed THEN 1 ELSE 0)
MoreTold(e) == Len(e.msgs) > InMsgCount(e)

\* Mutant: a transaction takes one message only, and it is the first like it.
FirstOnly(e) ==
    {i \in DOMAIN e.msgs : \E j \in e.arrived :
        /\ IsMatch(e.msgs[i], Arrival(e.msgs[j]))
        /\ \A k \in 1..i - 1 : ~IsMatch(e.msgs[k], Arrival(e.msgs[j]))}

\* removeMatchedIntentions
Matched(e) ==
    {i \in DOMAIN e.msgs : \E j \in e.arrived : IsMatch(e.msgs[i], Arrival(e.msgs[j]))}
Unmatched(e) == IF MoreTold(e) THEN DOMAIN e.msgs \ Matched(e) ELSE {}

\* Actions found in the trace: one of somebody else, that of the wallet's
\* transaction, and of what came of it.
FoundAction(kind) == [kind |-> kind, msg |-> 0]
FoundActions(e) ==
    IF e.known THEN <<FoundAction("before"), FoundAction("wallet"), FoundAction("after")>>
    ELSE <<FoundAction("before"), FoundAction("after")>>
FailedAction(i) == [kind |-> "failed", msg |-> i]

\* Mutant: the new action takes the place of that of the wallet.
ReplaceAction(e, i) ==
    IF e.known THEN ReplaceAt(e.actions, 2, FailedAction(i))
    ELSE Append(e.actions, FailedAction(i))

\* A failed action for message i: right after the first action that the wallet's
\* transaction is part of, or at the end.
AddAction(e, i) ==
    IF e.known THEN InsertAt(e.actions, 3, FailedAction(i))
    ELSE Append(e.actions, FailedAction(i))

\* extractIntentions and removeMatchedIntentions
RemoveMatched ==
    /\ enrich.pc = "asked"
    /\ enrich' = [enrich EXCEPT !.pc = "adding", !.left = Unmatched(enrich),
                                !.actions = FoundActions(enrich)]

\* A turn of the loop, in the order of the messages.
AddFailed ==
    /\ enrich.pc = "adding"
    /\ \E i \in enrich.left :
          /\ \A j \in enrich.left : i <= j
          /\ enrich' = [enrich EXCEPT !.left = @ \ {i}, !.actions = AddAction(enrich, i)]

EnrichReturns ==
    /\ enrich.pc = "adding" /\ enrich.left = {}
    /\ enrich' = [enrich EXCEPT !.pc = "done"]

EnrichWithIntentions == RemoveMatched \/ AddFailed \/ EnrichReturns

EnrichNext == AskEnrich \/ EnrichWithIntentions
EnrichSpec == EnrichInit /\ [][EnrichNext]_enrich
-----------------------------------------------------------------------------
\* What nobody can tell apart: two texts say which is which, other bodies of one
\* type do not.
Alike(m, n) == m.dest = n.dest /\ m.body = n.body /\ (m.body = "text" => m.id = n.id)
AllApart(e) == \A i, j \in DOMAIN e.msgs : i # j => ~Alike(e.msgs[i], e.msgs[j])

\* Where message i is shown as failed.
ShownAt(e, i) == {k \in DOMAIN e.actions : e.actions[k] = FailedAction(i)}

\* The actions found stay, in their order; the failed ones are in one place, right
\* after the wallet's or last.
FoundStay(e) ==
    LET found == FoundActions(e)
        more == Len(e.actions) - Len(found)
        first == IF e.known THEN 2 ELSE Len(found)
    IN /\ more >= 0
       /\ \A k \in DOMAIN e.actions :
            /\ k <= first => e.actions[k] = found[k]
            /\ k > first /\ k <= first + more => e.actions[k].kind = "failed"
            /\ k > first + more => e.actions[k] = found[k - more]

\* What a list shows as lost: the actions found stay.  A message that arrived with
\* its value, or with all the wallet had, is never shown as failed however many
\* others are like it, and none is shown twice.  When the messages can be told
\* apart and there are more of them than transactions below the root, each one
\* that was lost is shown.
IntentionsRight ==
    enrich.pc = "done" =>
        /\ FoundStay(enrich)
        /\ \A i \in DOMAIN enrich.msgs :
             /\ i \in enrich.arrived /\ enrich.msgs[i].mode # "inside"
                   => ShownAt(enrich, i) = {}
             /\ \A k, l \in ShownAt(enrich, i) : k = l
             /\ i \notin enrich.arrived /\ AllApart(enrich) /\ MoreTold(enrich)
                   => ShownAt(enrich, i) # {}
=============================================================================
