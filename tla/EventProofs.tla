----------------------------- MODULE EventProofs -----------------------------
(***************************************************************************)
(* Proofs about the handlers of events.                                    *)
(*                                                                         *)
(*   InfosAreWhole  handlers that share a trace never leave it with half   *)
(*       an info nor overwrite what the emulation found, for any number of *)
(*       handlers, nodes and kinds of info.  The lock of a node is not     *)
(*       held between the two walks, so the invariant says what the second *)
(*       may rely on: a node that was passed over in the first walk has an *)
(*       info, an info is never taken away, and for all other nodes        *)
(*       everything has been looked up.                                    *)
(*   PagesLoseNothing  the pages of GetAccountEvents have each trace of    *)
(*       the history once: the traces of a page follow each other (Found-  *)
(*       Inv), a pending event takes the place of the last of them only    *)
(*       (EventsInv), and so what has been seen has no gap (SeenInv).      *)
(*   AnswersFitWhatWasFound  the status of an answer is that of what was   *)
(*       found, and what is on chain is not shown as pending.              *)
(*   DuplicatesAreTold  a message is not sent again within a minute: the   *)
(*       ticks an entry has left and the age of the answer add up.         *)
(***************************************************************************)
EXTENDS TraceInfo, EventPage, EventAnswer, SendBlacklist, TLAPS

-----------------------------------------------------------------------------
(* The infos of a trace. *)

Fields == {"pc", "merged", "at", "asked", "found"}

ShapeInv ==
    /\ DOMAIN cached = 1..OnChain
    /\ DOMAIN own = Collector /\ DOMAIN coll = Collector
    /\ \A c \in Collector :
          DOMAIN own[c] = 1..InEmulated /\ DOMAIN coll[c] = Fields

\* Where a handler is.
PlaceInv(c) ==
    /\ coll[c].at \in Nat \ {0}
    /\ coll[c].pc = "idle" => coll[c].merged = FALSE /\ coll[c].at = 1
    /\ coll[c].pc = "copy" => coll[c].merged /\ coll[c].at \in 1..OnChain
    /\ coll[c].pc \in {"ask", "fill", "set"} => coll[c].at \in Nodes(c)
    /\ coll[c].pc = "lookup" => coll[c].at = 1

\* An info a handler has set is whole.
WholeInv ==
    /\ \A n \in 1..OnChain :
          cached[n].by \in Collector => cached[n].kinds = Needs[n]
    /\ \A c \in Collector : \A n \in 1..InEmulated :
          own[c][n].by \in Collector => own[c][n].kinds = Needs[n]

\* What the emulation found stays, or is what the chain has; and who works on an
\* emulated trace has set nothing in the one of the chain.
OwnerInv(c) ==
    /\ coll[c].merged \/ coll[c].pc = "idle" =>
          \A n \in 1..OnChain : cached[n].by # c
    /\ coll[c].merged =>
          \A n \in DOMAIN Emulated \cap (1..InEmulated) :
              own[c][n] # NoInfo /\ own[c][n].by # c

\* The nodes the first walk has seen have an info or are asked for.
AskInv(c) ==
    \A n \in Nodes(c) :
        (\/ coll[c].pc = "ask" /\ n < coll[c].at
         \/ coll[c].pc \in {"lookup", "fill", "set"})
        => n \in coll[c].asked \/ InfoAt(c, n) # NoInfo

\* Everything has been looked up for the nodes asked for, and the nodes the second
\* walk has seen have an info.
FillInv(c) ==
    /\ coll[c].pc \in {"fill", "set"} => coll[c].found = Wanted(c)
    /\ coll[c].pc \in {"fill", "set"} =>
          \A n \in Nodes(c) : n < coll[c].at => InfoAt(c, n) # NoInfo
    /\ coll[c].pc = "set" => coll[c].at \in coll[c].asked
    /\ coll[c].pc = "set" /\ coll[c].merged => own[c][coll[c].at] = NoInfo
    /\ coll[c].pc = "done" => \A n \in Nodes(c) : InfoAt(c, n) # NoInfo

HandlerInv(c) == PlaceInv(c) /\ OwnerInv(c) /\ AskInv(c) /\ FillInv(c)

InfoInv == ShapeInv /\ WholeInv /\ \A c \in Collector : HandlerInv(c)

\* What Set does to the fields of a handler.
LEMMA SetFields ==
    ASSUME NEW c \in Collector, NEW fields, ShapeInv, Set(c, fields)
    PROVE  /\ DOMAIN coll' = Collector
           /\ \A d \in Collector \ {c} : coll'[d] = coll[d]
           /\ DOMAIN coll'[c] = Fields
           /\ \A f \in Fields :
                coll'[c][f] = IF f \in DOMAIN fields THEN fields[f] ELSE coll[c][f]
BY DEF ShapeInv, Set

LEMMA SetPc ==
    ASSUME NEW c \in Collector, NEW to, ShapeInv, Set(c, [pc |-> to])
    PROVE  /\ DOMAIN coll' = Collector /\ DOMAIN coll'[c] = Fields
           /\ \A d \in Collector \ {c} : coll'[d] = coll[d]
           /\ coll'[c].pc = to
           /\ coll'[c].merged = coll[c].merged /\ coll'[c].at = coll[c].at
           /\ coll'[c].asked = coll[c].asked /\ coll'[c].found = coll[c].found
BY SetFields DEF Fields

LEMMA SetPcAt ==
    ASSUME NEW c \in Collector, NEW to, NEW at, ShapeInv,
           Set(c, [pc |-> to, at |-> at])
    PROVE  /\ DOMAIN coll' = Collector /\ DOMAIN coll'[c] = Fields
           /\ \A d \in Collector \ {c} : coll'[d] = coll[d]
           /\ coll'[c].pc = to /\ coll'[c].at = at
           /\ coll'[c].merged = coll[c].merged
           /\ coll'[c].asked = coll[c].asked /\ coll'[c].found = coll[c].found
BY SetFields DEF Fields

\* The next node, or the first of what comes after the last.
LEMMA NodesUpTo ==
    ASSUME InfoInv, NEW c \in Collector,
           coll[c].pc \in {"ask", "fill", "set"}
    PROVE  /\ coll[c].at \in Nodes(c) /\ 1 \in Nodes(c)
           /\ \A n \in Nodes(c) : n \in Nat
           /\ coll[c].at + 1 \notin Nodes(c) =>
                  \A n \in Nodes(c) : n <= coll[c].at
<1>1. /\ Nodes(c) = 1..OnChain \/ Nodes(c) = 1..InEmulated
      /\ OnChain \in Nat \ {0} /\ InEmulated \in Nat \ {0}
    BY InfoAssumption DEF Nodes
<1>2. coll[c].at \in Nodes(c)
    BY DEF InfoInv, HandlerInv, PlaceInv
<1> QED
    BY <1>1, <1>2

\* What a step of c leaves of another handler: it adds infos to the trace of the
\* chain, in its own name, and nothing else.
LEMMA Others ==
    ASSUME InfoInv, NEW c \in Collector, NEW d \in Collector, d # c,
           coll'[d] = coll[d], own'[d] = own[d],
           \A n \in 1..OnChain : \/ cached'[n] = cached[n]
                                 \/ cached'[n].by = c /\ cached'[n] # NoInfo
    PROVE  HandlerInv(d)'
<1>1. HandlerInv(d)
    BY DEF InfoInv
<1>2. PlaceInv(d)' /\ OwnerInv(d)'
    BY <1>1 DEF HandlerInv, PlaceInv, OwnerInv, Nodes
<1>3. /\ Nodes(d)' = Nodes(d)
      /\ \A n \in Nodes(d) : InfoAt(d, n) # NoInfo => InfoAt(d, n)' # NoInfo
    BY DEF Nodes, InfoAt
<1>4. AskInv(d)'
    BY <1>1, <1>3 DEF HandlerInv, AskInv
<1>5. Wanted(d)' = Wanted(d)
    BY DEF Wanted
<1>6. FillInv(d)'
    BY <1>1, <1>3, <1>5 DEF HandlerInv, FillInv
<1> QED
    BY <1>2, <1>4, <1>6 DEF HandlerInv

LEMMA InitInfoInv == InfoInit => InfoInv
<1> SUFFICES ASSUME InfoInit PROVE InfoInv
    OBVIOUS
<1>1. ShapeInv
    BY DEF InfoInit, ShapeInv, Fields
<1>2. NoInfo.by \notin Collector
    BY InfoAssumption DEF NoInfo
<1>3. /\ \A n \in 1..OnChain : cached[n] = NoInfo
      /\ \A c \in Collector : /\ \A n \in 1..InEmulated : own[c][n] = NoInfo
                              /\ coll[c].pc = "idle" /\ coll[c].merged = FALSE
                              /\ coll[c].at = 1
    BY DEF InfoInit
<1>4. WholeInv
    BY <1>2, <1>3 DEF WholeInv
<1>5. ASSUME NEW c \in Collector PROVE HandlerInv(c)
    <2>1. PlaceInv(c)
        BY <1>3 DEF PlaceInv
    <2>2. OwnerInv(c)
        BY <1>2, <1>3 DEF OwnerInv
    <2>3. AskInv(c) /\ FillInv(c)
        BY <1>3 DEF AskInv, FillInv
    <2> QED
        BY <2>1, <2>2, <2>3 DEF HandlerInv
<1> QED
    BY <1>1, <1>4, <1>5 DEF InfoInv

LEMMA StepNotEmulated ==
    ASSUME InfoInv, NEW c \in Collector, NotEmulated(c)
    PROVE  InfoInv'
<1>1. /\ coll[c].pc = "idle" /\ UNCHANGED <<cached, own>>
      /\ Set(c, [pc |-> "ask"]) /\ ShapeInv
    BY DEF NotEmulated, At, InfoInv
<1>2. /\ DOMAIN coll' = Collector /\ DOMAIN coll'[c] = Fields
      /\ \A d \in Collector \ {c} : coll'[d] = coll[d]
      /\ coll'[c].pc = "ask"
      /\ coll'[c].merged = FALSE /\ coll'[c].at = 1
    BY <1>1, SetPc DEF InfoInv, HandlerInv, PlaceInv
<1>3. ShapeInv' /\ PlaceInv(c)'
    <2>1. ShapeInv'
        BY <1>1, <1>2 DEF ShapeInv
    <2>2. PlaceInv(c)'
        BY InfoAssumption, <1>1, <1>2 DEF PlaceInv, Nodes
    <2> QED
        BY <2>1, <2>2
<1>4. WholeInv'
    BY <1>1 DEF InfoInv, WholeInv
<1>5. HandlerInv(c)'
    BY <1>2, <1>3 DEF HandlerInv, OwnerInv, AskInv, FillInv, Nodes
<1> QED
    BY <1>1, <1>2, <1>3, <1>4, <1>5, Others DEF InfoInv

LEMMA StepLoadEmulated ==
    ASSUME InfoInv, NEW c \in Collector, LoadEmulated(c)
    PROVE  InfoInv'
<1> DEFINE loaded == [n \in 1..InEmulated |->
          IF n \in DOMAIN Emulated THEN Info("emulation", Emulated[n] \ NotSaved)
          ELSE NoInfo]
<1>1. /\ coll[c].pc = "idle" /\ UNCHANGED cached
      /\ Set(c, [pc |-> "copy", merged |-> TRUE]) /\ ShapeInv
      /\ own' = [own EXCEPT ![c] = loaded]
    BY DEF LoadEmulated, At, InfoInv
<1>2. /\ DOMAIN coll' = Collector /\ DOMAIN coll'[c] = Fields
      /\ \A d \in Collector \ {c} : coll'[d] = coll[d]
      /\ coll'[c].pc = "copy"
      /\ coll'[c].merged = TRUE /\ coll'[c].at = 1
    BY <1>1, SetFields DEF Fields, InfoInv, HandlerInv, PlaceInv
<1>3. /\ DOMAIN loaded = 1..InEmulated
      /\ \A n \in 1..InEmulated : loaded[n].by \notin Collector
      /\ \A n \in DOMAIN Emulated \cap (1..InEmulated) : loaded[n] # NoInfo
    BY InfoAssumption DEF Info, NoInfo
<1> HIDE DEF loaded
<1>4. /\ DOMAIN own' = Collector /\ own'[c] = loaded
      /\ \A d \in Collector \ {c} : own'[d] = own[d]
    BY <1>1 DEF ShapeInv
<1>5. ShapeInv' /\ PlaceInv(c)'
    <2>1. ShapeInv'
        BY <1>1, <1>2, <1>3, <1>4 DEF ShapeInv
    <2>2. PlaceInv(c)'
        BY InfoAssumption, <1>1, <1>2, <1>3, <1>4 DEF PlaceInv
    <2> QED
        BY <2>1, <2>2
<1>6. WholeInv'
    BY <1>1, <1>3, <1>4 DEF InfoInv, WholeInv
<1>7. HandlerInv(c)'
    BY <1>1, <1>2, <1>3, <1>4, <1>5
    DEF InfoInv, HandlerInv, OwnerInv, AskInv, FillInv
<1> QED
    BY <1>1, <1>2, <1>4, <1>5, <1>6, <1>7, Others DEF InfoInv

LEMMA StepCopyTraceData ==
    ASSUME InfoInv, NEW c \in Collector, CopyTraceData(c)
    PROVE  InfoInv'
<1> PICK n \in 1..OnChain : n = coll[c].at
    BY DEF CopyTraceData, At, InfoInv, HandlerInv, PlaceInv
<1>1. /\ coll[c].pc = "copy" /\ UNCHANGED cached /\ ShapeInv
      /\ own' = IF cached[n] # NoInfo THEN [own EXCEPT ![c][n] = cached[n]] ELSE own
      /\ \/ n < OnChain /\ Set(c, [at |-> n + 1])
         \/ ~(n < OnChain) /\ Set(c, [pc |-> "ask", at |-> 1])
    BY DEF CopyTraceData, At, InfoInv
<1>2. coll[c].merged = TRUE
    BY <1>1 DEF InfoInv, HandlerInv, PlaceInv
<1>3. /\ DOMAIN coll' = Collector /\ DOMAIN coll'[c] = Fields
      /\ \A d \in Collector \ {c} : coll'[d] = coll[d]
      /\ coll'[c].merged = TRUE
      /\ \/ coll'[c].pc = "copy" /\ n < OnChain /\ coll'[c].at = n + 1
         \/ coll'[c].pc = "ask" /\ coll'[c].at = 1
    <2>1. CASE n < OnChain /\ Set(c, [at |-> n + 1])
        BY <1>1, <1>2, <2>1, SetFields DEF ShapeInv, Fields
    <2>2. CASE Set(c, [pc |-> "ask", at |-> 1])
        BY <1>1, <1>2, <2>2, SetPcAt DEF ShapeInv
    <2> QED
        BY <1>1, <2>1, <2>2
<1>4. /\ DOMAIN own' = Collector /\ DOMAIN own'[c] = 1..InEmulated
      /\ \A d \in Collector \ {c} : own'[d] = own[d]
      /\ \A m \in 1..InEmulated :
            \/ own'[c][m] = own[c][m]
            \/ m = n /\ own'[c][m] = cached[n] /\ cached[n] # NoInfo
    BY <1>1 DEF ShapeInv
<1>5. ShapeInv' /\ PlaceInv(c)'
    <2>1. ShapeInv'
        BY <1>1, <1>3, <1>4 DEF ShapeInv
    <2>2. PlaceInv(c)'
        BY InfoAssumption, <1>1, <1>3, <1>4 DEF PlaceInv, Nodes
    <2> QED
        BY <2>1, <2>2
<1>6. WholeInv'
    <2>1. \A m \in 1..InEmulated :
              own'[c][m].by \in Collector => own'[c][m].kinds = Needs[m]
        BY <1>4 DEF InfoInv, WholeInv
    <2> QED
        BY <1>1, <1>4, <2>1 DEF InfoInv, WholeInv
<1>7. OwnerInv(c)'
    <2>1. /\ \A m \in 1..OnChain : cached[m].by # c
          /\ \A m \in DOMAIN Emulated \cap (1..InEmulated) :
                own[c][m] # NoInfo /\ own[c][m].by # c
        BY <1>2 DEF InfoInv, HandlerInv, OwnerInv
    <2>2. \A m \in DOMAIN Emulated \cap (1..InEmulated) :
              own'[c][m] # NoInfo /\ own'[c][m].by # c
        <3> SUFFICES ASSUME NEW m \in DOMAIN Emulated \cap (1..InEmulated)
                     PROVE  own'[c][m] # NoInfo /\ own'[c][m].by # c
            OBVIOUS
        <3>1. CASE own'[c][m] = own[c][m]
            BY <2>1, <3>1
        <3>2. CASE m = n /\ own'[c][m] = cached[n] /\ cached[n] # NoInfo
            BY <2>1, <3>2
        <3> QED
            BY <1>4, <3>1, <3>2
    <2>3. \A m \in 1..OnChain : cached'[m].by # c
        BY <1>1, <2>1
    <2> QED
        BY <2>2, <2>3 DEF OwnerInv
<1>8. AskInv(c)' /\ FillInv(c)'
    BY InfoAssumption, <1>3 DEF AskInv, FillInv, Nodes
<1> QED
    BY <1>1, <1>3, <1>4, <1>5, <1>6, <1>7, <1>8, Others DEF InfoInv, HandlerInv

LEMMA StepAsk ==
    ASSUME InfoInv, NEW c \in Collector, Ask(c)
    PROVE  InfoInv'
<1> PICK n : n = coll[c].at
    OBVIOUS
<1> DEFINE more == IF InfoAt(c, n) = NoInfo THEN {n} ELSE {}
<1>1. /\ coll[c].pc = "ask" /\ UNCHANGED <<cached, own>> /\ ShapeInv
      /\ Set(c, [asked |-> coll[c].asked \cup more,
                 pc |-> Visit(c, "lookup").pc, at |-> Visit(c, "lookup").at])
      /\ HandlerInv(c)
    BY DEF Ask, At, InfoInv
<1>2. /\ n \in Nodes(c) /\ 1 \in Nodes(c)
      /\ \A m \in Nodes(c) : m \in Nat
      /\ n + 1 \notin Nodes(c) => \A m \in Nodes(c) : m <= n
    BY <1>1, NodesUpTo
<1>3. /\ DOMAIN coll' = Collector /\ DOMAIN coll'[c] = Fields
      /\ \A d \in Collector \ {c} : coll'[d] = coll[d]
      /\ coll'[c].asked = coll[c].asked \cup more
      /\ coll'[c].merged = coll[c].merged
      /\ \/ /\ n + 1 \in Nodes(c)
            /\ coll'[c].pc = "ask" /\ coll'[c].at = n + 1
         \/ /\ n + 1 \notin Nodes(c)
            /\ coll'[c].pc = "lookup" /\ coll'[c].at = 1
    <2> HIDE DEF more
    <2>1. CASE n + 1 \in Nodes(c)
        <3>1. Visit(c, "lookup") = [pc |-> coll[c].pc, at |-> n + 1]
            BY <2>1 DEF Visit
        <3>2. Set(c, [asked |-> coll[c].asked \cup more, pc |-> "ask", at |-> n + 1])
            BY <1>1, <3>1
        <3> QED
            BY <1>1, <2>1, <3>2, SetFields DEF Fields
    <2>2. CASE n + 1 \notin Nodes(c)
        <3>1. Visit(c, "lookup") = [pc |-> "lookup", at |-> 1]
            BY <2>2 DEF Visit
        <3>2. Set(c, [asked |-> coll[c].asked \cup more, pc |-> "lookup", at |-> 1])
            BY <1>1, <3>1
        <3> QED
            BY <1>1, <2>2, <3>2, SetFields DEF Fields
    <2> QED
        BY <2>1, <2>2
<1>4. Nodes(c)' = Nodes(c) /\ \A m : InfoAt(c, m)' = InfoAt(c, m)
    BY <1>1, <1>3 DEF Nodes, InfoAt
<1>5. ShapeInv' /\ WholeInv'
    BY <1>1, <1>3 DEF InfoInv, ShapeInv, WholeInv
<1>6. PlaceInv(c)' /\ OwnerInv(c)'
    BY <1>1, <1>2, <1>3, <1>4 DEF HandlerInv, PlaceInv, OwnerInv
<1>7. AskInv(c)'
    <2> SUFFICES ASSUME NEW m \in Nodes(c),
                        n + 1 \in Nodes(c) => m < n + 1
                 PROVE  m \in coll'[c].asked \/ InfoAt(c, m) # NoInfo
        BY <1>3, <1>4 DEF AskInv
    <2>1. m < n \/ m = n
        BY <1>2
    <2>2. m < n => m \in coll[c].asked \/ InfoAt(c, m) # NoInfo
        BY <1>1 DEF HandlerInv, AskInv
    <2> QED
        BY <1>3, <2>1, <2>2
<1>8. FillInv(c)'
    BY <1>3 DEF FillInv
<1> QED
    BY <1>1, <1>3, <1>5, <1>6, <1>7, <1>8, Others DEF InfoInv, HandlerInv

LEMMA StepLookup ==
    ASSUME InfoInv, NEW c \in Collector, Lookup(c)
    PROVE  InfoInv'
<1>1. /\ coll[c].pc = "lookup" /\ UNCHANGED <<cached, own>> /\ ShapeInv
      /\ \/ Set(c, [pc |-> "error"])
         \/ Set(c, [pc |-> "fill", found |-> Wanted(c)])
      /\ HandlerInv(c) /\ coll[c].at = 1
    BY DEF Lookup, At, InfoInv, HandlerInv, PlaceInv
<1>2. /\ DOMAIN coll' = Collector /\ DOMAIN coll'[c] = Fields
      /\ \A d \in Collector \ {c} : coll'[d] = coll[d]
      /\ coll'[c].merged = coll[c].merged
      /\ coll'[c].asked = coll[c].asked /\ coll'[c].at = 1
      /\ \/ coll'[c].pc = "error"
         \/ coll'[c].pc = "fill" /\ coll'[c].found = Wanted(c)
    <2>1. CASE Set(c, [pc |-> "error"])
        BY <1>1, <2>1, SetPc
    <2>2. CASE Set(c, [pc |-> "fill", found |-> Wanted(c)])
        BY <1>1, <2>2, SetFields DEF Fields
    <2> QED
        BY <1>1, <2>1, <2>2
<1>3. /\ Nodes(c)' = Nodes(c) /\ \A m : InfoAt(c, m)' = InfoAt(c, m)
      /\ Wanted(c)' = Wanted(c)
      /\ 1 \in Nodes(c) /\ \A m \in Nodes(c) : ~(m < 1)
    BY InfoAssumption, <1>1, <1>2 DEF Nodes, InfoAt, Wanted
<1>4. ShapeInv' /\ WholeInv'
    BY <1>1, <1>2 DEF InfoInv, ShapeInv, WholeInv
<1>5. HandlerInv(c)'
    BY <1>1, <1>2, <1>3
    DEF HandlerInv, PlaceInv, OwnerInv, AskInv, FillInv
<1> QED
    BY <1>1, <1>2, <1>4, <1>5, Others DEF InfoInv

LEMMA StepFill ==
    ASSUME InfoInv, NEW c \in Collector, Fill(c)
    PROVE  InfoInv'
<1> PICK n : n = coll[c].at
    OBVIOUS
<1>1. /\ coll[c].pc = "fill" /\ UNCHANGED <<cached, own>> /\ ShapeInv
      /\ Set(c, IF InfoAt(c, n) = NoInfo THEN [pc |-> "set"] ELSE Visit(c, "done"))
      /\ HandlerInv(c)
    BY DEF Fill, At, InfoInv
<1>2. /\ n \in Nodes(c) /\ 1 \in Nodes(c)
      /\ \A m \in Nodes(c) : m \in Nat
      /\ n + 1 \notin Nodes(c) => \A m \in Nodes(c) : m <= n
    BY <1>1, NodesUpTo
<1>3. /\ DOMAIN coll' = Collector /\ DOMAIN coll'[c] = Fields
      /\ \A d \in Collector \ {c} : coll'[d] = coll[d]
      /\ coll'[c].asked = coll[c].asked /\ coll'[c].found = coll[c].found
      /\ coll'[c].merged = coll[c].merged
      /\ \/ /\ InfoAt(c, n) = NoInfo
            /\ coll'[c].pc = "set" /\ coll'[c].at = n
         \/ /\ InfoAt(c, n) # NoInfo /\ n + 1 \in Nodes(c)
            /\ coll'[c].pc = "fill" /\ coll'[c].at = n + 1
         \/ /\ InfoAt(c, n) # NoInfo /\ n + 1 \notin Nodes(c)
            /\ coll'[c].pc = "done" /\ coll'[c].at = 1
    <2>1. CASE InfoAt(c, n) = NoInfo
        <3>1. Set(c, [pc |-> "set"])
            BY <1>1, <2>1
        <3> QED
            BY <1>1, <2>1, <3>1, SetPc
    <2>2. CASE InfoAt(c, n) # NoInfo /\ n + 1 \in Nodes(c)
        <3>1. Visit(c, "done") = [pc |-> "fill", at |-> n + 1]
            BY <1>1, <2>2 DEF Visit
        <3>2. Set(c, [pc |-> "fill", at |-> n + 1])
            BY <1>1, <2>2, <3>1
        <3> QED
            BY <1>1, <2>2, <3>2, SetPcAt
    <2>3. CASE InfoAt(c, n) # NoInfo /\ n + 1 \notin Nodes(c)
        <3>1. Visit(c, "done") = [pc |-> "done", at |-> 1]
            BY <2>3 DEF Visit
        <3>2. Set(c, [pc |-> "done", at |-> 1])
            BY <1>1, <2>3, <3>1
        <3> QED
            BY <1>1, <2>3, <3>2, SetPcAt
    <2> QED
        BY <2>1, <2>2, <2>3
<1>4. /\ Nodes(c)' = Nodes(c) /\ \A m : InfoAt(c, m)' = InfoAt(c, m)
      /\ Wanted(c)' = Wanted(c)
    BY <1>1, <1>3 DEF Nodes, InfoAt, Wanted
<1>5. ShapeInv' /\ WholeInv'
    BY <1>1, <1>3 DEF InfoInv, ShapeInv, WholeInv
<1>6. PlaceInv(c)' /\ OwnerInv(c)'
    <2>1. PlaceInv(c)'
        BY <1>1, <1>2, <1>3, <1>4 DEF HandlerInv, PlaceInv
    <2>2. OwnerInv(c)'
        BY <1>1, <1>3 DEF HandlerInv, OwnerInv
    <2> QED
        BY <2>1, <2>2
<1>7. \A m \in Nodes(c) : m \in coll[c].asked \/ InfoAt(c, m) # NoInfo
    BY <1>1 DEF HandlerInv, AskInv
<1>8. AskInv(c)'
    BY <1>3, <1>4, <1>7 DEF AskInv
<1>9. FillInv(c)'
    <2>1. /\ coll[c].found = Wanted(c)
          /\ \A m \in Nodes(c) : m < n => InfoAt(c, m) # NoInfo
        BY <1>1 DEF HandlerInv, FillInv
    <2>2. CASE InfoAt(c, n) = NoInfo
        <3>1. n \in coll[c].asked
            BY <1>2, <1>7, <2>2
        <3>2. coll[c].merged => own[c][n] = NoInfo
            BY <2>2 DEF InfoAt
        <3> QED
            BY <1>1, <1>3, <1>4, <2>1, <2>2, <3>1, <3>2 DEF FillInv
    <2>3. CASE InfoAt(c, n) # NoInfo /\ n + 1 \in Nodes(c)
        <3>1. \A m \in Nodes(c) : m < n + 1 => InfoAt(c, m) # NoInfo
            BY <1>2, <2>1, <2>3
        <3> QED
            BY <1>3, <1>4, <2>1, <2>3, <3>1 DEF FillInv
    <2>4. CASE InfoAt(c, n) # NoInfo /\ n + 1 \notin Nodes(c)
        <3>1. \A m \in Nodes(c) : InfoAt(c, m) # NoInfo
            BY <1>2, <2>1, <2>4
        <3> QED
            BY <1>3, <1>4, <2>4, <3>1 DEF FillInv
    <2> QED
        BY <2>2, <2>3, <2>4
<1> QED
    BY <1>1, <1>3, <1>5, <1>6, <1>8, <1>9, Others DEF InfoInv, HandlerInv

LEMMA StepFillNode ==
    ASSUME InfoInv, NEW c \in Collector, FillNode(c)
    PROVE  InfoInv'
<1> PICK n : n = coll[c].at
    OBVIOUS
<1> PICK info : info = Info(c, {k \in Needs[n] : <<n, k>> \in coll[c].found})
    OBVIOUS
<1>1. /\ coll[c].pc = "set" /\ ShapeInv /\ HandlerInv(c)
      /\ SetInfo(c, n, info)
      /\ Set(c, IF n + 1 \in Nodes(c) THEN [pc |-> "fill", at |-> n + 1]
                ELSE [pc |-> "done"])
    BY DEF FillNode, At, InfoInv
<1>2. /\ n \in Nodes(c) /\ 1 \in Nodes(c)
      /\ \A m \in Nodes(c) : m \in Nat
      /\ n + 1 \notin Nodes(c) => \A m \in Nodes(c) : m <= n
    BY <1>1, NodesUpTo
<1>3. /\ DOMAIN coll' = Collector /\ DOMAIN coll'[c] = Fields
      /\ \A d \in Collector \ {c} : coll'[d] = coll[d]
      /\ coll'[c].asked = coll[c].asked /\ coll'[c].found = coll[c].found
      /\ coll'[c].merged = coll[c].merged
      /\ \/ /\ n + 1 \in Nodes(c)
            /\ coll'[c].pc = "fill" /\ coll'[c].at = n + 1
         \/ /\ n + 1 \notin Nodes(c)
            /\ coll'[c].pc = "done" /\ coll'[c].at = n
    <2>1. CASE n + 1 \in Nodes(c)
        <3>1. Set(c, [pc |-> "fill", at |-> n + 1])
            BY <1>1, <2>1
        <3> QED
            BY <1>1, <2>1, <3>1, SetPcAt
    <2>2. CASE n + 1 \notin Nodes(c)
        <3>1. Set(c, [pc |-> "done"])
            BY <1>1, <2>2
        <3> QED
            BY <1>1, <2>2, <3>1, SetPc
    <2> QED
        BY <2>1, <2>2
<1>4. info.kinds = Needs[n] /\ info.by = c /\ info # NoInfo
    <2>1. n \in coll[c].asked /\ coll[c].found = Wanted(c)
        BY <1>1 DEF HandlerInv, FillInv
    <2>2. \A k \in Needs[n] : <<n, k>> \in coll[c].found
        BY <2>1 DEF Wanted
    <2>3. {k \in Needs[n] : <<n, k>> \in coll[c].found} = Needs[n]
        BY <2>2
    <2>4. info.by = c /\ info.kinds = Needs[n]
        BY <2>3 DEF Info
    <2>5. NoInfo.by # c
        BY InfoAssumption DEF NoInfo
    <2> QED
        BY <2>4, <2>5
<1>5. \/ /\ coll[c].merged /\ UNCHANGED cached
         /\ own' = [own EXCEPT ![c][n] = info] /\ n \in 1..InEmulated
      \/ /\ ~coll[c].merged /\ UNCHANGED own
         /\ cached' = [cached EXCEPT ![n] = info] /\ n \in 1..OnChain
    BY <1>1, <1>2 DEF SetInfo, Nodes
<1>6. /\ DOMAIN cached' = 1..OnChain /\ DOMAIN own' = Collector
      /\ \A d \in Collector : DOMAIN own'[d] = 1..InEmulated
      /\ \A d \in Collector \ {c} : own'[d] = own[d]
    BY <1>1, <1>5 DEF ShapeInv
<1>7. /\ coll[c].merged =>
             /\ UNCHANGED cached /\ own'[c][n] = info
             /\ \A m \in 1..InEmulated : m # n => own'[c][m] = own[c][m]
      /\ ~coll[c].merged =>
             /\ UNCHANGED own /\ cached'[n] = info
             /\ \A m \in 1..OnChain : m # n => cached'[m] = cached[m]
    <2>1. CASE coll[c].merged
        <3>1. n \in 1..InEmulated /\ own' = [own EXCEPT ![c][n] = info]
            BY <1>5, <2>1
        <3>2. DOMAIN own = Collector /\ DOMAIN own[c] = 1..InEmulated
            BY <1>1 DEF ShapeInv
        <3> QED
            BY <1>5, <2>1, <3>1, <3>2
    <2>2. CASE ~coll[c].merged
        BY <1>1, <1>5, <2>2 DEF ShapeInv
    <2> QED
        BY <2>1, <2>2
<1>8. /\ Nodes(c)' = Nodes(c) /\ Wanted(c)' = Wanted(c)
      /\ \A m \in Nodes(c) : InfoAt(c, m)' = IF m = n THEN info ELSE InfoAt(c, m)
    <2>1. Nodes(c)' = Nodes(c) /\ Wanted(c)' = Wanted(c)
        BY <1>3 DEF Nodes, Wanted
    <2>2. CASE coll[c].merged
        BY <1>3, <1>7, <2>1, <2>2 DEF Nodes, InfoAt
    <2>3. CASE ~coll[c].merged
        BY <1>3, <1>7, <2>1, <2>3 DEF Nodes, InfoAt
    <2> QED
        BY <2>1, <2>2, <2>3
<1>9. ShapeInv'
    BY <1>3, <1>1, <1>6 DEF ShapeInv
<1>10. WholeInv'
    <2>1. CASE coll[c].merged
        BY <1>4, <1>6, <1>7, <2>1 DEF InfoInv, WholeInv
    <2>2. CASE ~coll[c].merged
        BY <1>4, <1>7, <2>2 DEF InfoInv, WholeInv
    <2> QED
        BY <2>1, <2>2
<1>11. PlaceInv(c)'
    BY <1>2, <1>3, <1>8 DEF PlaceInv
<1>12. OwnerInv(c)'
    <2>1. CASE coll[c].merged
        <3>1. own[c][n] = NoInfo
            BY <1>1, <2>1 DEF HandlerInv, FillInv
        <3>2. \A m \in DOMAIN Emulated \cap (1..InEmulated) :
                  own'[c][m] = own[c][m]
            <4>1. n \notin DOMAIN Emulated \cap (1..InEmulated)
                BY <1>1, <2>1, <3>1 DEF HandlerInv, OwnerInv
            <4> QED
                BY <1>7, <2>1, <4>1
        <3> QED
            BY <1>1, <1>3, <1>5, <2>1, <3>2 DEF HandlerInv, OwnerInv
    <2>2. CASE ~coll[c].merged
        BY <1>3, <2>2 DEF OwnerInv
    <2> QED
        BY <2>1, <2>2
<1>13. \A m \in Nodes(c) : m \in coll[c].asked \/ InfoAt(c, m) # NoInfo
    BY <1>1 DEF HandlerInv, AskInv
<1>14. AskInv(c)'
    BY <1>3, <1>4, <1>8, <1>13 DEF AskInv
<1>15. FillInv(c)'
    <2>1. /\ coll[c].found = Wanted(c)
          /\ \A m \in Nodes(c) : m < n => InfoAt(c, m) # NoInfo
        BY <1>1 DEF HandlerInv, FillInv
    <2>2. \A m \in Nodes(c) : m <= n => InfoAt(c, m)' # NoInfo
        BY <1>2, <1>4, <1>8, <2>1
    <2>3. CASE n + 1 \in Nodes(c)
        <3>1. \A m \in Nodes(c) : m < n + 1 => InfoAt(c, m)' # NoInfo
            BY <1>2, <2>2
        <3> QED
            BY <1>3, <1>8, <2>1, <2>3, <3>1 DEF FillInv
    <2>4. CASE n + 1 \notin Nodes(c)
        <3>1. \A m \in Nodes(c) : InfoAt(c, m)' # NoInfo
            BY <1>2, <2>2, <2>4
        <3> QED
            BY <1>3, <1>8, <2>4, <3>1 DEF FillInv
    <2> QED
        BY <2>3, <2>4
<1>16. ASSUME NEW d \in Collector, d # c PROVE HandlerInv(d)'
    <2>1. own'[d] = own[d]
        BY <1>16, <1>6
    <2>2. \A m \in 1..OnChain : \/ cached'[m] = cached[m]
                                \/ cached'[m].by = c /\ cached'[m] # NoInfo
        <3>1. CASE coll[c].merged
            BY <1>7, <3>1
        <3>2. CASE ~coll[c].merged
            BY <1>4, <1>7, <3>2
        <3> QED
            BY <3>1, <3>2
    <2> QED
        BY <1>3, <1>16, <2>1, <2>2, Others
<1> QED
    BY <1>9, <1>10, <1>11, <1>12, <1>14, <1>15, <1>16 DEF InfoInv, HandlerInv

LEMMA NextInfoInv == InfoInv /\ [InfoNext]_infoVars => InfoInv'
<1> SUFFICES ASSUME InfoInv, [InfoNext]_infoVars
             PROVE  InfoInv'
    OBVIOUS
<1>1. ASSUME NEW c \in Collector, ShowTrace(c) PROVE InfoInv'
    BY <1>1, StepNotEmulated, StepLoadEmulated, StepCopyTraceData, StepAsk,
       StepLookup, StepFill, StepFillNode DEF ShowTrace, CollectAdditionalInfo
<1>2. CASE UNCHANGED infoVars
    <2>1. UNCHANGED <<cached, own, coll>>
        BY <1>2 DEF infoVars
    <2>2. ShapeInv' /\ WholeInv'
        BY <2>1 DEF InfoInv, ShapeInv, WholeInv
    <2>3. ASSUME NEW c \in Collector PROVE HandlerInv(c)'
        <3>1. HandlerInv(c)
            BY DEF InfoInv
        <3>2. /\ Nodes(c)' = Nodes(c) /\ Wanted(c)' = Wanted(c)
              /\ \A n : InfoAt(c, n)' = InfoAt(c, n)
            BY <2>1 DEF Nodes, Wanted, InfoAt
        <3>3. PlaceInv(c)' /\ OwnerInv(c)'
            BY <2>1, <3>1, <3>2 DEF HandlerInv, PlaceInv, OwnerInv
        <3>4. AskInv(c)' /\ FillInv(c)'
            BY <2>1, <3>1, <3>2 DEF HandlerInv, AskInv, FillInv
        <3> QED
            BY <3>3, <3>4 DEF HandlerInv
    <2> QED
        BY <2>2, <2>3 DEF InfoInv
<1> QED
    BY <1>1, <1>2 DEF InfoNext

\* For any trace, any number of handlers and whichever lookups fail: an info that
\* a handler has set is whole, a handler that is done finds none missing, and what
\* the emulation found is only replaced by what the chain has.
THEOREM InfosAreWhole == InfoSpec => []InfoIsWhole
<1>1. InfoInit => InfoInv
    BY InitInfoInv
<1>2. InfoInv /\ [InfoNext]_infoVars => InfoInv'
    BY NextInfoInv
<1>3. InfoInv => InfoIsWhole
    <2> SUFFICES ASSUME InfoInv, NEW c \in Collector
                 PROVE  /\ \A n \in Nodes(c) :
                              /\ InfoAt(c, n).by \in Collector =>
                                     InfoAt(c, n).kinds = Needs[n]
                              /\ At(c, "done") => InfoAt(c, n) # NoInfo
                        /\ coll[c].merged =>
                              \A n \in DOMAIN Emulated : own[c][n].by # c
        BY DEF InfoIsWhole
    <2>1. \A n \in Nodes(c) : InfoAt(c, n).by \in Collector =>
                                  InfoAt(c, n).kinds = Needs[n]
        BY DEF InfoInv, WholeInv, Nodes, InfoAt
    <2>2. \A n \in Nodes(c) : At(c, "done") => InfoAt(c, n) # NoInfo
        BY DEF InfoInv, HandlerInv, FillInv, At
    <2>3. coll[c].merged => \A n \in DOMAIN Emulated : own[c][n].by # c
        BY InfoAssumption DEF InfoInv, HandlerInv, OwnerInv
    <2> QED
        BY <2>1, <2>2, <2>3
<1> QED
    BY <1>1, <1>2, <1>3, PTL DEF InfoSpec

-----------------------------------------------------------------------------
(* The pages of the events of an account. *)

\* The trace the page at hand begins with.
Upto == IF before = 0 THEN known ELSE before - 1

Seen(lt) == \E i \in DOMAIN read : read[i] = Final(lt)

\* The hashes: there is never more than one.
PoolInv ==
    /\ Len(list) <= 1
    /\ \A m \in traced : emuLt[m] > 0

PhaseInv ==
    /\ pc = "idle" => before = 0
    /\ pc = "more" => before > 0
    /\ pc # "end" /\ before = 0 => read = <<>>
    /\ pc \in {"mempool", "pending"} => before = 0
    /\ pc = "pending" => shownNow + Len(hashes) <= 1
    /\ pc \in {"idle", "process", "more", "end"} => events = <<>>

\* The traces that were found: they follow each other, and they are Limit unless
\* the last is 1.
FoundInv ==
    pc \in {"process", "mempool", "pending", "reply"} =>
        /\ Len(found) = IF Upto < Limit THEN Upto ELSE Limit
        /\ \A i \in 1..Len(found) : found[i] = Upto - i + 1
        /\ pc = "process" /\ Len(found) = Limit => lastLT = found[Limit]

\* The page: these traces, but for the last of them if a pending event has taken
\* its place.
EventsInv ==
    pc \in {"mempool", "pending", "reply"} =>
        /\ shownNow <= 1
        /\ pc = "mempool" => shownNow = 0
        /\ Len(events) = IF Len(found) + shownNow > Limit THEN Limit
                         ELSE Len(found) + shownNow
        /\ shownNow = 1 => IsPending(events[1])
        /\ \A i \in 1..Len(events) :
              i > shownNow => events[i] = Final(found[i - shownNow])
        /\ Len(events) = Limit => lastLT = events[Limit].lt

\* The pages before it have what is newer, and nothing else.
SeenInv ==
    /\ \A i, j \in DOMAIN read :
          i < j /\ ~IsPending(read[i]) /\ ~IsPending(read[j])
              => read[i].lt > read[j].lt
    /\ pc = "end" => \A lt \in 1..known : Seen(lt)
    /\ pc # "end" =>
          /\ Upto <= known
          /\ \A lt \in 1..known : lt > Upto => Seen(lt)
          /\ \A i \in DOMAIN read : ~IsPending(read[i]) => read[i].lt > Upto

\* A message that is shown as pending began none of the traces that were found, or
\* the storage did not tell.
OnceInv ==
    \A i \in DOMAIN events : \A m \in events[i].msg :
        m \in misled \/ \A j \in DOMAIN found : found[j] # txLt[m]

PageInv ==
    /\ PageTypeOK /\ PoolInv /\ PhaseInv /\ FoundInv /\ EventsInv /\ SeenInv
    /\ OnceInv

LEMMA PageInitially == PageInit => PageInv
BY EventPageAssumption
DEF PageInit, PageInv, PageTypeOK, PoolInv, PhaseInv, FoundInv, EventsInv, SeenInv,
    OnceInv, Seen, Upto

\* The chain grows, or a trace on it ends.
LEMMA ChainKeepsPages ==
    ASSUME PageInv, UNCHANGED poolVars, UNCHANGED pageVars,
           top \in Nat, top' \in top..MaxLt, open' \in SUBSET (1..top'),
           txLt' \in [Msg -> 0..top'], \A m \in Msg : txLt'[m] \in {txLt[m], top + 1}
    PROVE  PageInv'
<1>1. PageTypeOK'
    BY EventPageAssumption DEF PageInv, PageTypeOK, poolVars, pageVars
<1>2. PoolInv' /\ PhaseInv'
    BY DEF PageInv, PoolInv, PhaseInv, poolVars, pageVars
<1>3. FoundInv' /\ EventsInv' /\ SeenInv'
    BY DEF PageInv, FoundInv, EventsInv, SeenInv, Seen, Upto, pageVars, Final, IsPending
<1>4. OnceInv'
    <2>1. UNCHANGED <<events, found, misled>>
        BY DEF pageVars
    <2>2. ASSUME NEW i \in DOMAIN events, NEW m \in events[i].msg, m \notin misled,
                 NEW j \in DOMAIN found
          PROVE  found[j] # txLt'[m]
        <3>1. m \in Msg /\ found[j] # txLt[m]
            <4>1. events[i] \in Events
                BY DEF PageInv, PageTypeOK
            <4>2. m \in Msg
                BY <4>1 DEF Events
            <4> QED
                BY <2>2, <4>2 DEF PageInv, OnceInv
        <3>2. found[j] <= top
            <4>1. pc \in {"process", "mempool", "pending", "reply"}
                BY <2>2 DEF PageInv, PageTypeOK, PhaseInv
            <4>2. Upto \in Nat /\ Upto <= top /\ j \in 1..Len(found)
                <5>1. known \in 0..top /\ before \in 0..MaxLt + 1 /\ found \in Seq(1..MaxLt)
                    BY DEF PageInv, PageTypeOK
                <5>2. Upto \in Nat /\ Upto <= known
                    BY <4>1, <5>1, EventPageAssumption DEF PageInv, SeenInv, Upto
                <5> QED
                    BY <5>1, <5>2
            <4>3. found[j] = Upto - j + 1 /\ j \in Nat \ {0}
                BY <4>1, <4>2 DEF PageInv, FoundInv
            <4> QED
                BY <4>2, <4>3
        <3> QED
            BY <3>1, <3>2
    <2> QED
        BY <2>1, <2>2 DEF OnceInv
<1> QED
    BY <1>1, <1>2, <1>3, <1>4 DEF PageInv

LEMMA ChainStep == PageInv /\ Chain => PageInv'
<1> SUFFICES ASSUME PageInv, Chain PROVE PageInv'
    OBVIOUS
<1>0. top \in 0..MaxLt /\ MaxLt \in Nat /\ open \in SUBSET (1..top) /\ txLt \in [Msg -> 0..top]
    BY EventPageAssumption DEF PageInv, PageTypeOK
<1>1. CASE Other
    <2>1. top' \in top..MaxLt /\ open' \in SUBSET (1..top') /\ txLt' \in [Msg -> 0..top']
          /\ \A m \in Msg : txLt'[m] = txLt[m]
        BY <1>0, <1>1 DEF Other, NewTrace
    <2> QED
        BY <1>0, <1>1, <2>1, ChainKeepsPages DEF Other
<1>2. ASSUME NEW m \in Msg, Include(m) PROVE PageInv'
    <2>1. top' \in top..MaxLt /\ open' \in SUBSET (1..top') /\ txLt' \in [Msg -> 0..top']
          /\ \A n \in Msg : txLt'[n] \in {txLt[n], top + 1}
        BY <1>0, <1>2 DEF Include, NewTrace
    <2> QED
        BY <1>0, <1>2, <2>1, ChainKeepsPages DEF Include
<1>3. ASSUME NEW lt \in open, Close(lt) PROVE PageInv'
    <2>1. top' \in top..MaxLt /\ open' \in SUBSET (1..top') /\ txLt' \in [Msg -> 0..top']
          /\ \A m \in Msg : txLt'[m] = txLt[m]
        BY <1>0, <1>3 DEF Close
    <2> QED
        BY <1>0, <1>3, <2>1, ChainKeepsPages DEF Close
<1> QED
    BY <1>1, <1>2, <1>3 DEF Chain

\* The goroutines of addToMempool, and the list that expires, touch no page.
LEMMA PoolKeepsPages ==
    ASSUME PageInv, UNCHANGED chainVars, UNCHANGED pageVars
    PROVE  PhaseInv' /\ FoundInv' /\ EventsInv' /\ SeenInv' /\ OnceInv'
<1>1. PhaseInv'
    BY DEF PageInv, PhaseInv, pageVars
<1>2. FoundInv' /\ EventsInv' /\ SeenInv'
    BY DEF PageInv, FoundInv, EventsInv, SeenInv, Seen, Upto, pageVars, Final, IsPending
<1>3. OnceInv'
    BY DEF PageInv, OnceInv, pageVars, chainVars
<1> QED
    BY <1>1, <1>2, <1>3

LEMMA PoolStep ==
    ASSUME PageInv,
           (\E m \in Msg : AddToMempool(m) \/ ExpireTrace(m)) \/ ExpireList
    PROVE  PageInv'
<1>1. ASSUME NEW m \in Msg, EmulateAndSave(m) PROVE PageInv'
    <2>1. PageTypeOK'
        BY <1>1, EventPageAssumption
        DEF PageInv, PageTypeOK, EmulateAndSave, SaveTraceWithState, chainVars, pageVars
    <2>2. PoolInv'
        BY <1>1 DEF PageInv, PageTypeOK, PoolInv, EmulateAndSave, SaveTraceWithState, chainVars
    <2> QED
        BY <1>1, <2>1, <2>2, PoolKeepsPages DEF PageInv, EmulateAndSave
<1>2. ASSUME NEW m \in Msg, SetHashes(m) PROVE PageInv'
    <2>1. PageTypeOK'
        BY <1>2 DEF PageInv, PageTypeOK, SetHashes, chainVars, pageVars
    <2>2. PoolInv'
        BY <1>2 DEF PageInv, PageTypeOK, PoolInv, SetHashes
    <2> QED
        BY <1>2, <2>1, <2>2, PoolKeepsPages DEF PageInv, SetHashes
<1>3. ASSUME ExpireList PROVE PageInv'
    <2>1. PageTypeOK'
        BY <1>3 DEF PageInv, PageTypeOK, PoolInv, ExpireList, Range, chainVars, pageVars
    <2>2. PoolInv'
        BY <1>3 DEF PageInv, PoolInv, ExpireList
    <2> QED
        BY <1>3, <2>1, <2>2, PoolKeepsPages DEF PageInv, ExpireList
<1>4. ASSUME NEW m \in Msg, ExpireTrace(m) PROVE PageInv'
    <2>1. PageTypeOK' /\ PoolInv'
        BY <1>4 DEF PageInv, PageTypeOK, PoolInv, ExpireTrace, chainVars, pageVars
    <2> QED
        BY <1>4, <2>1, PoolKeepsPages DEF PageInv, ExpireTrace
<1> QED
    BY <1>1, <1>2, <1>3, <1>4 DEF AddToMempool

\* What Newest answers.
LEMMA NewestFollow ==
    ASSUME NEW b \in 0..MaxLt + 1, top \in 0..MaxLt
    PROVE  LET n == IF b = 0 THEN top ELSE b - 1
           IN /\ Newest(b) \in Seq(1..MaxLt)
              /\ Len(Newest(b)) = IF n < Limit THEN n ELSE Limit
              /\ \A i \in 1..Len(Newest(b)) : Newest(b)[i] = n - i + 1
<1> DEFINE n == IF b = 0 THEN top ELSE b - 1
           k == IF n < Limit THEN n ELSE Limit
<1>1. n \in 0..MaxLt /\ k \in Nat /\ k <= n
    BY EventPageAssumption
<1>2. Newest(b) = [i \in 1..k |-> n - i + 1]
    BY DEF Newest
<1>3. \A i \in 1..k : n - i + 1 \in 1..MaxLt
    BY <1>1, EventPageAssumption
<1> HIDE DEF n, k
<1>4. Newest(b) \in Seq(1..MaxLt) /\ Len(Newest(b)) = k
    BY <1>1, <1>2, <1>3
<1>5. \A i \in 1..k : Newest(b)[i] = n - i + 1
    BY <1>2
<1> QED
    BY <1>4, <1>5 DEF n, k

\* The first page begins with the newest trace, the others with the one before the
\* last of the page before.
LEMMA SearchStep == PageInv /\ Search => PageInv'
<1> SUFFICES ASSUME PageInv, Search PROVE PageInv'
    OBVIOUS
<1>1. /\ top \in 0..MaxLt /\ MaxLt \in Nat /\ before \in 0..MaxLt + 1
      /\ known \in 0..top /\ Limit \in Nat \ {0}
    BY EventPageAssumption DEF PageInv, PageTypeOK
<1>2. /\ found' \in Seq(1..MaxLt)
      /\ Len(found') = IF Upto' < Limit THEN Upto' ELSE Limit
      /\ \A i \in 1..Len(found') : found'[i] = Upto' - i + 1
    <2>1. Upto' = IF before = 0 THEN top ELSE before - 1
        BY DEF PageInv, PhaseInv, Search, Upto
    <2> QED
        BY <1>1, <2>1, NewestFollow DEF Search
<1>3. PageTypeOK'
    <2>1. lastLT' \in 0..MaxLt + 1
        BY <1>1, <1>2 DEF Search, Last
    <2> QED
        BY <1>1, <1>2, <2>1
        DEF PageInv, PageTypeOK, Search, chainVars, poolVars
<1>4. PoolInv' /\ PhaseInv' /\ EventsInv' /\ OnceInv'
    BY <1>2 DEF PageInv, PoolInv, PhaseInv, EventsInv, OnceInv, Search, poolVars
<1>5. FoundInv'
    BY <1>1, <1>2 DEF FoundInv, Search, Last
<1>6. SeenInv'
    <2>1. CASE pc = "idle"
        <3>1. read = <<>>
            BY <2>1 DEF PageInv, PhaseInv
        <3> QED
            BY <1>1, <2>1, <3>1
            DEF PageInv, PhaseInv, SeenInv, Seen, Upto, Search
    <2>2. CASE pc = "more"
        BY <2>2 DEF PageInv, SeenInv, Seen, Upto, Search, Final, IsPending
    <2> QED
        BY <2>1, <2>2 DEF Search
<1> QED
    BY <1>3, <1>4, <1>5, <1>6 DEF PageInv

\* A step of the handler that answers no page leaves those before as they are.
LEMMA SeenStays ==
    ASSUME SeenInv, pc # "end", pc' # "end", UNCHANGED <<before, known, read>>
    PROVE  SeenInv'
BY DEF SeenInv, Seen, Upto, Final, IsPending

LEMMA ProcessStep == PageInv /\ Process => PageInv'
<1> SUFFICES ASSUME PageInv, Process PROVE PageInv'
    OBVIOUS
<1>1. /\ found \in Seq(1..MaxLt) /\ MaxLt \in Nat /\ Limit \in Nat \ {0}
      /\ Len(found) <= Limit
    BY EventPageAssumption DEF PageInv, PageTypeOK, FoundInv, Process, Upto
<1>2. /\ events' \in Seq(Events) /\ Len(events') = Len(found)
      /\ \A i \in 1..Len(found) : events'[i] = Final(found[i])
    <2>1. events' = [i \in 1..Len(found) |-> Final(found[i])]
        BY <1>1 DEF Process
    <2>2. \A i \in 1..Len(found) : Final(found[i]) \in Events
        BY <1>1 DEF Final, Events
    <2>3. Len(found) \in Nat
        BY <1>1
    <2> QED
        BY <2>1, <2>2, <2>3
<1>3. PageTypeOK'
    BY <1>2 DEF PageInv, PageTypeOK, Process, chainVars, poolVars
<1>4. PoolInv' /\ PhaseInv' /\ FoundInv'
    BY DEF PageInv, PoolInv, PhaseInv, FoundInv, Process, Upto, poolVars
<1>5. EventsInv'
    <2>1. shownNow' = 0 /\ found' = found /\ lastLT' = lastLT
        BY DEF Process
    <2>2. \A i \in 1..Len(events') : events'[i] = Final(found'[i - shownNow'])
        BY <1>1, <1>2, <2>1
    <2>3. Len(events') = Limit => lastLT' = events'[Limit].lt
        BY <1>1, <1>2, <2>1 DEF PageInv, FoundInv, Process, Final
    <2> QED
        BY <1>1, <1>2, <2>1, <2>2, <2>3 DEF EventsInv, Final
<1>6. SeenInv'
    BY SeenStays DEF PageInv, Process
<1>7. OnceInv'
    <2>1. \A i \in DOMAIN events' : events'[i].msg = {}
        <3>1. DOMAIN events' = 1..Len(found)
            BY <1>2
        <3> QED
            BY <1>2, <3>1 DEF Final
    <2> QED
        BY <2>1 DEF OnceInv
<1> QED
    BY <1>3, <1>4, <1>5, <1>6, <1>7 DEF PageInv

\* ReadMempool, EndPending and SkipHash change neither the page nor what it is of.
LEMMA PageStays ==
    ASSUME FoundInv, EventsInv, pc \in {"mempool", "pending"},
           pc' \in {"pending", "reply"},
           UNCHANGED <<before, found, events, shownNow, lastLT, known>>
    PROVE  FoundInv' /\ EventsInv'
<1>1. FoundInv'
    BY DEF FoundInv, Upto
<1>2. EventsInv'
    BY DEF EventsInv, Final, IsPending
<1> QED
    BY <1>1, <1>2

LEMMA LookStep ==
    ASSUME PageInv, ReadMempool \/ EndPending \/ SkipHash
    PROVE  PageInv'
<1>1. PageTypeOK' /\ PoolInv'
    <2>1. CASE ReadMempool
        BY <2>1 DEF PageInv, PageTypeOK, PoolInv, ReadMempool, chainVars, poolVars
    <2>2. CASE EndPending
        BY <2>2 DEF PageInv, PageTypeOK, PoolInv, EndPending, chainVars, poolVars
    <2>3. CASE SkipHash
        <3>1. hashes' \in Seq(Msg)
            BY <2>3 DEF PageInv, PageTypeOK, SkipHash, NextHash
        <3> QED
            BY <2>3, <3>1 DEF PageInv, PageTypeOK, PoolInv, SkipHash, chainVars, poolVars
    <2> QED
        BY <2>1, <2>2, <2>3
<1>2. PhaseInv'
    <2>1. CASE ReadMempool
        BY <2>1 DEF PageInv, PoolInv, PhaseInv, EventsInv, ReadMempool, poolVars
    <2>2. CASE EndPending
        BY <2>2 DEF PageInv, PhaseInv, EndPending
    <2>3. CASE SkipHash
        <3>1. Len(hashes') = Len(hashes) - 1 /\ Len(hashes) \in Nat /\ shownNow \in Nat
            BY <2>3 DEF PageInv, PageTypeOK, SkipHash, NextHash
        <3> QED
            BY <2>3, <3>1 DEF PageInv, PhaseInv, SkipHash, NextHash
    <2> QED
        BY <2>1, <2>2, <2>3
<1>3. FoundInv' /\ EventsInv' /\ SeenInv'
    BY PageStays, SeenStays
    DEF PageInv, ReadMempool, EndPending, SkipHash, NextHash
<1>4. OnceInv'
    BY DEF PageInv, OnceInv, ReadMempool, EndPending, SkipHash, chainVars
<1> QED
    BY <1>1, <1>2, <1>3, <1>4 DEF PageInv

\* What AddPending makes of a page.
Pushed(e, page) ==
    LET more == <<e>> \o page
    IN IF Len(more) > Limit THEN SubSeq(more, 1, Limit) ELSE more

LEMMA PushAndCut ==
    ASSUME NEW page \in Seq(Events), NEW e \in Events,
           Len(page) <= Limit, Limit \in Nat \ {0}
    PROVE  /\ Pushed(e, page) \in Seq(Events) /\ Pushed(e, page)[1] = e
           /\ Len(Pushed(e, page)) =
                 IF Len(page) + 1 > Limit THEN Limit ELSE Len(page) + 1
           /\ \A i \in 2..Len(Pushed(e, page)) : Pushed(e, page)[i] = page[i - 1]
<1> DEFINE more == <<e>> \o page
           cut == Pushed(e, page)
<1>1. /\ more \in Seq(Events) /\ Len(more) = Len(page) + 1 /\ Len(page) \in Nat
      /\ more[1] = e /\ \A i \in 2..Len(more) : more[i] = page[i - 1]
    OBVIOUS
<1>0. cut = IF Len(more) > Limit THEN SubSeq(more, 1, Limit) ELSE more
    BY DEF Pushed
<1> HIDE DEF more, cut
<1>2. CASE Len(more) > Limit
    <2>1. cut = SubSeq(more, 1, Limit)
        BY <1>0, <1>2
    <2>2. cut \in Seq(Events) /\ Len(cut) = Limit /\ \A i \in 1..Limit : cut[i] = more[i]
        BY <1>1, <1>2, <2>1
    <2> QED
        BY <1>1, <1>2, <2>2 DEF cut
<1>3. CASE ~(Len(more) > Limit)
    <2>1. cut = more
        BY <1>0, <1>3
    <2> QED
        BY <1>1, <1>3, <2>1 DEF cut
<1> QED
    BY <1>2, <1>3

LEMMA AddPendingStep == PageInv /\ AddPending => PageInv'
<1> SUFFICES ASSUME PageInv, AddPending PROVE PageInv'
    OBVIOUS
<1> DEFINE m == Head(hashes)
<1>1. /\ Limit \in Nat \ {0} /\ MaxLt \in Nat /\ before = 0 /\ known \in Nat
      /\ found \in Seq(1..MaxLt) /\ events \in Seq(Events)
      /\ hashes \in Seq(Msg) /\ hashes # <<>> /\ shownNow \in Nat
      /\ pc = "pending" /\ shownNow + Len(hashes) <= 1
    BY EventPageAssumption
    DEF PageInv, PageTypeOK, PhaseInv, AddPending, NextHash
<1>2. /\ shownNow = 0 /\ shownNow' = 1
      /\ m \in Msg /\ hashes' \in Seq(Msg) /\ Len(hashes') = 0
    BY <1>1 DEF AddPending
<1>a. PICK tx \in {0, txLt[m]} :
          /\ ~InPage(tx)
          /\ \E lt \in EmulatedLts(m, tx) : events' = Pushed(Pending(m, lt), events)
          /\ misled' = IF tx = txLt[m] THEN misled ELSE misled \cup {m}
    BY DEF AddPending, Pushed
<1>0. PICK lt \in EmulatedLts(m, tx) : events' = Pushed(Pending(m, lt), events)
    BY <1>a
<1>3. Pending(m, lt) \in Events
    <2>1. /\ txLt[m] \in 0..top /\ top \in 0..MaxLt /\ emuLt[m] \in 0..MaxLt + 1
          /\ m \in traced => emuLt[m] > 0
        BY <1>2 DEF PageInv, PageTypeOK, PoolInv
    <2>2. lt \in 1..MaxLt + 1
        BY <1>a, <1>0, <1>1, <2>1 DEF EmulatedLts
    <2> QED
        BY <1>2, <2>2 DEF Pending, Events
<1>4. /\ Len(events) = Len(found) /\ Len(found) <= Limit
      /\ \A i \in 1..Len(events) : events[i] = Final(found[i])
    <2>1. Len(found) \in Nat /\ Len(found) <= Limit
        <3>1. Len(found) = IF Upto < Limit THEN Upto ELSE Limit
            BY <1>1 DEF PageInv, FoundInv
        <3> QED
            BY <1>1, <3>1 DEF Upto
    <2>2. Len(events) = Len(found)
        BY <1>1, <1>2, <2>1 DEF PageInv, EventsInv
    <2>3. \A i \in 1..Len(events) : events[i] = Final(found[i - 0])
        BY <1>1, <1>2, <2>2 DEF PageInv, EventsInv
    <2>4. \A i \in 1..Len(events) : i - 0 = i
        OBVIOUS
    <2> QED
        BY <2>1, <2>2, <2>3, <2>4
<1>5. /\ events' \in Seq(Events) /\ events'[1] = Pending(m, lt)
      /\ Len(events') = IF Len(events) + 1 > Limit THEN Limit ELSE Len(events) + 1
      /\ \A i \in 2..Len(events') : events'[i] = events[i - 1]
    BY <1>0, <1>1, <1>3, <1>4, PushAndCut
<1>6. /\ Len(events') \in Nat \ {0}
      /\ lastLT' = events'[Len(events')].lt /\ lastLT' \in 1..MaxLt + 1
    <2>1. Len(events') \in Nat \ {0}
        BY <1>1, <1>5
    <2>2. lastLT' = events'[Len(events')].lt
        BY <2>1 DEF AddPending, Cursor, Last
    <2>3. events'[Len(events')] \in Events
        BY <1>5, <2>1
    <2> QED
        BY <2>1, <2>2, <2>3 DEF Events
<1>7. PageTypeOK'
    <2> USE DEF PageInv, PageTypeOK
    <2>1. /\ top \in 0..MaxLt /\ open \in SUBSET (1..top) /\ txLt \in [Msg -> 0..top]
          /\ adding \in [Msg -> {"idle", "emulated", "done"}]
          /\ emuLt \in [Msg -> 0..MaxLt + 1]
          /\ traced \in SUBSET Msg /\ list \in Seq(Msg) /\ gone \in SUBSET Msg
          /\ known \in 0..top /\ read \in Seq(Events)
        OBVIOUS
    <2>2. /\ UNCHANGED <<top, open, txLt, adding, emuLt, traced, list, gone>>
          /\ UNCHANGED <<pc, before, found, known, read>>
        BY DEF AddPending, chainVars, poolVars
    <2>3. /\ before' \in 0..MaxLt + 1 /\ lastLT' \in 0..MaxLt + 1 /\ shownNow' \in Nat
          /\ pc' = "pending" /\ misled' \in SUBSET Msg
        BY <1>a, <1>1, <1>2, <1>6, <2>2
    <2> QED
        BY <1>1, <1>2, <1>5, <2>1, <2>2, <2>3
<1>8. PoolInv' /\ PhaseInv'
    BY <1>1, <1>2 DEF PageInv, PoolInv, PhaseInv, AddPending, NextHash, poolVars
<1>9. FoundInv'
    BY <1>1 DEF PageInv, FoundInv, AddPending, Upto
<1>10. EventsInv'
    <2>1. found' = found /\ pc' = pc
        BY DEF AddPending
    <2>2. \A i \in 1..Len(events') :
              i > shownNow' => events'[i] = Final(found'[i - shownNow'])
        <3>1. \A i \in 2..Len(events') : i - 1 \in 1..Len(events)
            BY <1>1, <1>4, <1>5
        <3> QED
            BY <1>2, <1>4, <1>5, <1>6, <2>1, <3>1
    <2>3. IsPending(events'[1])
        <3>1. events'[1].msg = {m}
            BY <1>5 DEF Pending
        <3> QED
            BY <3>1 DEF IsPending
    <2>4. Len(events') = IF Len(found') + shownNow' > Limit THEN Limit
                         ELSE Len(found') + shownNow'
        BY <1>2, <1>4, <1>5, <2>1
    <2> QED
        BY <1>1, <1>2, <1>6, <2>1, <2>2, <2>3, <2>4
        DEF EventsInv, IsPending, Final
<1>11. SeenInv'
    BY <1>1, SeenStays DEF PageInv, AddPending
<1>12. OnceInv'
    <2>1. found' = found /\ txLt' = txLt /\ misled \subseteq misled'
        BY <1>a DEF AddPending, chainVars
    <2>2. m \in misled' \/ \A j \in DOMAIN found : found[j] # txLt[m]
        BY <1>a DEF InPage, Contains
    <2>3. \A n \in events'[1].msg : n = m
        BY <1>5 DEF Pending
    <2>4. \A i \in 2..Len(events') : i - 1 \in DOMAIN events /\ events'[i] = events[i - 1]
        <3>1. \A i \in 2..Len(events') : i - 1 \in 1..Len(events)
            BY <1>1, <1>4, <1>5
        <3> QED
            BY <1>1, <1>5, <3>1
    <2>5. DOMAIN events' = 1..Len(events')
        BY <1>5
    <2>6. ASSUME NEW i \in DOMAIN events', NEW n \in events'[i].msg
          PROVE  n \in misled' \/ \A j \in DOMAIN found : found[j] # txLt[n]
        <3>1. CASE i = 1
            BY <2>2, <2>3, <2>6, <3>1
        <3>2. CASE i # 1
            BY <1>6, <2>1, <2>4, <2>5, <2>6, <3>2 DEF PageInv, OnceInv
        <3> QED
            BY <3>1, <3>2
    <2> QED
        BY <2>1, <2>6 DEF OnceInv
<1> QED
    BY <1>7, <1>8, <1>9, <1>10, <1>11, <1>12 DEF PageInv

\* The client begins the page anew; nothing of it had been read.
LEMMA FailPendingStep == PageInv /\ FailPending => PageInv'
<1> SUFFICES ASSUME PageInv, FailPending PROVE PageInv'
    OBVIOUS
<1>1. PageTypeOK'
    BY EventPageAssumption
    DEF PageInv, PageTypeOK, FailPending, Forgotten, chainVars, poolVars
<1>2. PoolInv' /\ PhaseInv' /\ FoundInv' /\ EventsInv' /\ OnceInv'
    BY DEF PageInv, PoolInv, PhaseInv, FoundInv, EventsInv, OnceInv, FailPending,
           NextHash, Forgotten, poolVars
<1>3. SeenInv'
    BY SeenStays DEF PageInv, FailPending, NextHash
<1> QED
    BY <1>1, <1>2, <1>3 DEF PageInv

\* What is appended to what was read: every index of the whole is one of a part.
LEMMA Appended ==
    ASSUME NEW a \in Seq(Events), NEW b \in Seq(Events)
    PROVE  /\ a \o b \in Seq(Events)
           /\ \A i \in DOMAIN a : i \in DOMAIN (a \o b) /\ (a \o b)[i] = a[i]
           /\ \A i \in DOMAIN b : /\ Len(a) + i \in DOMAIN (a \o b)
                                  /\ (a \o b)[Len(a) + i] = b[i]
           /\ \A i \in DOMAIN (a \o b) :
                 \/ i \in DOMAIN a
                 \/ /\ i > Len(a) /\ i - Len(a) \in DOMAIN b
                    /\ (a \o b)[i] = b[i - Len(a)]
OBVIOUS

\* The page that is answered: of traces only, but for a pending event in front of
\* the first; the traces are those from Upto on, as many as there is place for.
LEMMA PageIsRun ==
    ASSUME PageInv, pc = "reply"
    PROVE  /\ Upto \in Nat /\ Len(events) \in Nat /\ Len(events) <= Limit
           /\ shownNow \in {0, 1}
           /\ \A i \in 1..Len(events) : IF i > shownNow
                 THEN events[i] = Final(Upto - (i - shownNow) + 1)
                 ELSE IsPending(events[i])
           /\ Len(events) < Limit => Len(events) = Upto + shownNow
<1>1. /\ Limit \in Nat \ {0} /\ MaxLt \in Nat /\ before \in Nat /\ known \in Nat
      /\ found \in Seq(1..MaxLt) /\ events \in Seq(Events) /\ shownNow \in Nat
      /\ pc = "reply"
    BY EventPageAssumption DEF PageInv, PageTypeOK
<1>2. Upto \in Nat /\ shownNow \in {0, 1}
    BY <1>1 DEF PageInv, EventsInv, Upto
<1>3. /\ Len(found) = IF Upto < Limit THEN Upto ELSE Limit
      /\ \A i \in 1..Len(found) : found[i] = Upto - i + 1
    BY <1>1 DEF PageInv, FoundInv
<1>4. Len(events) = IF Len(found) + shownNow > Limit THEN Limit
                    ELSE Len(found) + shownNow
    BY <1>1 DEF PageInv, EventsInv
<1>5. ASSUME NEW i \in 1..Len(events), i > shownNow
      PROVE  events[i] = Final(Upto - (i - shownNow) + 1)
    <2>1. i - shownNow \in 1..Len(found)
        BY <1>1, <1>2, <1>3, <1>4, <1>5
    <2>2. events[i] = Final(found[i - shownNow])
        BY <1>1, <1>5 DEF PageInv, EventsInv
    <2> QED
        BY <1>3, <2>1, <2>2
<1>6. ASSUME NEW i \in 1..Len(events), ~(i > shownNow)
      PROVE  IsPending(events[i])
    <2>1. i = 1 /\ shownNow = 1
        BY <1>2, <1>6
    <2> QED
        BY <1>1, <2>1 DEF PageInv, EventsInv
<1>7. /\ Len(events) \in Nat /\ Len(events) <= Limit
      /\ Len(events) < Limit => Len(events) = Upto + shownNow
    BY <1>1, <1>2, <1>3, <1>4
<1> QED
    BY <1>2, <1>5, <1>6, <1>7

\* The place of a trace on the page, and the trace at a place.
LEMMA Places ==
    ASSUME PageInv, pc = "reply"
    PROVE  /\ \A i \in DOMAIN events : ~IsPending(events[i]) =>
                 /\ events[i].lt = Upto - (i - shownNow) + 1
                 /\ events[i].lt <= Upto
                 /\ events[i].lt > Upto - Len(events) + shownNow
           /\ \A lt \in Nat \ {0} :
                 lt <= Upto /\ lt > Upto - Len(events) + shownNow =>
                     \E i \in DOMAIN events : events[i] = Final(lt)
<1>1. /\ Upto \in Nat /\ Len(events) \in Nat /\ shownNow \in {0, 1}
      /\ \A i \in 1..Len(events) : IF i > shownNow
            THEN events[i] = Final(Upto - (i - shownNow) + 1)
            ELSE IsPending(events[i])
    BY PageIsRun
<1>2. DOMAIN events = 1..Len(events)
    BY DEF PageInv, PageTypeOK
<1>3. ASSUME NEW i \in DOMAIN events, ~IsPending(events[i])
      PROVE  /\ events[i].lt = Upto - (i - shownNow) + 1
             /\ events[i].lt <= Upto
             /\ events[i].lt > Upto - Len(events) + shownNow
    <2>1. i \in 1..Len(events) /\ i > shownNow
        BY <1>1, <1>2, <1>3
    <2>2. events[i] = Final(Upto - (i - shownNow) + 1)
        BY <1>1, <2>1
    <2>3. events[i].lt = Upto - (i - shownNow) + 1
        BY <2>2 DEF Final
    <2> QED
        BY <1>1, <2>1, <2>3
<1>4. ASSUME NEW lt \in Nat \ {0}, lt <= Upto, lt > Upto - Len(events) + shownNow
      PROVE  \E i \in DOMAIN events : events[i] = Final(lt)
    <2> DEFINE i == Upto - lt + 1 + shownNow
    <2>1. i \in 1..Len(events) /\ i > shownNow /\ Upto - (i - shownNow) + 1 = lt
        BY <1>1, <1>4
    <2>2. events[i] = Final(lt)
        BY <1>1, <2>1
    <2> QED
        BY <1>2, <2>1, <2>2
<1> QED
    BY <1>3, <1>4

\* With the page that is answered the traces that were seen go on without a gap; a
\* page of one place could have none of them, and skip some.
LEMMA ReplyStep ==
    ASSUME PageInv, Reply, Limit > 1
    PROVE  PageInv'
<1>1. /\ Limit \in Nat /\ MaxLt \in Nat /\ before \in Nat /\ known \in Nat
      /\ events \in Seq(Events) /\ read \in Seq(Events) /\ lastLT \in 0..MaxLt + 1
      /\ pc = "reply"
    BY EventPageAssumption DEF PageInv, PageTypeOK, Reply
<1>2. /\ Upto \in Nat /\ Len(events) \in Nat /\ Len(events) <= Limit
      /\ shownNow \in {0, 1}
      /\ Len(events) < Limit => Len(events) = Upto + shownNow
    BY <1>1, PageIsRun
<1>3. /\ read' \in Seq(Events)
      /\ \A i \in DOMAIN read : i \in DOMAIN read' /\ read'[i] = read[i]
      /\ \A i \in DOMAIN events : /\ Len(read) + i \in DOMAIN read'
                                  /\ read'[Len(read) + i] = events[i]
      /\ \A i \in DOMAIN read' :
            \/ i \in DOMAIN read
            \/ /\ i > Len(read) /\ i - Len(read) \in DOMAIN events
               /\ read'[i] = events[i - Len(read)]
    BY <1>1, Appended DEF Reply
<1>4. /\ DOMAIN events = 1..Len(events) /\ DOMAIN read = 1..Len(read)
      /\ Len(read) \in Nat /\ DOMAIN read' \subseteq Nat
      /\ \A i \in DOMAIN read : read[i].lt \in Nat
      /\ \A i \in DOMAIN events : events[i].lt \in Nat \ {0}
    <2>1. \A e \in Events : e.lt \in Nat \ {0}
        BY <1>1 DEF Events
    <2> QED
        BY <1>1, <1>3, <2>1
<1>5. known' = known
    BY DEF Reply
<1>6. ASSUME NEW i \in DOMAIN read', ~IsPending(read'[i])
      PROVE  /\ read'[i].lt > Upto - Len(events) + shownNow
             /\ i \notin DOMAIN read => read'[i].lt <= Upto
    <2>1. CASE i \in DOMAIN read
        <3>1. read[i].lt > Upto
            BY <1>1, <1>3, <1>6, <2>1 DEF PageInv, SeenInv
        <3>2. shownNow <= Len(events)
            BY <1>1, <1>2
        <3>3. read'[i] = read[i] /\ read[i].lt \in Nat
            BY <1>3, <1>4, <2>1
        <3>4. Upto - Len(events) + shownNow <= Upto
            BY <1>2, <3>2
        <3>5. read[i].lt > Upto - Len(events) + shownNow
            BY <1>2, <3>1, <3>3, <3>4
        <3> QED
            BY <2>1, <3>3, <3>5
    <2>2. CASE i \notin DOMAIN read
        BY <1>1, <1>3, <1>6, <2>2, Places
    <2> QED
        BY <2>1, <2>2
<1>7. ASSUME NEW i \in DOMAIN read', NEW j \in DOMAIN read', i < j,
             ~IsPending(read'[i]), ~IsPending(read'[j])
      PROVE  read'[i].lt > read'[j].lt
    <2>1. CASE j \in DOMAIN read
        <3>1. i \in DOMAIN read
            BY <1>3, <1>4, <1>7, <2>1
        <3> QED
            BY <1>3, <1>7, <2>1, <3>1 DEF PageInv, SeenInv
    <2>2. CASE i \in DOMAIN read /\ j \notin DOMAIN read
        <3>1. read'[i].lt > Upto /\ read'[i].lt \in Nat
            BY <1>1, <1>3, <1>4, <1>7, <2>2 DEF PageInv, SeenInv
        <3>2. read'[j].lt <= Upto /\ read'[j].lt \in Nat
            BY <1>3, <1>4, <1>6, <1>7, <2>2
        <3> QED
            BY <1>2, <3>1, <3>2
    <2>3. CASE i \notin DOMAIN read /\ j \notin DOMAIN read
        <3> DEFINE k == i - Len(read)
                   l == j - Len(read)
        <3>1. /\ k \in DOMAIN events /\ l \in DOMAIN events
              /\ read'[i] = events[k] /\ read'[j] = events[l]
            BY <1>3, <2>3
        <3>2. k < l /\ k \in Nat /\ l \in Nat
            BY <1>4, <1>7, <3>1
        <3>3. /\ events[k].lt = Upto - (k - shownNow) + 1
              /\ events[l].lt = Upto - (l - shownNow) + 1
            BY <1>1, <1>7, <3>1, Places
        <3> QED
            BY <1>2, <3>1, <3>2, <3>3
    <2> QED
        BY <2>1, <2>2, <2>3
<1>8. ASSUME NEW lt \in 1..known, lt > Upto - Len(events) + shownNow
      PROVE  Seen(lt)'
    <2>1. CASE lt > Upto
        <3>1. PICK i \in DOMAIN read : read[i] = Final(lt)
            BY <1>1, <2>1 DEF PageInv, SeenInv, Seen
        <3> QED
            BY <1>3, <3>1 DEF Seen, Final
    <2>2. CASE lt <= Upto
        <3>1. PICK i \in DOMAIN events : events[i] = Final(lt)
            BY <1>1, <1>8, <2>2, Places
        <3> QED
            BY <1>3, <3>1 DEF Seen, Final
    <2> QED
        BY <1>1, <1>2, <2>1, <2>2
<1>9. CASE Len(events) < Limit
    <2>1. before' = 0 /\ pc' = "end"
        BY <1>9 DEF Reply
    <2>2. \A lt \in 1..known : Seen(lt)'
        BY <1>1, <1>2, <1>8, <1>9
    <2>3. SeenInv'
        BY <1>5, <1>7, <2>1, <2>2 DEF SeenInv, IsPending
    <2>4. PageTypeOK'
        BY <1>1, <1>3, <2>1
        DEF PageInv, PageTypeOK, Reply, Forgotten, chainVars, poolVars
    <2>5. PoolInv' /\ PhaseInv' /\ FoundInv' /\ EventsInv' /\ OnceInv'
        BY <2>1
        DEF PageInv, PoolInv, PhaseInv, FoundInv, EventsInv, OnceInv, Reply, Forgotten,
            poolVars
    <2> QED
        BY <2>3, <2>4, <2>5 DEF PageInv
<1>10. CASE Len(events) = Limit
    <2>1. /\ before' = lastLT /\ lastLT = Upto - Len(events) + shownNow + 1
          /\ lastLT \in 1..MaxLt + 1
        <3>1. Limit \in DOMAIN events /\ ~IsPending(events[Limit])
            <4>1. Limit \in 1..Len(events) /\ Limit > shownNow
                BY <1>1, <1>2, <1>10
            <4>2. events[Limit] = Final(Upto - (Limit - shownNow) + 1)
                BY <1>1, <4>1, PageIsRun
            <4> QED
                BY <1>4, <4>1, <4>2 DEF Final, IsPending
        <3>2. lastLT = events[Limit].lt
            BY <1>1, <1>10 DEF PageInv, EventsInv
        <3>3. events[Limit].lt = Upto - (Limit - shownNow) + 1
            BY <1>1, <3>1, Places
        <3>4. before' = lastLT
            BY <1>1, <1>10 DEF Reply
        <3> QED
            BY <1>1, <1>2, <1>4, <1>10, <3>1, <3>2, <3>3, <3>4
    <2>2. pc' = "more" /\ Upto' = Upto - Len(events) + shownNow
        BY <1>1, <1>2, <2>1 DEF Reply, Upto
    <2>6. Upto' <= known'
        BY <1>1, <1>2, <1>5, <1>10, <2>2 DEF PageInv, SeenInv
    <2>3. SeenInv'
        BY <1>5, <1>6, <1>7, <1>8, <2>2, <2>6 DEF SeenInv, IsPending
    <2>4. PageTypeOK'
        BY <1>1, <1>3, <2>1, <2>2
        DEF PageInv, PageTypeOK, Reply, Forgotten, chainVars, poolVars
    <2>5. PoolInv' /\ PhaseInv' /\ FoundInv' /\ EventsInv' /\ OnceInv'
        BY <2>1, <2>2
        DEF PageInv, PoolInv, PhaseInv, FoundInv, EventsInv, OnceInv, Reply, Forgotten,
            poolVars
    <2> QED
        BY <2>3, <2>4, <2>5 DEF PageInv
<1> QED
    BY <1>1, <1>2, <1>9, <1>10

LEMMA PageStep ==
    ASSUME PageInv, Limit > 1, [PageNext]_eventVars
    PROVE  PageInv'
<1>1. CASE UNCHANGED eventVars
    <2>1. PageTypeOK' /\ PoolInv' /\ PhaseInv'
        BY <1>1 DEF PageInv, PageTypeOK, PoolInv, PhaseInv, eventVars, chainVars,
                    poolVars, pageVars
    <2>2. FoundInv' /\ EventsInv' /\ SeenInv' /\ OnceInv'
        BY <1>1, PoolKeepsPages DEF eventVars
    <2> QED
        BY <2>1, <2>2 DEF PageInv
<1> QED
    BY <1>1, ChainStep, PoolStep, SearchStep, ProcessStep, LookStep, AddPendingStep,
       FailPendingStep, ReplyStep
    DEF PageNext, GetAccountEvents

\* A client that reads GetAccountEvents page by page to the end gets each trace of
\* the history it began with once, newest first, and on no page a message as pending
\* next to the trace it began, for any number of messages that are emulated, included
\* and forgotten meanwhile, whose traces are saved or not, and every limit but 1.
THEOREM PagesLoseNothing ==
    ASSUME Limit > 1
    PROVE  PageSpec => [](PageTypeOK /\ PagesAreRight)
<1>1. PageInv => PageTypeOK /\ PagesCoverHistory
    BY DEF PageInv, SeenInv, Seen, PagesCoverHistory
<1>2. PageInv => ShownOnce
    <2> SUFFICES ASSUME PageInv, NEW i \in DOMAIN events, NEW j \in DOMAIN events,
                        NEW m \in events[i].msg, ~IsPending(events[j]),
                        events[j].lt = txLt[m]
                 PROVE  m \in misled
        BY DEF ShownOnce
    <2>1. pc \in {"mempool", "pending", "reply"}
        BY DEF PageInv, PageTypeOK, PhaseInv
    <2>2. j > shownNow
        BY <2>1 DEF PageInv, PageTypeOK, EventsInv
    <2>3. events[j].lt = found[j - shownNow]
        <3>1. j \in 1..Len(events)
            BY DEF PageInv, PageTypeOK
        <3>2. events[j] = Final(found[j - shownNow])
            BY <2>1, <2>2, <3>1 DEF PageInv, EventsInv
        <3> QED
            BY <3>2 DEF Final
    <2>4. j - shownNow \in DOMAIN found
        BY <2>1, <2>2, EventPageAssumption DEF PageInv, PageTypeOK, EventsInv
    <2> QED
        BY <2>3, <2>4 DEF PageInv, OnceInv
<1>3. PageInv /\ [PageNext]_eventVars => PageInv'
    BY PageStep
<1>4. PageInv => PageTypeOK /\ PagesAreRight
    BY <1>1, <1>2 DEF PagesAreRight
<1> QED
    BY PageInitially, <1>3, <1>4, PTL DEF PageSpec

-----------------------------------------------------------------------------
(* What the handlers answer. *)

AnswerFields == {"kind", "id", "event", "pc", "trace", "ret", "err", "built",
                 "spam", "status", "early"}

RequestShape ==
    /\ DOMAIN req = Request
    /\ \A r \in Request : /\ DOMAIN req[r] = AnswerFields
                          /\ req[r].ret \in Err /\ req[r].err \in Err
                          /\ req[r].built \in BOOLEAN

\* Up to pc a handler without a goroutine has found what it goes by: err is what
\* getTraceByHash returned, later whether the event could be built.
FoundOut(r) ==
    LET q == req[r]
        got == q.ret = "nil" /\ q.trace # "none"
    IN (q.pc = "idle" \/ q.kind # "GetAccountEvent") =>
        /\ q.spam # "running"
        /\ q.pc \in {"idle", "index", "message", "emulated"} =>
              q.ret = "nil" /\ q.trace = "none" /\ q.built
        /\ q.pc \in {"assign", "check", "checkOther"} =>
              (q.ret = "nil" <=> q.trace # "none") /\ q.built
        /\ q.pc \in {"check", "checkOther"} => q.err = q.ret
        /\ q.pc = "checkOther" => q.err \notin {"notFound", "tooMany", "tooLong"}
        /\ q.pc \in {"build", "spam", "reply"} => got /\ q.built
        /\ q.pc = "checkBuild" => got /\ (q.err = "nil" <=> q.built)
        /\ q.pc = "done" => q.status = Right(r)

\* What was on chain stays there, and who looks at the emulated trace of a message
\* has seen that it was not.
LookedOnChain(r) ==
    LET q == req[r] IN
    /\ q.pc = "idle" => ~q.early
    /\ q.early => q.event \in onChain
    /\ q.pc \in {"idle", "index", "message", "emulated"} => q.trace = "none"
    /\ q.pc = "emulated" /\ q.id = "message" => ~q.early
    /\ q.trace = "emulated" => ~q.early

AnswerInv ==
    RequestShape /\ \A r \in Request : FoundOut(r) /\ LookedOnChain(r)

LEMMA AnswerInitially == AnswerInit => AnswerInv
<1> SUFFICES ASSUME AnswerInit PROVE AnswerInv
    OBVIOUS
<1>1. /\ DOMAIN req = Request
      /\ \A r \in Request : req[r] = Idle
    BY DEF AnswerInit
<1>2. /\ DOMAIN Idle = AnswerFields /\ Idle.pc = "idle" /\ Idle.kind = "GetTrace"
      /\ Idle.ret = "nil" /\ Idle.err = "nil" /\ Idle.built = TRUE
      /\ Idle.trace = "none" /\ Idle.spam = "none" /\ Idle.early = FALSE
    BY DEF Idle, AnswerFields
<1> QED
    BY <1>1, <1>2 DEF AnswerInv, RequestShape, FoundOut, LookedOnChain, Err

\* The storage goes on: requests are as they were, and nothing leaves the chain.
LEMMA StorageStep ==
    ASSUME AnswerInv, req' = req, onChain \subseteq onChain'
    PROVE  AnswerInv'
<1>1. RequestShape'
    BY DEF AnswerInv, RequestShape
<1>2. ASSUME NEW r \in Request PROVE FoundOut(r)' /\ LookedOnChain(r)'
    <2>1. FoundOut(r) /\ LookedOnChain(r)
        BY DEF AnswerInv
    <2>2. FoundOut(r)'
        BY <2>1 DEF FoundOut, Right
    <2>3. LookedOnChain(r)'
        BY <2>1 DEF LookedOnChain
    <2> QED
        BY <2>2, <2>3
<1> QED
    BY <1>1, <1>2 DEF AnswerInv

\* What AnswerSet does to the fields of a request.
LEMMA AnswerSetFields ==
    ASSUME NEW r \in Request, NEW fields, RequestShape, AnswerSet(r, fields)
    PROVE  /\ DOMAIN req' = Request /\ DOMAIN req'[r] = AnswerFields
           /\ \A f \in AnswerFields :
                 req'[r][f] = IF f \in DOMAIN fields THEN fields[f] ELSE req[r][f]
           /\ \A s \in Request : s # r => req'[s] = req[s]
BY DEF AnswerSet, RequestShape

\* So a step of one request has to be looked at for that one only.
LEMMA OneRequest ==
    ASSUME AnswerInv, NEW r \in Request, onChain' = onChain,
           DOMAIN req' = Request, DOMAIN req'[r] = AnswerFields,
           \A s \in Request : s # r => req'[s] = req[s],
           req'[r].ret \in Err, req'[r].err \in Err, req'[r].built \in BOOLEAN,
           FoundOut(r)', LookedOnChain(r)'
    PROVE  AnswerInv'
<1>1. RequestShape'
    BY DEF AnswerInv, RequestShape
<1>2. ASSUME NEW s \in Request, s # r PROVE FoundOut(s)' /\ LookedOnChain(s)'
    <2>1. FoundOut(s) /\ LookedOnChain(s) /\ req'[s] = req[s]
        BY <1>2 DEF AnswerInv
    <2>2. FoundOut(s)'
        BY <2>1 DEF FoundOut, Right
    <2>3. LookedOnChain(s)'
        BY <2>1 DEF LookedOnChain
    <2> QED
        BY <2>2, <2>3
<1> QED
    BY <1>1, <1>2 DEF AnswerInv

LEMMA BeginStep ==
    ASSUME AnswerInv, NEW r \in Request, NEW kind \in Kind, NEW id \in HashKind,
           NEW e \in Event, Begin(r, kind, id, e)
    PROVE  AnswerInv'
<1>1. /\ DOMAIN req' = Request /\ DOMAIN req'[r] = AnswerFields
      /\ \A s \in Request : s # r => req'[s] = req[s]
      /\ req'[r].kind = kind /\ req'[r].id = id /\ req'[r].event = e
      /\ req'[r].pc = "index" /\ req'[r].early = (e \in onChain)
      /\ req'[r].spam = IF kind = "GetAccountEvent" THEN "running" ELSE "none"
      /\ req'[r].trace = req[r].trace /\ req'[r].ret = req[r].ret
      /\ req'[r].err = req[r].err /\ req'[r].built = req[r].built
    BY AnswerSetFields DEF AnswerInv, Begin, AnswerFields
<1>2. /\ req[r].pc = "idle" /\ onChain' = onChain /\ RequestShape
      /\ FoundOut(r) /\ LookedOnChain(r)
    BY DEF AnswerInv, Begin, AnswerAt, Store
<1>3. FoundOut(r)'
    BY <1>1, <1>2 DEF FoundOut
<1>4. LookedOnChain(r)'
    BY <1>1, <1>2 DEF LookedOnChain
<1> QED
    BY <1>1, <1>2, <1>3, <1>4, OneRequest DEF RequestShape

\* getTraceByHash asks the index, the chain by message, the emulated traces.
LEMMA ReadStep ==
    ASSUME AnswerInv, NEW r \in Request,
           ReadIndex(r) \/ ReadByMessage(r) \/ ReadEmulated(r)
    PROVE  AnswerInv'
<1>1. /\ req[r].pc \in {"index", "message", "emulated"} /\ onChain' = onChain
      /\ RequestShape /\ FoundOut(r) /\ LookedOnChain(r)
    BY DEF AnswerInv, ReadIndex, ReadByMessage, ReadEmulated, AnswerAt, Store
<1>2. ASSUME NEW e \in Err \ {"nil"}, Fails(r, e) PROVE AnswerInv'
    <2>1. /\ DOMAIN req' = Request /\ DOMAIN req'[r] = AnswerFields
          /\ \A s \in Request : s # r => req'[s] = req[s]
          /\ req'[r].pc = "assign" /\ req'[r].ret = e
          /\ req'[r].kind = req[r].kind /\ req'[r].id = req[r].id
          /\ req'[r].event = req[r].event /\ req'[r].early = req[r].early
          /\ req'[r].spam = req[r].spam /\ req'[r].trace = req[r].trace
          /\ req'[r].err = req[r].err /\ req'[r].built = req[r].built
        BY <1>1, <1>2, AnswerSetFields DEF Fails, AnswerFields
    <2>2. FoundOut(r)'
        BY <1>1, <2>1 DEF FoundOut
    <2>3. LookedOnChain(r)'
        BY <1>1, <2>1 DEF LookedOnChain
    <2> QED
        BY <1>1, <2>1, <2>2, <2>3, OneRequest DEF RequestShape, AnswerInv
<1>3. ASSUME NEW trace \in {"real", "emulated"}, Found(r, trace),
             trace = "emulated" => ~req[r].early
      PROVE  AnswerInv'
    <2>1. /\ DOMAIN req' = Request /\ DOMAIN req'[r] = AnswerFields
          /\ \A s \in Request : s # r => req'[s] = req[s]
          /\ req'[r].pc = "assign" /\ req'[r].ret = "nil" /\ req'[r].trace = trace
          /\ req'[r].kind = req[r].kind /\ req'[r].id = req[r].id
          /\ req'[r].event = req[r].event /\ req'[r].early = req[r].early
          /\ req'[r].spam = req[r].spam
          /\ req'[r].err = req[r].err /\ req'[r].built = req[r].built
        BY <1>1, <1>3, AnswerSetFields DEF Found, AnswerFields
    <2>2. FoundOut(r)'
        BY <1>1, <2>1 DEF FoundOut
    <2>3. LookedOnChain(r)'
        BY <1>1, <1>3, <2>1 DEF LookedOnChain
    <2> QED
        BY <1>1, <2>1, <2>2, <2>3, OneRequest DEF RequestShape, AnswerInv, Err
<1>4. ASSUME NEW to \in {"message", "emulated"}, AnswerSet(r, [pc |-> to]),
             to = "emulated" /\ req[r].id = "message" => ~req[r].early
      PROVE  AnswerInv'
    <2>1. /\ DOMAIN req' = Request /\ DOMAIN req'[r] = AnswerFields
          /\ \A s \in Request : s # r => req'[s] = req[s]
          /\ req'[r].pc = to
          /\ \A f \in AnswerFields \ {"pc"} : req'[r][f] = req[r][f]
        BY <1>1, <1>4, AnswerSetFields DEF AnswerFields
    <2>2. /\ req'[r].kind = req[r].kind /\ req'[r].id = req[r].id
          /\ req'[r].event = req[r].event /\ req'[r].early = req[r].early
          /\ req'[r].spam = req[r].spam /\ req'[r].trace = req[r].trace
          /\ req'[r].ret = req[r].ret
          /\ req'[r].err = req[r].err /\ req'[r].built = req[r].built
        BY <2>1 DEF AnswerFields
    <2>3. FoundOut(r)'
        BY <1>1, <2>1, <2>2 DEF FoundOut
    <2>4. LookedOnChain(r)'
        BY <1>1, <1>4, <2>1, <2>2 DEF LookedOnChain
    <2> QED
        BY <1>1, <2>1, <2>2, <2>3, <2>4, OneRequest DEF RequestShape, AnswerInv
<1>5. CASE ReadIndex(r)
    BY <1>2, <1>3, <1>4, <1>5 DEF ReadIndex
<1>6. CASE ReadByMessage(r)
    <2>1. req[r].id = "message" /\ req[r].event \notin onChain => ~req[r].early
        BY <1>1 DEF LookedOnChain
    <2>2. "notFound" \in Err \ {"nil"}
        BY DEF Err
    <2> QED
        BY <1>2, <1>3, <1>4, <1>6, <2>1, <2>2 DEF ReadByMessage
<1>7. CASE ReadEmulated(r)
    <2>1. req[r].id = "message" => ~req[r].early
        BY <1>1, <1>7 DEF LookedOnChain, ReadEmulated, AnswerAt
    <2>2. "notFound" \in Err \ {"nil"}
        BY DEF Err
    <2> QED
        BY <1>2, <1>3, <1>7, <2>1, <2>2 DEF ReadEmulated
<1> QED
    BY <1>5, <1>6, <1>7

\* What a step after that leaves alone.
Kept(r) ==
    /\ onChain' = onChain /\ DOMAIN req' = Request /\ DOMAIN req'[r] = AnswerFields
    /\ \A s \in Request : s # r => req'[s] = req[s]
    /\ req'[r].kind = req[r].kind /\ req'[r].id = req[r].id
    /\ req'[r].event = req[r].event /\ req'[r].early = req[r].early
    /\ req'[r].trace = req[r].trace /\ req'[r].ret = req[r].ret

LEMMA KeepsAnswer ==
    ASSUME AnswerInv, NEW r \in Request, Kept(r), req'[r].err \in Err,
           req'[r].built \in BOOLEAN, FoundOut(r)',
           req'[r].pc \notin {"idle", "index", "message", "emulated"}
    PROVE  AnswerInv'
<1>1. req[r].ret \in Err /\ LookedOnChain(r)
    BY DEF AnswerInv, RequestShape
<1>2. LookedOnChain(r)'
    BY <1>1 DEF Kept, LookedOnChain
<1> QED
    BY <1>1, <1>2, OneRequest DEF Kept

LEMMA SetsOthers ==
    ASSUME AnswerInv, NEW r \in Request, NEW fields, AnswerSet(r, fields),
           UNCHANGED Store, DOMAIN fields \subseteq {"pc", "err", "built", "spam", "status"}
    PROVE  /\ Kept(r)
           /\ \A f \in {"pc", "err", "built", "spam", "status"} :
                 req'[r][f] = IF f \in DOMAIN fields THEN fields[f] ELSE req[r][f]
<1>1. RequestShape
    BY DEF AnswerInv
<1>2. /\ DOMAIN req' = Request /\ DOMAIN req'[r] = AnswerFields
      /\ \A s \in Request : s # r => req'[s] = req[s]
      /\ \A f \in AnswerFields :
            req'[r][f] = IF f \in DOMAIN fields THEN fields[f] ELSE req[r][f]
    BY <1>1, AnswerSetFields
<1>3. \A f \in {"kind", "id", "event", "early", "trace", "ret"} :
          req'[r][f] = req[r][f]
    BY <1>2 DEF AnswerFields
<1>4. Kept(r)
    BY <1>2, <1>3 DEF Kept, Store
<1> QED
    BY <1>2, <1>4 DEF AnswerFields

\* The handler assigns, looks at and answers what was found.
LEMMA CheckStep ==
    ASSUME AnswerInv, NEW r \in Request,
           Assign(r) \/ CheckKnown(r) \/ CheckOther(r)
    PROVE  AnswerInv'
<1>1. /\ FoundOut(r) /\ req[r].ret \in Err /\ req[r].err \in Err
      /\ req[r].built \in BOOLEAN
    BY DEF AnswerInv, RequestShape
<1>2. CASE Assign(r)
    <2>1. /\ Kept(r) /\ req[r].pc = "assign"
          /\ req'[r].pc = "check" /\ req'[r].err = req[r].ret
          /\ req'[r].built = req[r].built /\ req'[r].spam = req[r].spam
        BY <1>2, SetsOthers DEF Assign, AnswerAt
    <2>2. FoundOut(r)'
        BY <1>1, <2>1 DEF FoundOut, Kept
    <2> QED
        BY <1>1, <2>1, <2>2, KeepsAnswer
<1>3. ASSUME req[r].pc \in {"check", "checkOther"}, NEW status,
             Answer(r, status), UNCHANGED Store,
             req[r].kind # "GetAccountEvent" => status = Right(r)
      PROVE  AnswerInv'
    <2>1. /\ Kept(r) /\ req'[r].pc = "done" /\ req'[r].status = status
          /\ req'[r].err = req[r].err
          /\ req'[r].built = req[r].built /\ req'[r].spam = req[r].spam
        BY <1>3, SetsOthers DEF Answer
    <2>2. Right(r)' = Right(r)
        BY <2>1 DEF Right, Kept
    <2>3. FoundOut(r)'
        BY <1>1, <1>3, <2>1, <2>2 DEF FoundOut, Kept
    <2> QED
        BY <1>1, <2>1, <2>3, KeepsAnswer
<1>4. CASE CheckKnown(r)
    <2>1. /\ req[r].pc = "check" /\ UNCHANGED Store
          /\ req[r].kind # "GetAccountEvent" => req[r].err = req[r].ret
        BY <1>1, <1>4 DEF CheckKnown, AnswerAt, FoundOut
    <2>2. CASE req[r].err \in {"notFound", "tooMany"}
        BY <1>3, <1>4, <2>1, <2>2 DEF CheckKnown, Right
    <2>3. CASE req[r].err = "tooLong"
        BY <1>3, <1>4, <2>1, <2>3 DEF CheckKnown, Right
    <2>4. CASE req[r].err \notin {"notFound", "tooMany", "tooLong"}
        <3>1. /\ Kept(r) /\ req'[r].pc = "checkOther" /\ req'[r].err = req[r].err
              /\ req'[r].built = req[r].built /\ req'[r].spam = req[r].spam
            BY <1>4, <2>4, SetsOthers DEF CheckKnown
        <3>2. FoundOut(r)'
            BY <1>1, <2>1, <2>4, <3>1 DEF FoundOut, Kept
        <3> QED
            BY <1>1, <3>1, <3>2, KeepsAnswer
    <2> QED
        BY <2>2, <2>3, <2>4
<1>5. CASE CheckOther(r)
    <2>1. /\ req[r].pc = "checkOther" /\ UNCHANGED Store
          /\ req[r].kind # "GetAccountEvent" =>
                /\ req[r].err = req[r].ret
                /\ req[r].ret \notin {"notFound", "tooMany", "tooLong"}
        BY <1>1, <1>5 DEF CheckOther, AnswerAt, FoundOut
    <2>2. CASE req[r].err # "nil"
        <3>1. req[r].kind # "GetAccountEvent" => Right(r) = 500
            BY <1>1, <2>1, <2>2 DEF Right, Err
        <3> QED
            BY <1>3, <1>5, <2>1, <2>2, <3>1 DEF CheckOther
    <2>3. CASE req[r].err = "nil"
        <3>1. /\ Kept(r) /\ req'[r].pc = AfterChecks(r) /\ req'[r].err = req[r].err
              /\ req'[r].built = req[r].built /\ req'[r].spam = req[r].spam
            BY <1>5, <2>3, SetsOthers DEF CheckOther
        <3>2. req'[r].pc \in {"reply", "build"}
            BY <3>1 DEF AfterChecks
        <3>3. FoundOut(r)'
            BY <1>1, <2>1, <2>3, <3>1, <3>2 DEF FoundOut, Kept
        <3> QED
            BY <1>1, <3>1, <3>2, <3>3, KeepsAnswer
    <2> QED
        BY <2>2, <2>3
<1> QED
    BY <1>2, <1>4, <1>5

\* The event is built, marked and answered.
LEMMA ReplyTraceStep ==
    ASSUME AnswerInv, NEW r \in Request,
           \/ Build(r) \/ CheckBuild(r) \/ AskSpam(r) \/ WaitSpam(r) \/ ReplyTrace(r)
    PROVE  AnswerInv'
<1>1. /\ FoundOut(r) /\ req[r].ret \in Err /\ req[r].err \in Err
      /\ req[r].built \in BOOLEAN
    BY DEF AnswerInv, RequestShape
<1>2. ASSUME req[r].pc \in {"build", "checkBuild", "reply"}, NEW status,
             Answer(r, status), UNCHANGED Store,
             req[r].kind # "GetAccountEvent" => status = Right(r)
      PROVE  AnswerInv'
    <2>1. /\ Kept(r) /\ req'[r].pc = "done" /\ req'[r].status = status
          /\ req'[r].err = req[r].err
          /\ req'[r].built = req[r].built /\ req'[r].spam = req[r].spam
        BY <1>2, SetsOthers DEF Answer
    <2>2. Right(r)' = Right(r)
        BY <2>1 DEF Right, Kept
    <2>3. FoundOut(r)'
        BY <1>1, <1>2, <2>1, <2>2 DEF FoundOut, Kept
    <2> QED
        BY <1>1, <2>1, <2>3, KeepsAnswer
<1>3. CASE Build(r)
    <2>1. /\ req[r].pc = "build" /\ UNCHANGED Store
          /\ req[r].kind # "GetAccountEvent" => req[r].trace # "none"
        BY <1>1, <1>3 DEF Build, AnswerAt, FoundOut
    <2>2. CASE req[r].trace = "none"
        BY <1>2, <1>3, <2>1, <2>2 DEF Build
    <2>3. CASE req[r].trace # "none"
        <3>1. PICK ok \in BOOLEAN :
                  AnswerSet(r, [built |-> ok, pc |-> "checkBuild",
                                err |-> IF ok THEN "nil" ELSE "failed"])
            BY <1>3, <2>3 DEF Build
        <3>2. /\ Kept(r) /\ req'[r].pc = "checkBuild" /\ req'[r].built = ok
              /\ req'[r].err = IF ok THEN "nil" ELSE "failed"
              /\ req'[r].spam = req[r].spam
            BY <2>1, <3>1, SetsOthers
        <3>3. FoundOut(r)'
            BY <1>1, <2>1, <3>2 DEF FoundOut, Kept
        <3>4. req'[r].err \in Err
            BY <3>2 DEF Err
        <3> QED
            BY <3>2, <3>3, <3>4, KeepsAnswer
    <2> QED
        BY <2>2, <2>3
<1>4. CASE CheckBuild(r)
    <2>1. /\ req[r].pc = "checkBuild" /\ UNCHANGED Store
          /\ req[r].kind # "GetAccountEvent" =>
                req[r].ret = "nil" /\ (req[r].err = "nil" <=> req[r].built)
        BY <1>1, <1>4 DEF CheckBuild, AnswerAt, FoundOut
    <2>2. CASE req[r].err # "nil"
        <3>1. req[r].kind # "GetAccountEvent" => Right(r) = 500
            BY <1>1, <2>1, <2>2 DEF Right
        <3> QED
            BY <1>2, <1>4, <2>1, <2>2, <3>1 DEF CheckBuild
    <2>3. CASE req[r].err = "nil"
        <3>1. /\ Kept(r) /\ req'[r].pc = "spam" /\ req'[r].err = req[r].err
              /\ req'[r].built = req[r].built /\ req'[r].spam = req[r].spam
            BY <1>4, <2>3, SetsOthers DEF CheckBuild
        <3>2. FoundOut(r)'
            BY <1>1, <2>1, <2>3, <3>1 DEF FoundOut, Kept
        <3> QED
            BY <1>1, <3>1, <3>2, KeepsAnswer
    <2> QED
        BY <2>2, <2>3
<1>5. CASE AskSpam(r) \/ WaitSpam(r)
    <2>1. /\ Kept(r) /\ req[r].pc = "spam"
          /\ req'[r].pc = "reply" /\ req'[r].err = req[r].err
          /\ req'[r].built = req[r].built
          /\ req'[r].spam \in {"done", req[r].spam}
        BY <1>5, SetsOthers DEF AskSpam, WaitSpam, AnswerAt
    <2>2. FoundOut(r)'
        BY <1>1, <2>1 DEF FoundOut, Kept
    <2> QED
        BY <1>1, <2>1, <2>2, KeepsAnswer
<1>6. CASE ReplyTrace(r)
    <2>1. /\ req[r].pc = "reply" /\ UNCHANGED Store
          /\ req[r].kind # "GetAccountEvent" =>
                req[r].ret = "nil" /\ req[r].trace # "none" /\ req[r].built
        BY <1>1, <1>6 DEF ReplyTrace, AnswerAt, FoundOut
    <2>2. req[r].kind # "GetAccountEvent" => Right(r) = 200
        BY <2>1 DEF Right
    <2> QED
        BY <1>2, <1>6, <2>1, <2>2 DEF ReplyTrace
<1> QED
    BY <1>3, <1>4, <1>5, <1>6

\* Only GetAccountEvent has a goroutine that assigns to err.
LEMMA SpamStep ==
    ASSUME AnswerInv, NEW r \in Request, SpamReturns(r)
    PROVE  AnswerInv'
<1>1. /\ FoundOut(r) /\ LookedOnChain(r) /\ RequestShape
      /\ req[r].ret \in Err /\ req[r].built \in BOOLEAN
    BY DEF AnswerInv, RequestShape
<1>2. PICK e \in {"nil", "failed"} : AnswerSet(r, [spam |-> "done", err |-> e])
    BY DEF SpamReturns
<1>3. /\ Kept(r) /\ req'[r].err = e /\ req'[r].spam = "done"
      /\ req'[r].pc = req[r].pc /\ req'[r].built = req[r].built
    BY <1>2, SetsOthers DEF SpamReturns
<1>4. req[r].kind = "GetAccountEvent" /\ req[r].pc # "idle"
    BY <1>1 DEF FoundOut, SpamReturns
<1>5. FoundOut(r)'
    BY <1>3, <1>4 DEF FoundOut, Kept
<1>6. LookedOnChain(r)'
    BY <1>1, <1>3, <1>4 DEF LookedOnChain, Kept
<1>7. req'[r].err \in Err
    BY <1>3 DEF Err
<1> QED
    BY <1>1, <1>3, <1>5, <1>6, <1>7, OneRequest DEF Kept

LEMMA AnswerStep == AnswerInv /\ [AnswerNext]_answerVars => AnswerInv'
<1> SUFFICES ASSUME AnswerInv, [AnswerNext]_answerVars PROVE AnswerInv'
    OBVIOUS
<1>1. ASSUME NEW e \in Event, Emulate(e) \/ IncludeEvent(e) \/ Expire(e)
      PROVE  AnswerInv'
    BY <1>1, StorageStep DEF Emulate, IncludeEvent, Expire
<1>2. CASE UNCHANGED answerVars
    BY <1>2, StorageStep DEF answerVars
<1> QED
    BY <1>1, <1>2, BeginStep, ReadStep, CheckStep, ReplyTraceStep, SpamStep
    DEF AnswerNext, Handler

\* For any number of requests and events: a handler that asks the spam filter itself
\* answers with the status of what it found, however the storage changes meanwhile
\* and whatever the filter says; and no handler shows as pending what was on chain
\* when its request came.
THEOREM AnswersFitWhatWasFound == AnswerSpec => []HandlersAnswerRight
<1>1. AnswerInv => HandlersAnswerRight
    BY DEF AnswerInv, FoundOut, LookedOnChain, HandlersAnswerRight,
           SequentialAnswersRight, OnChainIsNotPending, AnswerAt
<1> QED
    BY AnswerInitially, AnswerStep, <1>1, PTL DEF AnswerSpec

-----------------------------------------------------------------------------
(* The blacklist of messages. *)

\* An entry of the cache lives as long as the answer it was made for is not a
\* minute old.
BlacklistInv ==
    /\ blacklisted \in [Keys -> Nat] /\ settled \in [Payload -> 0..Minute]
    /\ \A p \in Payload : blacklisted[KeyOf(p, "raw")] + settled[p] = Minute
    /\ DOMAIN sends = Sender
    /\ \A s \in Sender :
          /\ sends[s].pc \in {"send", "answer"} =>
                /\ sends[s].payload \in Payload
                /\ sends[s].key = KeyOf(sends[s].payload, "raw")
                /\ ~sends[s].late
          /\ sends[s].pc = "send" => sends[s].result = "none"
          /\ sends[s].pc = "answer" =>
                sends[s].result \in {"taken", "refused", "error"}
          /\ sends[s].pc = "done" =>
                (sends[s].late <=> sends[s].result = "duplicate")
          /\ sends[s].pc \in {"idle", "send", "answer", "done"}

LEMMA BlacklistStep == BlacklistInv /\ [BlacklistNext]_blacklistVars => BlacklistInv'
<1> SUFFICES ASSUME BlacklistInv, [BlacklistNext]_blacklistVars PROVE BlacklistInv'
    OBVIOUS
<1> USE BlacklistAssumption
<1>1. ASSUME NEW s \in Sender, NEW p \in Payload, NEW e \in Encoding,
             AskBlacklist(s, p, e)
      PROVE  BlacklistInv'
    <2>1. KeyOf(p, e) = KeyOf(p, "raw")
        BY DEF KeyOf
    <2>2. blacklisted[KeyOf(p, "raw")] > 0 <=> settled[p] < Minute
        BY DEF BlacklistInv, KeyOf, Keys
    <2> QED
        BY <1>1, <2>1, <2>2 DEF BlacklistInv, AskBlacklist
<1>2. ASSUME NEW s \in Sender, SendMessage(s) PROVE BlacklistInv'
    BY <1>2 DEF BlacklistInv, SendMessage, SendAt
<1>3. ASSUME NEW s \in Sender, AnswerSend(s) PROVE BlacklistInv'
    <2> DEFINE q == sends[s].payload
               key == KeyOf(q, "raw")
    <2>1. /\ sends[s].pc = "answer" /\ q \in Payload /\ sends[s].key = key
          /\ sends[s].result \in {"taken", "refused", "error"} /\ ~sends[s].late
        BY <1>3 DEF BlacklistInv, AnswerSend, SendAt
    <2>2. /\ \A p \in Payload : KeyOf(p, "raw") \in Keys
          /\ \A p \in Payload : KeyOf(p, "raw") = key => p = q
        BY DEF KeyOf, Keys
    <2>3. /\ blacklisted' \in [Keys -> Nat] /\ settled' \in [Payload -> 0..Minute]
          /\ \A p \in Payload : blacklisted'[KeyOf(p, "raw")] + settled'[p] = Minute
        <3>1. CASE sends[s].result = "error"
            BY <1>3, <3>1 DEF BlacklistInv, AnswerSend, Keeps
        <3>2. CASE sends[s].result # "error"
            <4>1. /\ blacklisted' = [blacklisted EXCEPT ![key] = Minute]
                  /\ settled' = [settled EXCEPT ![q] = 0]
                BY <1>3, <2>1, <3>2 DEF AnswerSend, Keeps
            <4> HIDE DEF q, key
            <4> QED
                BY <2>1, <2>2, <4>1 DEF BlacklistInv
        <3> QED
            BY <3>1, <3>2
    <2>4. \A t \in Sender : t # s => sends'[t] = sends[t]
        BY <1>3 DEF BlacklistInv, AnswerSend
    <2>5. /\ DOMAIN sends' = Sender /\ sends'[s].pc = "done"
          /\ sends'[s].result = sends[s].result /\ sends'[s].late = sends[s].late
        BY <1>3 DEF BlacklistInv, AnswerSend
    <2> QED
        BY <2>1, <2>3, <2>4, <2>5 DEF BlacklistInv
<1>4. CASE Tick
    BY <1>4 DEF BlacklistInv, Tick, KeyOf, Keys
<1>5. CASE UNCHANGED blacklistVars
    BY <1>5 DEF BlacklistInv, blacklistVars
<1> QED
    BY <1>1, <1>2, <1>3, <1>4, <1>5 DEF BlacklistNext, SendBlockchainMessage

\* For any number of overlapping requests: one that comes within a minute after the
\* answer that its message was taken or refused is told that it is a duplicate,
\* whichever way it writes the message, and no other request is.
THEOREM DuplicatesAreTold == BlacklistSpec => []NotSentAgain
<1>1. BlacklistInit => BlacklistInv
    BY BlacklistAssumption DEF BlacklistInit, BlacklistInv, KeyOf, Keys
<1>2. BlacklistInv => NotSentAgain
    BY DEF BlacklistInv, NotSentAgain, SendAt
<1> QED
    BY <1>1, <1>2, BlacklistStep, PTL DEF BlacklistSpec

=============================================================================
