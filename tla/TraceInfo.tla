------------------------------ MODULE TraceInfo ------------------------------
(***************************************************************************)
(* pkg/core/trace.go: how the nodes of a trace get their additional info   *)
(* (masters of jetton wallets, assets of pools, ...).  "we cache traces    *)
(* and set additionalInfo independently of the trace itself. so it happens *)
(* that two different goroutines get a trace from the cache and attempt to *)
(* set additionalInfo": CollectAdditionalInfo looks through the nodes      *)
(* twice, before and after its lookups, with the lock of a node only.      *)
(*                                                                         *)
(* A handler works on the cached trace of the chain, or on the emulated    *)
(* trace it has loaded (from JSON, which does not keep all of an info) and *)
(* CopyTraceData has given what the nodes of the chain have.  Storages     *)
(* with a cache or emulated traces are external.                           *)
(***************************************************************************)
EXTENDS Naturals

CONSTANTS
    Collector,   \* handlers
    OnChain,     \* the trace of the chain has the nodes 1..OnChain, as visited
    InEmulated,  \* the emulated one 1..InEmulated
    Needs,       \* Needs[n]: kinds of info the interfaces of n ask for
    Emulated,    \* Emulated[n]: kinds EmulatedTreeToTrace found
    NotSaved     \* kinds MarshalJSON of TraceAdditionalInfo leaves out

\* Handlers are not the emulation, and traces have a root.
ASSUME InfoAssumption ==
    /\ OnChain \in Nat \ {0} /\ InEmulated \in Nat \ {0}
    /\ "nobody" \notin Collector /\ "emulation" \notin Collector
    /\ DOMAIN Emulated \subseteq 1..InEmulated

VARIABLES
    cached,   \* infos of the cached trace of the chain
    own,      \* own[c]: infos of the emulated trace c has loaded
    coll      \* where a handler is

infoVars == <<cached, own, coll>>

\* An info: the kinds it has, and who made it (history).
NoInfo == [by |-> "nobody", kinds |-> {}]
Info(by, kinds) == [by |-> by, kinds |-> kinds]

InfoInit ==
    /\ cached = [n \in 1..OnChain |-> NoInfo]
    /\ own = [c \in Collector |-> [n \in 1..InEmulated |-> NoInfo]]
    /\ coll = [c \in Collector |->
          [pc |-> "idle", merged |-> FALSE, at |-> 1, asked |-> {}, found |-> {}]]

At(c, pc) == coll[c].pc = pc
Set(c, fields) == coll' = [coll EXCEPT ![c] = [f \in DOMAIN @ |->
    IF f \in DOMAIN fields THEN fields[f] ELSE @[f]]]

\* The trace c works on.
Nodes(c) == 1..(IF coll[c].merged THEN InEmulated ELSE OnChain)
InfoAt(c, n) == IF coll[c].merged THEN own[c][n] ELSE cached[n]
SetInfo(c, n, info) ==
    IF coll[c].merged
    THEN own' = [own EXCEPT ![c][n] = info] /\ UNCHANGED cached
    ELSE cached' = [cached EXCEPT ![n] = info] /\ UNCHANGED own

\* Visit: the next node, or what comes after the last.
Visit(c, after) ==
    IF coll[c].at + 1 \in Nodes(c)
    THEN [pc |-> coll[c].pc, at |-> coll[c].at + 1]
    ELSE [pc |-> after, at |-> 1]

-----------------------------------------------------------------------------
(* GetTrace and GetEvent of the handlers *)

\* There is no emulated trace: the one of the chain is shown.
NotEmulated(c) ==
    /\ At(c, "idle")
    /\ Set(c, [pc |-> "ask"])
    /\ UNCHANGED <<cached, own>>

\* GetTraceWithState, and UnmarshalJSON of what MarshalJSON has saved.
LoadEmulated(c) ==
    /\ At(c, "idle")
    /\ Set(c, [pc |-> "copy", merged |-> TRUE])
    /\ own' = [own EXCEPT ![c] = [n \in 1..InEmulated |->
          IF n \in DOMAIN Emulated THEN Info("emulation", Emulated[n] \ NotSaved)
          ELSE NoInfo]]
    /\ UNCHANGED cached

\* CopyTraceData of the node c is at.
CopyTraceData(c) ==
    /\ At(c, "copy")
    /\ LET n == coll[c].at IN
       /\ own' = IF cached[n] # NoInfo THEN [own EXCEPT ![c][n] = cached[n]] ELSE own
       /\ Set(c, IF n < OnChain THEN [at |-> n + 1] ELSE [pc |-> "ask", at |-> 1])
    /\ UNCHANGED cached

-----------------------------------------------------------------------------
(* CollectAdditionalInfo *)

\* The first walk: what is to be looked up for a node without info.
Ask(c) ==
    /\ At(c, "ask")
    /\ LET n == coll[c].at
           more == IF InfoAt(c, n) = NoInfo THEN {n} ELSE {}
           go == Visit(c, "lookup")
       IN Set(c, [asked |-> coll[c].asked \cup more, pc |-> go.pc, at |-> go.at])
    /\ UNCHANGED <<cached, own>>

Wanted(c) == UNION {{n} \X Needs[n] : n \in coll[c].asked}

\* Mutant: what the lookups before the failing one found is kept.
LookupKeepsPart(c) ==
    /\ At(c, "lookup")
    /\ \E found \in SUBSET Wanted(c) : Set(c, [pc |-> "fill", found |-> found])
    /\ UNCHANGED <<cached, own>>

\* The lookups, one for each kind.  The first that fails ends it before anything
\* is set.  What an account does not have although its interfaces promise it is
\* not among its needs here.
Lookup(c) ==
    /\ At(c, "lookup")
    /\ \/ Set(c, [pc |-> "error"])
       \/ Set(c, [pc |-> "fill", found |-> Wanted(c)])
    /\ UNCHANGED <<cached, own>>

\* Mutant: whatever there is is overwritten.
FillAlways(c) ==
    /\ At(c, "fill")
    /\ Set(c, [pc |-> "set"])
    /\ UNCHANGED <<cached, own>>

\* The second walk: a node that has an info by now keeps it.
Fill(c) ==
    /\ At(c, "fill")
    /\ Set(c, IF InfoAt(c, coll[c].at) = NoInfo THEN [pc |-> "set"] ELSE Visit(c, "done"))
    /\ UNCHANGED <<cached, own>>

\* SetAdditionalInfo, with a lock of its own: another handler may have come first.
FillNode(c) ==
    /\ At(c, "set")
    /\ LET n == coll[c].at IN
       SetInfo(c, n, Info(c, {k \in Needs[n] : <<n, k>> \in coll[c].found}))
    /\ Set(c, IF coll[c].at + 1 \in Nodes(c) THEN [pc |-> "fill", at |-> coll[c].at + 1]
              ELSE [pc |-> "done"])

-----------------------------------------------------------------------------
CollectAdditionalInfo(c) == Ask(c) \/ Lookup(c) \/ Fill(c) \/ FillNode(c)
ShowTrace(c) ==
    NotEmulated(c) \/ LoadEmulated(c) \/ CopyTraceData(c) \/ CollectAdditionalInfo(c)
InfoNext == \E c \in Collector : ShowTrace(c)

InfoSpec == InfoInit /\ [][InfoNext]_infoVars

-----------------------------------------------------------------------------
(* Properties *)

\* However the handlers that share a trace take turns, and whichever lookups
\* fail: the info of a node is missing or whole; who has looked at all nodes finds
\* none without; and "we must not inspect them again" (trace.go:404): what the
\* emulation has found is only replaced by what the chain has.
InfoIsWhole ==
    \A c \in Collector :
        /\ \A n \in Nodes(c) : LET info == InfoAt(c, n) IN
              /\ info.by \in Collector => info.kinds = Needs[n]
              /\ At(c, "done") => info # NoInfo
        /\ coll[c].merged => \A n \in DOMAIN Emulated : own[c][n].by # c

\* A handler is on its way.
Collecting == \E c \in Collector : coll[c].pc \notin {"idle", "done", "error"}
=============================================================================
