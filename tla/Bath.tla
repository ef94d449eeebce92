-------------------------------- MODULE Bath --------------------------------
(***************************************************************************)
(* Recognition of actions in a trace (src/pkg/bath): FromTrace makes a     *)
(* bubble of every transaction, then every straw of DefaultStraws, in      *)
(* order, is tried on the whole tree until it merges nothing more.         *)
(*                                                                         *)
(* A step is one recursiveMerge.  The code works on pointers; here the     *)
(* bubbles are a function from identifiers (1 is the root), a merge puts   *)
(* the new bubble where its topmost one was, and those that are out of     *)
(* reach are forgotten.                                                    *)
(***************************************************************************)
EXTENDS DexStraws, Naturals, SequencesExt

CONSTANT Traces   \* the traces to recognise, records with a field tree

VARIABLES
    trace,     \* the trace under recognition
    bubbles,   \* id -> [is, kids, parts, flow, marked]
    at,        \* index of the straw to be tried
    left       \* bubbles that a failing builder left marked as merged

vars == <<trace, bubbles, at, left>>

Of(is, kind) == IF kind \in DOMAIN is THEN is[kind] ELSE {}
Holds(is, when) == \A any \in when : \E f \in any : f[2] \in Of(is, f[1])

---------------------------------------------------------------------------
(***************************************************************************)
(* fromTrace.  A transaction is [is, lt, kids, deployed, extended], its    *)
(* children in any order; lt orders them by the messages that caused them. *)
(***************************************************************************)
\* What a wallet's message does to its extensions, one bubble for each.
Extensions(tx) ==
    LET has(i) == i \in Of(tx.is, "if")
        op(o) == o \in Of(tx.is, "op")
        bubble(e) == [type |-> {e.type}, ext |-> {e.ext}, ok |-> Of(tx.is, "ok")]
        ofBody == [i \in DOMAIN tx.extended |-> bubble(tx.extended[i])]
    IN CASE has("WalletV5R1") ->
                IF \E o \in {"WalletSignedExternalV5R1", "WalletSignedInternalV5R1",
                             "WalletExtensionActionV5R1"} : op(o)
                THEN ofBody ELSE <<>>
         [] has("WalletV4") /\ op("WalletPluginDestruct") ->
                <<[type |-> {"RemoveExtension"}, ext |-> Of(tx.is, "from"), ok |-> Of(tx.is, "ok")]>>
         [] has("WalletV4") /\ op("WalletSignedV4") ->
                [i \in DOMAIN ofBody \cap {1} |-> ofBody[i]]
         [] OTHER -> <<>>

Leaves(tx) == (IF tx.deployed THEN <<[type |-> {"ContractDeploy"}, ok |-> {"y"}]>> ELSE <<>>)
              \o Extensions(tx)

Fresh(is, kids, id, flow) ==
    [is |-> is, kids |-> kids, parts |-> {id}, flow |-> flow, marked |-> FALSE]

\* Changes that a value flow sums up: the grams and fees of a transaction, and
\* jettons that a transfer, a burn or a mint took from or gave to an account.
Own(n) == [of |-> n, change |-> "own", who |-> {}]
Debit(n, who) == [of |-> n, change |-> "debit", who |-> who]
Credit(n, who) == [of |-> n, change |-> "credit", who |-> who]

\* The sender is the account above, which is what the message says.
SentBy(parent, is) ==
    [from |-> Of(parent.is, "acc"), fromIf |-> Of(parent.is, "if")] @@ is

RECURSIVE FromTrace(_, _), FromKids(_, _, _)
FromTrace(tx, id) ==
    LET below == FromKids(SortSeq(tx.kids, LAMBDA a, b : a.lt < b.lt), tx, id + 1)
        leaves == Leaves(tx)
        kid(i) == below.next + i - 1
        leafIds == [i \in DOMAIN leaves |-> kid(i)]
    IN [next |-> below.next + Len(leaves),
        bubbles |-> id :> Fresh([type |-> {"Tx"}] @@ tx.is, below.ids \o leafIds, id, SetToBag({Own(id)}))
                 @@ below.bubbles
                 @@ [k \in Range(leafIds) |->
                       Fresh(leaves[k - below.next + 1], <<>>, k, EmptyBag)]]

FromKids(kids, parent, id) ==
    IF kids = <<>> THEN [next |-> id, ids |-> <<>>, bubbles |-> <<>>]
    ELSE LET head == FromTrace([kids[1] EXCEPT !.is = SentBy(parent, kids[1].is)], id)
             rest == FromKids(Tail(kids), parent, head.next)
         IN [next |-> rest.next, ids |-> <<id>> \o rest.ids,
             bubbles |-> head.bubbles @@ rest.bubbles]

---------------------------------------------------------------------------
(***************************************************************************)
(* Straw.match: the nodes of the straw with the bubbles they match, those  *)
(* below first; every node of the straw takes the first child that it      *)
(* matches and that no node before it took.                                *)
(***************************************************************************)
NoMatch == [ok |-> FALSE, map |-> <<>>]

ChildHolds(t, node, b) ==
    \A c \in Range(node.child) :
        \E i \in DOMAIN t[b].kids : /\ c.which = "first" => i = 1
                                    /\ Holds(t[t[b].kids[i]].is, c.when)

RECURSIVE Match(_, _, _), MatchKids(_, _, _, _)
Match(t, node, b) ==
    IF t[b].marked \/ ~Holds(t[b].is, node.when) \/ ~ChildHolds(t, node, b) THEN NoMatch
    ELSE LET below == MatchKids(t, node.kids, t[b].kids, {})
             own == IF node.keep THEN <<>> ELSE <<[s |-> node, b |-> b]>>
         IN IF below.ok THEN [ok |-> TRUE, map |-> below.map \o own] ELSE NoMatch

MatchKids(t, nodes, ids, taken) ==
    IF nodes = <<>> THEN [ok |-> TRUE, map |-> <<>>]
    ELSE LET found == [i \in {j \in DOMAIN ids : ids[j] \notin taken} |->
                          Match(t, nodes[1], ids[i])]
             hits == {i \in DOMAIN found : found[i].ok}
             first == Min(hits)
             rest == MatchKids(t, Tail(nodes), ids,
                               taken \cup (IF hits = {} THEN {} ELSE {ids[first]}))
         IN CASE (hits = {} /\ ~nodes[1].opt) \/ ~rest.ok -> NoMatch
              [] hits = {} -> rest
              [] OTHER -> [ok |-> TRUE, map |-> found[first].map \o rest.map]

---------------------------------------------------------------------------
(***************************************************************************)
(* Straw.Merge.  The builders run from the top down; one that errs leaves  *)
(* the bubbles before it marked as merged, and nothing else has changed.   *)
(***************************************************************************)
Value(new, bubble, source) ==
    LET is == bubble.is
        if(cond) == IF cond THEN {"y"} ELSE {}
        ok == Of(is, "ok")
    IN CASE source = "yes"      -> {"y"}
         [] source = "also"     -> Of(new, "ok") \cap ok
         [] source = "okIfKids" -> IF bubble.kids # <<>> THEN ok ELSE {}
         [] source = "removed"  -> IF Of(is, "ext") = Of(new, "sub")
                                   THEN Of(new, "ok") \cap ok ELSE {}
         [] source = "answered" -> if(Holds(is, {Op("PythResponseSuccess")}))
         [] source = "code200"  -> if(Holds(is, {Fact("code200")}))
         [] source = "paidOut"  -> if(Holds(is, {Fact("outWallet")}))
         [] OTHER               -> Of(is, source)

\* new is a function of kinds too: what the builders have set so far.
Build(new, node, bubble) ==
    node.gives @@ [k \in DOMAIN node.sets |-> Value(new, bubble, node.sets[k])] @@ new

BuilderErrs(new, node, bubble) ==
    \/ ~Holds(bubble.is, node.needs)
    \/ \E a \in node.agree : Holds(bubble.is, a.if) /\ Of(bubble.is, a.of) # Of(new, a.with)

BuildAll(t, type, map) ==
    FoldLeft(LAMBDA acc, m :
               LET new == Build(acc.new, m.s, t[m.b]) IN
               CASE acc.err -> acc
                 [] BuilderErrs(new, m.s, t[m.b]) -> [acc EXCEPT !.err = TRUE]
                 [] OTHER -> [acc EXCEPT !.new = new, !.done = @ \cup {m.b}],
             [new |-> [type |-> {type}], done |-> {}, err |-> FALSE], map)

RECURSIVE Reachable(_, _)
Reachable(t, b) == {b} \cup UNION {Reachable(t, k) : k \in Range(t[b].kids)}

Prune(t) == LET live == Reachable(t, 1) IN [b \in live |-> t[b]]

Flow(t, S) == FoldSet(LAMBDA b, sum : sum (+) t[b].flow, EmptyBag, S)
Parts(t, S) == UNION {t[b].parts : b \in S}

\* What is known of recipient and sender.
Sides(id, new) ==
    SetToBag({Credit(id, x) : x \in {Of(new, "rcpt")} \ {{}}}
             \cup {Debit(id, x) : x \in {Of(new, "from")} \ {{}}})

\* Mutant: also of what failed.
UpdateAnyway(id, new) == Sides(id, new)

\* AddJettons and SubJettons of a ValueFlowUpdater.
Update(id, new) == IF Of(new, "ok") = {} THEN EmptyBag ELSE Sides(id, new)

\* Mutant: every updater of the straw runs.
FinalizeAll(down, id, new) ==
    FoldLeft(LAMBDA sum, m : IF m.s.updates THEN sum (+) Update(id, new) ELSE sum, EmptyBag, down)

\* The finalizer is the updater that was visited last.
Finalize(down, id, new) ==
    IF \E m \in Range(down) : m.s.updates THEN Update(id, new) ELSE EmptyBag

\* Mutant: children left over of the topmost bubble only.
OthersOfTop(t, s, merged) == SelectSeq(t[s[1]].kids, LAMBDA k : k \notin merged)

\* The children of s in t that the merged ones leave over.
Others(t, s, merged) == FlattenSeq([i \in DOMAIN s |->
    SelectSeq(t[s[i]].kids, LAMBDA k : k \notin merged)])

Unchanged(t) == [ok |-> FALSE, t |-> t]

StrawMerge(t, b, straw) ==
    LET match == Match(t, straw.top, b)
        down == Reverse(match.map)
        merged == {m.b : m \in Range(down)}
        built == BuildAll(t, straw.type, down)
        kids == Others(t, [i \in DOMAIN down |-> down[i].b], merged)
        \* A child left over loses its own children that are merged.
        Unmerged(c) == [t[c] EXCEPT !.kids =
            SelectSeq(@, LAMBDA k : k \notin merged /\ ~t[k].marked)]
        new == [is |-> built.new, kids |-> kids, parts |-> Parts(t, merged),
                flow |-> Flow(t, merged) (+) Finalize(down, b, built.new), marked |-> FALSE]
    IN CASE ~match.ok -> Unchanged(t)
         [] built.err -> Unchanged([c \in DOMAIN t |->
                             [t[c] EXCEPT !.marked = @ \/ c \in built.done]])
         [] OTHER -> [ok |-> TRUE,
                      t |-> Prune((b :> new) @@ [c \in Range(kids) |-> Unmerged(c)] @@ t)]

---------------------------------------------------------------------------
(***************************************************************************)
(* UniversalStonfiStraw: a chain of routers, each a chain of pools.  What  *)
(* is found is collected in used, also where a chain then breaks.          *)
(***************************************************************************)
IsTxOf(t, b, op, interface) == Holds(t[b].is, {Tx, Op(op), If(interface)})

\* The referrer's payout, its deposit and the excess of that.
ReferrerUsed(t, r) ==
    LET below(b, when) == {t[b].kids[i] : i \in {j \in DOMAIN t[b].kids : j = 1 /\ Holds(t[t[b].kids[j]].is, when)}}
        deposit == below(r, {Tx, Op("StonfiDepositRefFeeV2"), If("StonfiVaultV2")})
    IN {r} \cup deposit \cup UNION {below(d, {Tx, Excess}) : d \in deposit}

\* The last payout of the chain comes first.
RECURSIVE SingleRouter(_, _, _)
SingleRouter(t, b, used) ==
    LET kids == t[b].kids
        payout == kids[Len(kids)]
        seen == used \cup (IF Len(kids) = 2 THEN ReferrerUsed(t, kids[1]) ELSE {})
        next == t[payout].kids[1]
        deeper == SingleRouter(t, next, seen \cup {b, payout, next})
        Broken(u) == [ok |-> FALSE, payouts |-> <<>>, used |-> u]
    IN CASE \/ ~IsTxOf(t, b, "StonfiSwapV2", "StonfiPoolV2")
            \/ Len(kids) \notin {1, 2}
            \/ Len(kids) = 2 /\ ~IsTxOf(t, kids[1], "StonfiPayVaultV2", "StonfiRouterV2")
              -> Broken(used)
         [] \/ ~IsTxOf(t, payout, "StonfiPayToV2", "StonfiRouterV2")
            \/ Len(t[payout].kids) # 1
              -> Broken(seen)
         [] OTHER -> [ok |-> TRUE, payouts |-> deeper.payouts \o <<payout>>, used |-> deeper.used,
                      next |-> IF deeper.ok THEN deeper.next ELSE next]

\* The last router comes first.
RECURSIVE Hops(_, _)
Hops(t, b) ==
    LET is == t[b].is
        chain == SingleRouter(t, t[b].kids[1], {b})
        last == chain.payouts[1]
        swapped == Holds(t[last].is, {Fact("swapOk")})
        deeper == Hops(t, chain.next)
        hop == [start |-> b, sender |-> Of(is, "from"), ok |-> swapped,
                final |-> t[last].kids[1], used |-> chain.used]
    IN CASE \/ Len(t[b].kids) # 1
            \/ ~Holds(is, {Transfer, Pay("StonfiSwapV2"), HasSender, To("StonfiRouterV2")})
              -> <<>>
         [] \/ ~chain.ok
            \/ ~Holds(t[t[last].kids[1]].is, {Transfer})
            \/ Holds(t[last].is, {Fact("noOutAddress")})
            \/ ~swapped /\ (Holds(t[last].is, {Fact("noToAddress")})
                              \/ Holds(is, {Fact("noTokenWallet")}))
              -> <<>>
         [] OTHER -> IF deeper = <<>> THEN <<hop>>
                     ELSE deeper \o <<[hop EXCEPT !.used = @ \ {chain.next}]>>

\* Mutant: the children that are used as well.
RescuedAll(t, S, used) == {Others(t, order, {}) : order \in SetToSeqs(S)}

\* The children left over of a set of bubbles, in the order of a Go map: any.
Rescued(t, S, used) ==
    LET over == {b \in S : \E k \in Range(t[b].kids) : k \notin used}
    IN {Others(t, order, used) : order \in SetToSeqs(over)}

SwapOf(sender, ok) == [type |-> {"JettonSwap"}, user |-> sender, ok |-> ok]

\* What the hops found from b on become, in any order of what is left over.
StonfiSwap(t, b, hops) ==
    LET first == hops[Len(hops)]
        paid == Of(t[hops[1].final].is, "rcpt")
        used == UNION {h.used : h \in Range(hops)}
        \* Up to the first hop that failed they are one swap, the others are
        \* failed swaps of their own.
        UpTo(i) == \A j \in i..Len(hops) : hops[j].ok
        apart == {i \in 1..(Len(hops) - 1) : ~UpTo(i)}
        joined == UNION {hops[i].used : i \in DOMAIN hops \ apart}
        failed == Reverse(SetToSortSeq(apart, <))
        yes(ok) == IF ok THEN {"y"} ELSE {}
        FailedSwap(i, kids) ==
            [is |-> SwapOf(first.sender, {}), kids |-> kids,
             parts |-> Parts(t, hops[i].used), flow |-> Flow(t, hops[i].used), marked |-> FALSE]
        Swap(kids) ==
            [is |-> SwapOf(first.sender, yes(first.ok)),
             kids |-> [i \in DOMAIN failed |-> hops[failed[i]].start] \o kids,
             parts |-> Parts(t, joined), flow |-> Flow(t, joined), marked |-> t[b].marked]
        orders == UNION {Rescued(t, hops[i].used, used) : i \in apart}
        FailedKids == {f \in [apart -> orders] :
                         \A i \in apart : f[i] \in Rescued(t, hops[i].used, used)}
    IN IF hops = <<>> \/ paid = {} \/ paid # first.sender THEN {Unchanged(t)}
       ELSE {[ok |-> TRUE,
              t |-> Prune((b :> Swap(kids))
                          @@ [c \in {hops[i].start : i \in apart} |->
                                LET i == CHOOSE j \in apart : hops[j].start = c
                                IN FailedSwap(i, f[i])]
                          @@ t)] :
               kids \in Rescued(t, joined \ {b}, used), f \in FailedKids}

StonfiMerge(t, b) == StonfiSwap(t, b, Hops(t, b))

---------------------------------------------------------------------------
(***************************************************************************)
(* UniversalDedustStraw: pools one below the other, then the payout.  What *)
(* comes after the pools has to be a payout command: the code reads its    *)
(* body, which it expects to be decoded.                                   *)
(***************************************************************************)
RECURSIVE PoolSteps(_, _)
PoolSteps(t, b) ==
    LET child == t[b].kids[1]
        below == PoolSteps(t, child)
    IN CASE t[b].kids = <<>> -> [err |-> TRUE]
         [] OTHER ->
            CASE ~Holds(t[child].is, {Tx}) -> [err |-> TRUE]
              [] ~Holds(t[child].is, {If("DedustPool")}) ->
                   [err |-> FALSE, fails |-> 0, pools |-> <<>>, end |-> child]
              [] below.err -> below
              [] OTHER ->
                   [below EXCEPT !.pools = Append(@, child),
                      !.fails = @ + IF Holds(t[child].is, {Fact("externalOut")}) THEN 0 ELSE 1]

\* What follows a payout through a referral account of Omniston: the account
\* that is paid and the bubbles to merge, or nothing if it is another shape.
\* If a jetton payout comes before the fee, the code goes on with the transfer
\* to Omniston instead of it, so that it is not shown as a swap.
Referral(t, payout, inTon) ==
    LET one == t[payout].kids[1]
        two == t[payout].kids[2]
        is(b, when) == Holds(t[b].is, when)
        both(o1, o2) == is(one, {Tx, Op(o1)}) /\ is(two, {Tx, Op(o2)})
        more == IF is(two, {Fact("more")}) THEN two ELSE one
        swapped == ~is(one, {Tx})
        fee == IF swapped THEN two ELSE one
        paid == IF swapped THEN payout ELSE two
        excess == SelectSeq(t[fee].kids, LAMBDA k : Len(t[fee].kids) = 1 /\ is(k, {Tx, Excess}))
    IN CASE inTon ->
              IF both("DedustTonExcesses", "DedustTonPay") \/ both("Excess", "Excess")
              THEN <<[dest |-> Of(t[more].is, "acc"), merge |-> <<more>>]>> ELSE <<>>
         [] swapped /\ ~is(fee, {Tx, Code("0x603f6e78")}) -> <<>>
         [] ~is(paid, {Transfer, HasRecipient}) -> <<>>
         [] OTHER ->
              <<[dest |-> Of(t[paid].is, "rcpt"),
                 merge |-> <<paid>> \o excess \o (IF excess = <<>> THEN <<>> ELSE <<fee>>)]>>

DedustMerge(t, b) ==
    LET is == t[b].is
        swaps == \/ Holds(is, {Tx, Op("DedustSwap"), HasSender})
                 \/ Holds(is, {Transfer, Pay("DedustSwap"), HasSender})
        sender == Of(is, "from")
        path == PoolSteps(t, b)
        command == path.end
        payout == t[command].kids[1]
        pay == t[payout].is
        inTon == Holds(pay, {Tx, Op("DedustPayout")})
        dest == Of(pay, IF inTon THEN "acc" ELSE "rcpt")
        through == /\ Holds(pay, {If("OmnistonReferral")})
                   /\ Len(t[payout].kids) = 2
        omniston == IF through THEN Referral(t, payout, inTon)
                    ELSE <<[dest |-> dest, merge |-> <<>>]>>
        order == path.pools \o omniston[1].merge \o <<command, payout>>
        merged == Range(order)
        swap == [is |-> SwapOf(sender, {"y"}), kids |-> Others(t, <<b>> \o order, merged),
                 parts |-> Parts(t, merged \cup {b}),
                 flow |-> FoldLeft(LAMBDA sum, m : sum (+) t[m].flow, t[b].flow, order),
                 marked |-> t[b].marked]
    IN CASE ~swaps -> Unchanged(t)
         [] path.err -> Unchanged(t)
         [] \/ path.fails # 0
            \/ Of(is, "steps") # {Len(path.pools)}
            \/ ~Holds(t[command].is, {Tx, Op("DedustPayoutFromPool")})
            \/ t[command].kids = <<>> -> Unchanged(t)
         [] ~inTon /\ ~Holds(pay, {Transfer, HasRecipient}) -> Unchanged(t)
         [] omniston = <<>> -> Unchanged(t)
         [] omniston[1].dest # sender -> Unchanged(t)
         [] OTHER -> [ok |-> TRUE,
                      t |-> Prune((b :> swap) @@ t)]

---------------------------------------------------------------------------
(***************************************************************************)
(* recursiveMerge: a bubble first, then its children in their order, until *)
(* one has merged.  One that fails may still have left marks.              *)
(***************************************************************************)
Merge(t, b, straw) ==
    CASE straw.how = "straw"  -> {StrawMerge(t, b, straw)}
      [] straw.how = "stonfi" -> StonfiMerge(t, b)
      [] straw.how = "dedust" -> {DedustMerge(t, b)}

RECURSIVE RecursiveMerge(_, _, _), MergeBelow(_, _, _)
RecursiveMerge(t, b, straw) ==
    UNION {IF r.ok THEN {r} ELSE MergeBelow(r.t, r.t[b].kids, straw) : r \in Merge(t, b, straw)}

MergeBelow(t, ids, straw) ==
    IF ids = <<>> THEN {Unchanged(t)}
    ELSE UNION {IF r.ok THEN {r} ELSE MergeBelow(r.t, Tail(ids), straw) :
                  r \in RecursiveMerge(t, ids[1], straw)}

\* The change of assets that CollectActionsAndValueFlow sums over the tree.
CollectedFlow == Flow(bubbles, DOMAIN bubbles)

---------------------------------------------------------------------------
Init ==
    /\ trace \in Traces
    /\ bubbles = FromTrace(trace.tree, 1).bubbles
    /\ at = 1
    /\ left = {}

\* One turn of the loop of MergeAllBubbles.
TryStraw ==
    /\ at <= Len(DefaultStraws)
    /\ \E r \in RecursiveMerge(bubbles, 1, DefaultStraws[at]) :
         /\ bubbles' = r.t
         /\ at' = IF r.ok THEN at ELSE at + 1
         /\ left' = left \cup {b \in DOMAIN r.t : r.t[b].marked}
    /\ UNCHANGED trace

\* All straws were tried: the actions are found.
Finished == at > Len(DefaultStraws)
Over == Finished /\ UNCHANGED vars

Next == TryStraw \/ Over

Spec == Init /\ [][Next]_vars

---------------------------------------------------------------------------
\* The tree before anything was merged.
Source == FromTrace(trace.tree, 1).bubbles

(***************************************************************************)
(* The bubbles are a tree: every one but the root is a child once.         *)
(***************************************************************************)
TypeOK == LET ids == DOMAIN Source IN
    /\ at \in 1..(Len(DefaultStraws) + 1)
    /\ left \subseteq ids
    /\ DOMAIN bubbles = Reachable(bubbles, 1)
    /\ \A b \in DOMAIN bubbles :
         /\ bubbles[b].parts \subseteq ids
         /\ bubbles[b].marked \in BOOLEAN
    /\ \A c \in DOMAIN bubbles :
         Cardinality(UNION {{<<b, i>> : i \in {j \in DOMAIN bubbles[b].kids : bubbles[b].kids[j] = c}} :
                              b \in DOMAIN bubbles}) = IF c = 1 THEN 0 ELSE 1

Holders(n) == {b \in DOMAIN bubbles : n \in bubbles[b].parts}

\* Only below a bubble that a failing builder left marked may something be missing.
Missing(n) == Holders(n) = {} /\ \E b \in left : n \in Reachable(Source, b)

(***************************************************************************)
(* Merging loses nothing and counts nothing twice: every transaction of    *)
(* the trace is part of one bubble, and its change of assets is in the     *)
(* flow of that bubble once.  And what a bubble has below it was caused by *)
(* a transaction of its own.                                               *)
(***************************************************************************)
Accounted ==
    LET source == Source
        below == [n \in DOMAIN source |-> Reachable(source, n)]
    IN /\ \A n \in DOMAIN source :
            \/ Missing(n)
            \/ \E b \in Holders(n) :
                 /\ Holders(n) = {b}
                 /\ CopiesIn(Own(n), bubbles[b].flow) = CopiesIn(Own(n), source[n].flow)
       /\ \A b \in DOMAIN bubbles : \A k \in Range(bubbles[b].kids) :
            \E p \in bubbles[b].parts : bubbles[k].parts \subseteq below[p]

(***************************************************************************)
(* Jettons whose arrival was notified are taken from their sender and      *)
(* given to whom was notified, once each, whatever swap, stake or deposit  *)
(* the transfer became a part of; and those of a transfer that its         *)
(* recipient's wallet refused are given to nobody.                         *)
(***************************************************************************)
JettonsAccounted ==
    Finished =>
      LET source == Source
          flow == CollectedFlow
          Has(n, kind, x) == x \in Of(source[n].is, kind)
          IsWallet(n, op) == Has(n, "if", "JettonWallet") /\ Has(n, "op", op)
          NoticesOf(k) == {m \in Range(source[k].kids) : Has(m, "op", "JettonNotify")}
          Moves(n) == {e \in BagToSet(flow) : e.of = n /\ e.change # "own"}
      IN \A n \in DOMAIN source : \A k \in Range(source[n].kids) :
           IsWallet(n, "JettonTransfer") /\ IsWallet(k, "JettonInternalTransfer") =>
             /\ \A m \in NoticesOf(k) :
                  LET moved == {Credit(n, Of(source[m].is, "acc")), Debit(n, Of(source[n].is, "from"))}
                  IN \/ Missing(n)
                     \/ Moves(n) = moved /\ \A e \in moved : CopiesIn(e, flow) = 1
             /\ NoticesOf(k) = {} /\ ~Has(k, "ok", "y") => Moves(n) = {}

(***************************************************************************)
(* The loop of MergeAllBubbles tries a straw again as long as it merges:   *)
(* every merge leaves fewer bubbles, or one that is further from a bare    *)
(* transaction, so that it ends.                                           *)
(***************************************************************************)
Assets == {"JettonTransfer", "FlawedJettonTransfer", "JettonBurn", "JettonMint", "NftTransfer",
           "AuctionBid", "WithdrawStakeRequest", "LiquidityDeposit"}

Weight(t) == 3 * Cardinality(DOMAIN t)
             + 2 * Cardinality({b \in DOMAIN t : Of(t[b].is, "type") = {"Tx"}})
             + Cardinality({b \in DOMAIN t : Of(t[b].is, "type") \subseteq Assets})

MergesEnd == [][IF at' = at THEN Weight(bubbles') < Weight(bubbles) ELSE at' = at + 1]_vars

(***************************************************************************)
(* value_flow.go: the flow "contains a change of assets for each account   *)
(* involved in a trace".                                                   *)
(***************************************************************************)
FlowOfWholeTrace ==
    Finished => LET source == Source IN \A n \in DOMAIN source :
        CopiesIn(Own(n), CollectedFlow) = CopiesIn(Own(n), source[n].flow)
=============================================================================
