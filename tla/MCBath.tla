------------------------------- MODULE MCBath -------------------------------
(***************************************************************************)
(* Traces for Bath.  Of every straw an example is built from its pattern:  *)
(* a transaction for every node, with one fact for each thing required,    *)
(* and for a node that asks for a bubble of a straw the transactions of    *)
(* that one.  A wallet sends the example, everything happens on accounts   *)
(* of its owner where the straw does not say otherwise.                    *)
(***************************************************************************)
EXTENDS Bath

Plain(is, kids) == [is |-> is, lt |-> 1, kids |-> kids, deployed |-> FALSE, extended |-> <<>>]
Txn(is, kids) == Plain(is @@ [acc |-> {"user"}, ok |-> {"y"}], kids)

\* Facts that a node asks for, as a function of kinds; of a choice the one
\* preferred.
Preferred(req, kinds) ==
    LET fit == {f \in req : f[1] \in kinds}
        best == fit \cap {<<"amt", "high">>, <<"from", "user">>, <<"rcpt", "user">>,
                          <<"target", "user">>, <<"fact", "noExtended">>, <<"fact", "code200">>,
                          <<"fact", "external">>, <<"op", "none">>, <<"text", "d">>}
    IN CHOOSE f \in (IF best # {} THEN best ELSE IF fit # {} THEN fit ELSE req) : TRUE

TxKinds == {"op", "code", "acc", "if", "amt", "text", "fact", "target"}
TransferKinds == {"pay", "to", "rcpt", "fact", "from", "fromIf"}

Facts(when, kinds) ==
    LET fs == {Preferred(req, kinds) : req \in when}
    IN [k \in {f[1] : f \in fs} \ {"type"} |-> {f[2] : f \in {g \in fs : g[1] = k}}]

TypeOf(node) ==
    LET ts == {f[2] : f \in {g \in UNION node.when : g[1] = "type"}}
    IN IF ts = {} THEN "Tx" ELSE CHOOSE t \in ts : TRUE

Leafs == {"ContractDeploy", "AddExtension", "RemoveExtension"}

\* The kids of an example: those of the node, the first of them as the check
\* of a child wants it.
KidNodes(node) ==
    IF node.child = <<>> THEN node.kids
    ELSE LET when == node.child[1].when IN
         IF node.kids = <<>> THEN <<Leaf(when)>>
         ELSE <<[node.kids[1] EXCEPT !.when = @ \cup when]>> \o Tail(node.kids)

\* A transfer of jettons: sender's wallet, recipient's wallet, recipient.
JettonTx(f, interfaces, kids) ==
    LET to == IF "rcpt" \in DOMAIN f THEN f.rcpt ELSE {"user"}
        body == [pay |-> Of(f, "pay"), fact |-> Of(f, "fact"), steps |-> Of(f, "steps")]
    IN Txn([op |-> {"JettonTransfer"}, if |-> {"JettonWallet"}, dest |-> to] @@ body,
         <<Txn([op |-> {"JettonInternalTransfer"}, if |-> {"JettonWallet"}],
             <<Txn([op |-> {"JettonNotify"}, acc |-> to,
                    if |-> Of(f, "to") \cup interfaces] @@ body, kids)>>)>>)

\* kids sent by the transaction `depth` first children down, an account with
\* these interfaces.
RECURSIVE Hang(_, _, _, _)
Hang(tx, depth, interfaces, kids) ==
    IF depth = 0
    THEN [tx EXCEPT !.kids = @ \o [i \in DOMAIN kids |-> [kids[i] EXCEPT !.lt = 10 + i]],
                    !.is = ("if" :> (Of(tx.is, "if") \cup interfaces)) @@ @]
    ELSE [tx EXCEPT !.kids[1] = Hang(@, depth - 1, interfaces, kids)]

\* The straw that makes the bubble a node asks for, and how far down the
\* children of that bubble are sent.
Maker(node) ==
    LET asks(kind) == \E k \in Range(node.kids) : \E req \in k.when : \E f \in req : f[1] = kind
        dex(d) == \E req \in node.when : <<"dex", d>> \in req
        by(straw, depth) == [straw |-> straw, depth |-> depth]
    IN CASE TypeOf(node) = "JettonBurn" -> by(JettonBurnStraw, 1)
         [] TypeOf(node) = "JettonMint" -> by(JettonMintStrawGovernance, 1)
         [] TypeOf(node) = "NftTransfer" -> by(NftTransferStraw, 0)
         [] TypeOf(node) = "AuctionBid" -> by(StrawFindAuctionBidFragmentSimple, 0)
         [] TypeOf(node) = "Subscription" -> by(SubscriptionPaymentStraw, 0)
         [] TypeOf(node) = "OraclePriceUpdate" -> by(PythOraclePriceUpdateStraw, 1)
         [] TypeOf(node) = "WithdrawStakeRequest" ->
              IF asks("amt") THEN by(WithdrawTFStakeRequestStraw, 0)
              ELSE by(PendingWithdrawRequestLiquidStraw, 2)
         [] TypeOf(node) = "LiquidityDeposit" ->
              CASE dex("Bidask") -> by(BidaskLiquidityDepositJettonStraw, 2)
                [] dex("Stonfi") -> by(StonfiLiquidityDepositSingle, 2)
                [] dex("Mooncx") -> by(MoocxLiquidityDepositNativeStraw, 0)
                [] OTHER -> by(ToncoDepositLiquiditySingleStraw, 2)

RECURSIVE Example(_)
Example(node) ==
    LET kids == KidNodes(node)
        sends == SelectSeq(kids, LAMBDA k : TypeOf(k) \notin Leafs)
        exts == SelectSeq(kids, LAMBDA k : TypeOf(k) \in Leafs \ {"ContractDeploy"})
        below == [i \in DOMAIN sends |-> [Example(sends[i]) EXCEPT !.lt = i]]
        \* Interfaces of this account that a child asks of its sender.
        asked == {f[2] : f \in {g \in UNION {UNION k.when : k \in Range(kids)} : g[1] = "fromIf"}}
        wallet == IF exts = <<>> THEN <<>>
                  ELSE [op |-> {"WalletSignedInternalV5R1"}, if |-> {"WalletV5R1"}]
        f == Facts(node.when \cup node.needs, TxKinds)
        initial == IF node.agree = {} THEN <<>> ELSE [initial |-> {"user"}]
        maker == Maker(node)
        other == Hang(Example(maker.straw.top), maker.depth, asked, below)
    IN CASE TypeOf(node) = "Tx" ->
              [Txn(wallet @@ initial @@ ("if" :> (Of(f, "if") \cup asked)) @@ f, below) EXCEPT
                 !.deployed = \E k \in Range(kids) : TypeOf(k) = "ContractDeploy",
                 !.extended = [i \in DOMAIN exts |-> [type |-> TypeOf(exts[i]), ext |-> "user"]]]
         [] TypeOf(node) = "JettonTransfer" -> JettonTx(Facts(node.when, TransferKinds), asked, below)
         [] OTHER -> [other EXCEPT !.is = Facts(node.when, {"fact"}) @@ @]

---------------------------------------------------------------------------
FirstAsks(node) == {f[2] : f \in {g \in UNION node.when : g[1] = "fromIf"}}

\* The owner's wallet, told from outside what to send.
Wallet(kids, interfaces) ==
    Plain([acc |-> {"user"}, ok |-> {"y"}, fact |-> {"external"}, if |-> {"Wallet"} \cup interfaces],
          [i \in DOMAIN kids |-> [kids[i] EXCEPT !.lt = i]])

\* What a wallet sends of this kind, and the type of the bubble that it is
\* to become.
Sending(tx, type, interfaces) == [tx |-> tx, type |-> type, if |-> interfaces]

PatternStraws == SelectSeq(DefaultStraws, LAMBDA s : s.how = "straw")
Examples == [i \in DOMAIN PatternStraws |->
    LET s == PatternStraws[i] IN Sending(Example(s.top), s.type, FirstAsks(s.top))]

---------------------------------------------------------------------------
(***************************************************************************)
(* Swaps of the two straws that are not patterns.                          *)
(***************************************************************************)
AtOther(is, kids) == Txn(is @@ [acc |-> {"other"}], [i \in DOMAIN kids |-> [kids[i] EXCEPT !.lt = i]])
PaidTo(a) == JettonTx([rcpt |-> {a}], {}, <<>>)
ExcessTx == Txn([op |-> {"Excess"}], <<>>)

\* A pool of Stonfi V2, which may also pay a referrer; below is what its
\* payout leads to.
Referrer == AtOther([op |-> {"StonfiPayVaultV2"}, if |-> {"StonfiRouterV2"}],
    <<AtOther([op |-> {"StonfiDepositRefFeeV2"}, if |-> {"StonfiVaultV2"}], <<ExcessTx>>)>>)
StonfiPool(facts, refs, below) ==
    AtOther([op |-> {"StonfiSwapV2"}, if |-> {"StonfiPoolV2"}],
      refs \o <<AtOther([op |-> {"StonfiPayToV2"}, if |-> {"StonfiRouterV2"}, fact |-> facts], <<below>>)>>)
StonfiIn(pool) ==
    JettonTx([pay |-> {"StonfiSwapV2"}, rcpt |-> {"other"}, to |-> {"StonfiRouterV2"}], {}, <<pool>>)

StonfiSwaps == <<
    StonfiIn(StonfiPool({"swapOk"}, <<>>, PaidTo("user"))),
    StonfiIn(StonfiPool({"swapOk"}, <<Referrer>>, PaidTo("user"))),
    StonfiIn(StonfiPool({"swapOk"}, <<>>, StonfiPool({"swapOk"}, <<Referrer>>, PaidTo("user")))),
    StonfiIn(StonfiPool({"swapOk"}, <<Referrer>>,
      StonfiIn(StonfiPool({"swapOk"}, <<Referrer>>, PaidTo("user"))))),
    StonfiIn(StonfiPool({"swapOk"}, <<Referrer>>,
      StonfiIn(StonfiPool({"slippage"}, <<Referrer>>, PaidTo("user"))))),
    StonfiIn(StonfiPool({"swapOk"}, <<>>,
      StonfiIn(StonfiPool({"slippage"}, <<Referrer>>,
        StonfiIn(StonfiPool({"slippage"}, <<>>, PaidTo("user"))))))) >>

DedustPools(n, payout) ==
    LET Down[i \in 0..n] ==
          IF i = 0 THEN AtOther([op |-> {"DedustPayoutFromPool"}], <<payout>>)
          ELSE AtOther([if |-> {"DedustPool"}, fact |-> {"externalOut"}], <<Down[i - 1]>>)
    IN Down[n]
DedustIn(n, payout) ==
    AtOther([op |-> {"DedustSwap"}, steps |-> {n}], <<DedustPools(n, payout)>>)
DedustJettonIn(n, payout) ==
    JettonTx([pay |-> {"DedustSwap"}, steps |-> {n}, rcpt |-> {"other"}], {}, <<DedustPools(n, payout)>>)
Omniston(kids) == JettonTx([rcpt |-> {"other"}, to |-> {"OmnistonReferral"}], {},
                    [i \in DOMAIN kids |-> [kids[i] EXCEPT !.lt = i]])
Fee(kids) == AtOther([code |-> {"0x603f6e78"}], kids)

DedustSwaps == <<
    DedustIn(1, PaidTo("user")),
    DedustIn(2, PaidTo("user")),
    DedustJettonIn(1, PaidTo("user")),
    DedustIn(2, Omniston(<<Fee(<<ExcessTx>>), PaidTo("user")>>)) >>

\* Swaps that leave bubbles over, or that have an order of their own.
Leftovers == <<
    DedustIn(1, Omniston(<<PaidTo("user"), Fee(<<ExcessTx>>)>>)),
    StonfiIn(StonfiPool({"swapOk"}, <<[Referrer EXCEPT !.kids[1].kids = @ \o <<ExcessTx>>]>>,
      StonfiPool({"swapOk"}, <<Hang(Referrer, 0, {}, <<PaidTo("other")>>)>>, PaidTo("user")))),
    DedustIn(1, AtOther([op |-> {"DedustPayout"}, if |-> {"OmnistonReferral"}],
      <<AtOther([op |-> {"DedustTonExcesses"}], <<>>),
        Txn([op |-> {"DedustTonPay"}, fact |-> {"more"}], <<>>)>>)) >>

\* An instant withdrawal from a vault of Affluent that goes on into a swap on
\* Tonco for the owner: sender of the asset is the vault, not the owner.
WithdrawnAndSwapped ==
    LET tonco == JettonTx([rcpt |-> {"ToncoRouter"}], {},
          <<AtOther([op |-> {"Poolv3Swap"}, if |-> {"ToncoPool"}],
              <<AtOther([op |-> {"PayTo"}, if |-> {"ToncoRouter"}, fact |-> {"code200"}],
                  <<PaidTo("user")>>)>>)>>)
    IN Txn([op |-> {"JettonBurn"}],
         <<AtOther([op |-> {"JettonBurnNotification"}, if |-> {"AffluentMultiplyVault"}], <<tonco>>)>>)

Swaps == [i \in 1..(Len(StonfiSwaps) + Len(DedustSwaps)) |->
            Sending((StonfiSwaps \o DedustSwaps)[i], "JettonSwap", {})]

---------------------------------------------------------------------------
(***************************************************************************)
(* The traces: a wallet sends one thing or two; or a message of it fails,  *)
(* or something it sends pays another account, or sends more than the      *)
(* straw knows.                                                            *)
(***************************************************************************)
Size(tx) == FromTrace(tx, 1).next - 1

\* Expected of what is sent: type and identifiers.
Sends(es) ==
    LET start[i \in 1..(Len(es) + 1)] ==
          IF i = 1 THEN 2 ELSE start[i - 1] + Size(es[i - 1].tx)
    IN [tree |-> Wallet([i \in DOMAIN es |-> es[i].tx], UNION {es[i].if : i \in DOMAIN es}),
        expects |-> {[type |-> es[i].type, ids |-> start[i]..(start[i + 1] - 1)] : i \in DOMAIN es}]

Known == Examples \o Swaps

\* tx with one of the transactions below it cut off, paid to another, failed,
\* failed before it sent anything, or sending a jetton transfer more.
RECURSIVE Variants(_)
Variants(tx) ==
    UNION {LET kids == tx.kids IN
             {[tx EXCEPT !.kids = RemoveAt(kids, i)]}
             \cup {[tx EXCEPT !.kids[i] = v] : v \in Variants(kids[i])} : i \in DOMAIN tx.kids}
    \cup {[tx EXCEPT !.is = [acc |-> {"other"}] @@ @], Hang(tx, 0, {}, <<PaidTo("other")>>),
          [tx EXCEPT !.is = [ok |-> {}] @@ @], [tx EXCEPT !.is = [ok |-> {}] @@ @, !.kids = <<>>]}

Altered(e) == {[tree |-> Wallet(<<v>>, e.if), expects |-> {}] : v \in Variants(e.tx)}

CONSTANT Reach   \* how far apart in Known two things sent together may be

MCTraces ==
    {Sends(<<e>>) : e \in Range(Known)}
    \cup {Sends(<<Known[x[1]], Known[x[2]]>>) :
            x \in {y \in (DOMAIN Known) \X (DOMAIN Known) : y[1] <= y[2] /\ y[2] <= y[1] + Reach}}
    \cup UNION {Altered(e) : e \in Range(Known)}
    \cup {[tree |-> Wallet(<<tx>>, {}), expects |-> {}] :
            tx \in Range(Leftovers) \cup {WithdrawnAndSwapped}}

\* That one, and the examples alone.
MarkTraces ==
    {[tree |-> Wallet(<<WithdrawnAndSwapped>>, {}), expects |-> {}]}
    \cup {Sends(<<e>>) : e \in Range(Known)}

---------------------------------------------------------------------------
\* Bubbles that a straw leaves below its own: the answer of the oracle and
\* the payout of an instant withdrawal.
Apart == {"OraclePriceUpdate", "JettonTransfer", "JettonSwap"}

(***************************************************************************)
(* The order of DefaultStraws serves every straw in it: what is sent as a  *)
(* straw's pattern wants it is shown as that straw's action, although the  *)
(* straws before it, more general ones too, and their mistakes on other    *)
(* parts of the trace had their turn first.                                *)
(***************************************************************************)
Recognised ==
    Finished => \A e \in trace.expects : \E b \in DOMAIN bubbles :
       /\ e.type \in Of(bubbles[b].is, "type")
       /\ e.ids \subseteq bubbles[b].parts \cup
            Parts(bubbles, {k \in Range(bubbles[b].kids) :
                              Of(bubbles[k].is, "type") \cap Apart # {}})
=============================================================================
