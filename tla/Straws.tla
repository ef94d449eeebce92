------------------------------- MODULE Straws -------------------------------
(***************************************************************************)
(* The patterns of package bath (src/pkg/bath): what a Straw is, and every *)
(* straw of DefaultStraws.                                                 *)
(*                                                                         *)
(* Of a bubble only what some straw asks is kept: its facts, a function    *)
(* from the kind of a fact to the set of values the bubble has.            *)
(*   type    the Go type of Info        op, text  decoded body of a tx     *)
(*   if      interfaces of the account  code      opcode of a tx           *)
(*   acc     the account                amt       input amount, by interval*)
(*   from, fromIf   sender              ok        success                  *)
(*   rcpt, to       recipient of a transfer, its interfaces                *)
(*   pay     payload of a transfer      fact      outcome of a comparison  *)
(*   steps   pools that the payload of a DeDust swap names               *)
(* Amounts, names and images that builders copy are left out.              *)
(***************************************************************************)
EXTENDS Sequences, FiniteSets, TLC

(***************************************************************************)
(* Checks: a set of requirements, each a set of facts one of which holds.  *)
(***************************************************************************)
Is(t)   == {<<"type", t>>}
Tx      == Is("Tx")
Op(o)   == {<<"op", o>>}
Code(c) == {<<"code", c>>}
If(i)   == {<<"if", i>>, <<"to", i>>}    \* of a transfer: its recipient
To(i)   == {<<"to", i>>}
Acc(a)  == {<<"acc", a>>}
Rcpt(a) == {<<"rcpt", a>>}
Pay(p)  == {<<"pay", p>>}
Text(c) == {<<"text", c>>}
Fact(f) == {<<"fact", f>>}
Good    == {<<"ok", "y">>}

\* Accounts that straws tell apart; a sender or recipient that is known.
Accounts == {"user", "other", "Elector", "EthenaPool", "EthenaTsUSDeMaster",
             "StonfiVault", "ToncoRouter"}
HasSender    == {<<"from", a>> : a \in Accounts}
HasRecipient == {<<"rcpt", a>> : a \in Accounts}

\* Input amounts: 0, up to a gram, a gram, more.
AmountInterval(vs) == {<<"amt", v>> : v \in vs}
Paid == AmountInterval({"low", "gram", "high"})

HasEmptyBody == Op("none")
Transfer == Is("JettonTransfer")
Excess == Op("Excess")

(***************************************************************************)
(* A node of a straw.  sets: which fact of the new bubble its Builder      *)
(* assigns from which fact of the matched one; gives: constants it         *)
(* assigns; needs and agree: when its Builder returns no error (agree:     *)
(* where the bubble has the facts `if`, its fact `of` is the fact `with`   *)
(* of the new bubble); child: a check of some child or of the first;       *)
(* updates: it has a ValueFlowUpdater.  All of these do the same, if the   *)
(* jettons got there: add them to the recipient, if the new bubble has     *)
(* one, and subtract them from the sender, if it has one.                  *)
(***************************************************************************)
Nothing == <<>>

Node(when, sets) ==
    [when  |-> when, sets |-> sets, gives |-> Nothing, needs |-> {},
     agree |-> {}, child |-> <<>>, kids |-> <<>>, opt |-> FALSE, keep |-> FALSE,
     updates |-> FALSE]

Leaf(when) == Node(when, Nothing)
Parent(node, children) == [node EXCEPT !.kids = children]
Single(node, child) == [node EXCEPT !.kids = <<child>>]
Optional(node) == [node EXCEPT !.opt = TRUE]
NotMerged(node) == [node EXCEPT !.keep = TRUE]
Updates(node) == [node EXCEPT !.updates = TRUE]
Gives(node, consts) == [node EXCEPT !.gives = consts]
Needs(node, facts) == [node EXCEPT !.needs = facts]
Agrees(node, agree) == [node EXCEPT !.agree = agree]
WithChild(node, which, when) == [node EXCEPT !.child = <<[which |-> which, when |-> when]>>]

Straw(type, top) == [how |-> "straw", type |-> type, top |-> top]

Succeeds == [ok |-> "ok"]      \* success of the matched bubble
Done     == [ok |-> "yes"]     \* success whatever the bubble says
Also     == [ok |-> "also"]    \* success so far and of the bubble

Deploy == Is("ContractDeploy")

---------------------------------------------------------------------------
(***************************************************************************)
(* NFTs, auctions, purchases, DNS, gas relayers.                           *)
(***************************************************************************)
StrawFindAuctionBidFragmentSimple ==
    Straw("AuctionBid", Node({Tx, If("Teleitem"), HasEmptyBody, Paid}, Succeeds))

GasRelayerStraw ==
    Straw("GasRelay", Node({Tx, Op("WalletSignedInternalV5R1"), If("WalletV5R1"),
                            Fact("fromRelayer")}, Done))

NftTransferStraw ==
    Straw("NftTransfer",
      Parent(Node({Tx, Op("NftTransfer"), If("NftItem")}, Succeeds),
        <<Optional(Node({Tx, Op("NftOwnershipAssigned")}, Done)),
          Optional(Leaf({Tx, Excess}))>>))

NftTransferNotifyStraw ==
    Straw("NftTransfer",
      Parent(Leaf({Tx, If("NftItem")}),
        <<Node({Tx, Op("NftOwnershipAssigned")}, Done),
          Optional(Leaf({Tx, Excess}))>>))

NftPurchaseStraw ==
    Straw("NftPurchase",
      Single(Leaf({Tx, If("NftSale"), Paid, Fact("forSale"),
                   HasEmptyBody \cup Text("d") \cup Text("w") \cup Text("other")}),
        Optional(Node({Is("NftTransfer")}, Succeeds))))

TgAuctionV1InitialBidStraw ==
    Straw("AuctionBid",
      Single(Leaf({Tx, Op("TelemintDeploy")}), Node({Tx, Op("TeleitemDeploy")}, Succeeds)))

StrawAuctionBigGetgems ==
    Straw("AuctionBid", Node({Tx, If("NftAuctionV1"), HasEmptyBody, Paid}, Succeeds))

StrawAuctionBuyGetgems ==
    Straw("NftPurchase",
      Single(Node({Is("AuctionBid")}, Succeeds), Leaf({Is("NftTransfer")})))

StrawAuctionBuyFragments ==
    Straw("NftPurchase",
      Single(Node({Is("AuctionBid")}, Succeeds), Leaf({Tx, Op("NftOwnershipAssigned")})))

DNSRenewStraw ==
    Straw("DnsItemRenew",
      Single(Node({Tx, Op("DeleteDnsRecord"), If("NftItem"), Fact("keyZero")}, Succeeds),
        Optional(Leaf({Tx, Op("Bounce")}))))

---------------------------------------------------------------------------
(***************************************************************************)
(* Jettons.  The transfer gives sender, payload and destination, the       *)
(* notification overwrites the payload and the recipient.                  *)
(***************************************************************************)
Payload == [pay |-> "pay", fact |-> "fact", steps |-> "steps"]
Sent == Payload @@ [from |-> "from", fromIf |-> "fromIf", rcpt |-> "dest"]
SentOnly == [from |-> "from", fromIf |-> "fromIf"]
SentPTON == [from |-> "from", fromIf |-> "fromIf", rcpt |-> "dest"]
Notified == Payload @@ [ok |-> "yes", rcpt |-> "acc", to |-> "if"]

IsTransfer == {Tx, If("JettonWallet"), Op("JettonTransfer")}
Notify == Node({Tx, Op("JettonNotify")}, Notified)
NotifyOrExcess == <<Optional(Updates(Notify)), Optional(Leaf({Tx, Excess}))>>

\* Receiving wallet: by interface or by operation, or by both.
InternalEither == Node({Tx, If("JettonWallet") \cup Op("JettonInternalTransfer")}, Succeeds)
InternalBoth   == Node({Tx, If("JettonWallet"), Op("JettonInternalTransfer")}, Succeeds)

JettonTransferClassicStraw ==
    Straw("JettonTransfer",
      Single(Node(IsTransfer, Sent), Optional(Parent(Updates(InternalEither), NotifyOrExcess))))

JettonTransferMinimalStraw ==
    Straw("JettonTransfer",
      Single(Node(IsTransfer, SentOnly), Optional(Parent(Updates(InternalBoth), NotifyOrExcess))))

\* Mutant: any amount.
FlawedEveryTransfer(node) == WithChild(node, "some", {Tx, Op("JettonInternalTransfer")})

\* A child that receives another amount than was sent.
Flawed(node) == WithChild(node, "some", {Tx, Op("JettonInternalTransfer"), Fact("otherAmount")})

FlawedJettonTransferClassicStraw ==
    Straw("FlawedJettonTransfer",
      Single(Flawed(Node(IsTransfer, Sent)), Optional(Parent(Updates(InternalBoth), NotifyOrExcess))))

FlawedJettonTransferMinimalStraw ==
    Straw("FlawedJettonTransfer",
      Single(Flawed(Node(IsTransfer, SentOnly)), Optional(Parent(Updates(InternalBoth), NotifyOrExcess))))

\* tsUSDe: the master receives, and its body does not decode.
EthenaTsUSDeTransferStraw ==
    Straw("JettonTransfer",
      Single(Node(IsTransfer, Sent),
        Parent(Updates(Node({Tx, Acc("EthenaTsUSDeMaster"), Code("JettonInternalTransfer")}, Succeeds)),
          <<Optional(Leaf({Tx, Op("JettonNotify"), Acc("EthenaPool")})),
            Optional(Leaf({Tx, Excess}))>>)))

StonfiV1PTONStraw ==
    Straw("JettonTransfer",
      Single(Node(IsTransfer \cup {Fact("inputExceeds")}, SentPTON), Notify))

StonfiV2PTONStraw ==
    Straw("JettonTransfer",
      Single(Node({Tx, If("JettonWallet"), Op("PtonTonTransfer"), Fact("inputExceeds")}, SentPTON),
        Notify))

StonfiV2PTONStrawReverse ==
    Straw("JettonTransfer",
      Parent(Node(IsTransfer, Sent),
        <<Single(Node({Tx, Op("PtonTonTransfer"), Fact("inputExceeds")},
                      [ok |-> "yes", rcpt |-> "acc", to |-> "if"]), Optional(Notify)),
          Optional(Leaf({Tx, Excess}))>>))

JettonBurnStraw ==
    Straw("JettonBurn",
      Single(Node({Tx, Op("JettonBurn")}, Succeeds @@ [from |-> "from"]),
        Optional(Updates(Leaf({Tx, Op("JettonBurnNotification")})))))

JettonMintFromMasterStraw ==
    Straw("JettonMint",
      Parent(Node({Tx, Op("JettonInternalTransfer"), If("JettonWallet"),
                   {<<"fromIf", "JettonMaster">>}}, Succeeds),
        <<Updates(Node({Tx, Op("JettonNotify")}, [rcpt |-> "acc", to |-> "if"])),
          Optional(Leaf({Tx, Excess}))>>))

JettonMintStrawGovernance ==
    Straw("JettonMint",
      Single(Node({Tx, Op("JettonMint"), If("JettonMaster")}, [rcpt |-> "dest"]),
        Single(InternalBoth, Optional(Leaf({Tx, Excess})))))

WtonMintStraw ==
    Straw("JettonMint",
      Parent(Node({Tx, Op("MegatonWtonMint")}, [rcpt |-> "acc", to |-> "if"]),
        <<Parent(Node({Tx, Op("JettonInternalTransfer")}, Succeeds),
            <<Optional(Leaf({Tx, Op("JettonNotify")})), Optional(Leaf({Deploy}))>>),
          Optional(Leaf({Tx, Excess}))>>))

---------------------------------------------------------------------------
(***************************************************************************)
(* Payments, XTR, subscriptions.                                           *)
(***************************************************************************)
InvoicePaymentStrawNative ==
    Straw("InvoicePayment", Node({Tx, Op("InvoicePayload"), Paid}, Succeeds))

\* Mutant: what it makes of a transfer is a transfer again.
InvoicePaymentStrawAgain ==
    Straw("JettonTransfer",
      Node({Transfer, HasSender, HasRecipient, Pay("InvoicePayload")},
           [from |-> "from", rcpt |-> "rcpt", pay |-> "pay"]))

InvoicePaymentStrawJetton ==
    Straw("InvoicePayment", Node({Transfer, HasSender, HasRecipient, Pay("InvoicePayload")}, Succeeds))

XTRWithdrawAction ==
    Straw("WithdrawXTR",
      Single(Leaf({Tx, Op("JettonBurn")}),
        Single(Leaf({Tx, Code("0x7bdd97de"), If("XtrMaster")}),
          Node({Tx, Code("0xd53276db")}, Done))))

XTRDepositAction ==
    Straw("DepositXTR",
      Single(Leaf({Tx, Op("XtrUpdatePayment")}),
        Single(Leaf({Tx, Op("XtrUpdateContractAndProcessMessage")}),
          Single(Leaf({Tx, Op("XtrUpdateUser")}),
            Single(Leaf({Tx, Op("XtrUpdateContractAndProcessMessage"), Fact("commit")}),
              Node({Tx, Code("0xd53276db")}, Done))))))

XTRBuyAction ==
    Straw("BuyXTR",
      Single(Leaf({Tx, Op("XtrBuyXTRRequest"), Fact("forUser")}),
        Parent(Leaf({Tx, Code("0x4af6f2fe")}),
          <<Single(Leaf({Tx, Code("0x01339000")}), Node({Tx, Code("0xd53276db")}, Done)),
            Leaf({Deploy})>>)))

Subscribed == If("SubscriptionV1") \cup If("SubscriptionV2")

SubscriptionDeployStraw ==
    Straw("Subscription",
      Parent(Node({Tx}, Succeeds),
        <<Single(Node({Tx, Op("SubscriptionDeploy")}, Also), Node({Deploy}, Also)),
          Node({Is("AddExtension")}, Also)>>))

SubscriptionPaymentStraw ==
    Straw("Subscription",
      Node({Tx, Subscribed, Op("PaymentConfirmed"), Paid}, [ok |-> "okIfKids"]))

SubscriptionPaymentWithRequestFundsStraw ==
    Straw("Subscription",
      Single(Leaf({Tx, Subscribed}),
        Single(Leaf({Tx, Op("PaymentRequest") \cup Op("WalletExtensionActionV5R1"),
                     Op("PaymentRequest") \cup Fact("noExtended")}),
          Optional(Node({Is("Subscription")}, Succeeds)))))

\* The builder of the removal compares it with a subscription that only the
\* builder of the destruct sets, and that one runs later and assigns success.
UnSubscriptionBySubscriberStraw ==
    Straw("UnSubscription",
      Parent(Node({Tx}, Done),
        <<Node({Tx, Op("WalletPluginDestruct"), Subscribed}, [sub |-> "acc", ok |-> "ok"]),
          Node({Is("RemoveExtension")}, [ok |-> "removed"])>>))

UnSubscriptionByBeneficiaryOrExpiredStraw ==
    Straw("UnSubscription",
      Parent(Node({Tx, Fact("external") \cup Op("WalletPluginDestruct"), Subscribed},
                  [sub |-> "acc", ok |-> "ok"]),
        <<Single(Node({Tx}, Also), Node({Is("RemoveExtension")}, [ok |-> "removed"]))>>))

=============================================================================
