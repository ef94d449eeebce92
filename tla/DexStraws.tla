------------------------------ MODULE DexStraws ------------------------------
(***************************************************************************)
(* Straws of staking, oracles and exchanges, and DefaultStraws: all of     *)
(* them in the order in which MergeAllBubbles tries them.                  *)
(***************************************************************************)
EXTENDS Straws

(***************************************************************************)
(* Staking (staking.go) and the oracle (oracle.go).                        *)
(***************************************************************************)
ElectionsDepositStakeStraw ==
    Straw("ElectionsDepositStake",
      Parent(Leaf({Tx, Op("ElectorNewStake"), Acc("Elector")}),
        <<Node({Tx, Op("ElectorNewStakeConfirmation")}, Done)>>))

ElectionsRecoverStakeStraw ==
    Straw("ElectionsRecoverStake",
      Parent(Leaf({Tx, Op("ElectorRecoverStakeRequest"), Acc("Elector")}),
        <<Node({Tx, Op("ElectorRecoverStakeResponse")}, Done)>>))

BouncedChild == Optional(Leaf({Fact("bounced")}))

DepositTFStakeStraw ==
    Straw("DepositStake",
      Single(Node({Tx, If("TvPool"), Text("d")}, Succeeds), BouncedChild))

WithdrawTFStakeRequestStraw ==
    Straw("WithdrawStakeRequest",
      Parent(Node({Tx, If("TvPool"), Text("w")}, Succeeds),
        <<Optional(Leaf({Tx, AmountInterval({"zero", "low", "gram"})}))>>))

WithdrawStakeImmediatelyStraw ==
    Straw("WithdrawStake",
      Single(Node({Is("WithdrawStakeRequest")}, Done),
        Leaf({Tx, AmountInterval({"gram", "high"})})))

DepositLiquidStakeStraw ==
    Straw("DepositStake",
      Single(Node({Tx, Op("TonstakePoolDeposit")}, Succeeds), BouncedChild))

WithdrawLiquidStake ==
    Straw("WithdrawStake",
      Single(Node({Is("WithdrawStakeRequest")}, Done), Leaf({Tx, Op("TonstakePoolWithdrawal")})))

PendingWithdrawRequestLiquidStraw ==
    LET Payout(child) ==
            Optional(Single(Leaf({Tx, Op("TonstakePayoutMintJettons")}), child))
    IN Straw("WithdrawStakeRequest",
         Single(Node({Is("JettonBurn")}, Done),
           Parent(Node({Tx, Op("TonstakePoolWithdraw")}, Done),
             <<Payout(Node({Is("NftTransfer")}, Done)),
               Payout(Single(Leaf({Tx, Op("TonstakeNftInit")}),
                        Node({Tx, Op("NftOwnershipAssigned")}, Done)))>>)))

\* The oracle's answer stays a bubble of its own; its check and those below
\* have no IsTx: what they assert of the type holds where they are reached.
DepositFFVaultStakeStraw ==
    Straw("DepositStake",
      Parent(Leaf({Transfer, Pay("FfVaultAssetDeposit"), If("FfVault")}),
        <<NotMerged(Parent(Leaf({Is("OraclePriceUpdate"), Good, Fact("answersItself")}),
            <<Parent(Node({If("FfVaultPosition")}, Succeeds), <<Optional(Leaf({Excess}))>>)>>))>>))

WithdrawalRequestFFVaultStraw ==
    Straw("WithdrawStakeRequest",
      Parent(Needs(Node({Tx, Op("FfVaultUnstakeRequest"), If("FfVaultPosition")}, Succeeds),
                   {Fact("positionData")}),
        <<Optional(Leaf({Excess}))>>))

PythOraclePriceUpdateStraw ==
    Straw("OraclePriceUpdate",
      Parent(Needs(Node({Tx, Op("PythParsePriceFeedUpdates"), If("PythOracle")},
                        [requester |-> "from", replyTo |-> "target", fact |-> "fact"]),
                   {{<<"target", a>> : a \in Accounts}}),
        <<Agrees(Node({Tx, Op("PythResponseSuccess") \cup Op("PythErrorResponse")},
                      [ok |-> "answered"]),
            {[if |-> {}, of |-> "acc", with |-> "replyTo"],
             [if |-> {Op("PythResponseSuccess")}, of |-> "initial", with |-> "requester"]})>>))

DepositEthenaStakeStraw ==
    Straw("DepositTokenStake",
      Single(Leaf({Transfer, Rcpt("EthenaPool")}), Node({Is("JettonMint")}, Succeeds)))

WithdrawEthenaStakeRequestStraw ==
    Straw("WithdrawTokenStakeRequest",
      Single(Leaf({Transfer, Rcpt("EthenaPool")}),
        Single(Leaf({Tx, Op("JettonMint")}), Node({Tx}, Succeeds))))

AffluentVault == To("AffluentLendingVault") \cup To("AffluentMultiplyVault")

DepositAffluentEarnStraw ==
    Straw("DepositTokenStake",
      Single(Leaf({Transfer, AffluentVault}),
        Single(Node({Tx, Op("JettonInternalTransfer")}, Succeeds), Leaf({Tx, Excess}))))

\* Through one oracle or the other, down to the vault.
Oracles(child) ==
    Single(Leaf({Tx, Code("0x2a75c2f1") \cup Code("0xf1cafcb2")}),
      Single(Leaf({Tx, Code("0xb675cea5") \cup Code("0xab7bef17")}), child))

DepositAffluentEarnWithOraclesStraw ==
    Straw("DepositTokenStake",
      Single(Leaf({Transfer, AffluentVault}),
        Parent(Leaf({Tx, Code("0xb0c69ffe")}),
          <<Oracles(Single(Leaf({Tx, Code("0x77c65602")}),
              Single(Node({Tx, Op("JettonInternalTransfer")}, Succeeds), Leaf({Tx, Excess})))),
            Leaf({Deploy})>>)))

WithdrawAffluentEarnRequestStraw ==
    Straw("WithdrawTokenStakeRequest",
      Single(Node({Transfer, To("AffluentBatch")}, Succeeds), Leaf({Tx, Excess})))

InstantWithdrawAffluentEarnStraw ==
    Straw("WithdrawTokenStakeRequest",
      WithChild(Node({Is("JettonBurn")}, Succeeds), "first",
        {Transfer, {<<"fromIf", "AffluentMultiplyVault">>, <<"fromIf", "AffluentLendingVault">>}}))

InstantWithdrawAffluentEarnWithOraclesStraw ==
    Straw("WithdrawTokenStakeRequest",
      Single(Leaf({Is("JettonBurn")}),
        Parent(Leaf({Tx, Op("ProvideAggregatedDataWithdraw")}),
          <<Oracles(Node({Tx, Code("0x77c65602"),
                          If("AffluentMultiplyVault") \cup If("AffluentLendingVault")}, Succeeds)),
            Leaf({Deploy})>>)))

---------------------------------------------------------------------------
(***************************************************************************)
(* Swaps.  user is the account that sent the asset in.                     *)
(***************************************************************************)
User == [user |-> "from"]

StonfiSwapStraw ==
    Straw("JettonSwap",
      Single(Node({Transfer, HasSender, Pay("StonfiSwap"), Fact("toSelf")}, User),
        Single(Needs(Leaf({Tx, Op("StonfiSwap"), If("StonfiPool")}), {Fact("validSender")}),
          Single(Leaf({Tx, Op("StonfiPaymentRequest")}),
            Node({Transfer, Pay("StonfiSwapOk") \cup Pay("0x5ffe1295")}, [ok |-> "paidOut"])))))

MegatonFiJettonSwap ==
    Straw("JettonSwap",
      Parent(Node({Transfer, To("MegatonfiRouter")}, User),
        <<Parent(Leaf({Transfer, To("MegatonfiExchange")}),
            <<Parent(Leaf({Transfer, To("MegatonfiRouter")}), <<Node({Transfer}, Succeeds)>>)>>)>>))

\* Range and pool of a Bidask swap, then what it pays out.
BidaskRoute(child) ==
    Single(Leaf({Tx, Op("BidaskInternalSwap"), If("BidaskRange")}),
      Single(Leaf({Tx, Op("BidaskSwapSuccess") \cup Op("BidaskSwapSuccessV2"), If("BidaskPool")}),
        child))

BidaskSwapStraw ==
    Straw("JettonSwap",
      Single(Node({Tx, Op("BidaskSwap"), If("BidaskPool"), Fact("toSelf")}, User),
        BidaskRoute(Node({Transfer}, Succeeds))))

BidaskSwapStrawReverse ==
    Straw("JettonSwap",
      Single(Node({Transfer, Pay("BidaskSwap"), Fact("toSelf")}, User),
        BidaskRoute(Node({Tx, Op("BidaskNativeTransferNotification")}, Succeeds))))

BidaskJettonSwapStraw ==
    Straw("JettonSwap",
      Single(Node({Transfer, Pay("BidaskSwap"), Fact("toSelf")}, User),
        BidaskRoute(Node({Transfer}, Succeeds))))

MooncxSwapStraw ==
    Straw("JettonSwap",
      Single(Node({Tx, Op("MoonSwap"), If("MoonPool"), Fact("toSelf")}, User),
        Node({Transfer}, Succeeds)))

MooncxSwapStrawReverse ==
    Straw("JettonSwap",
      Single(Node({Transfer, Pay("MoonSwap"), Fact("toSelf")}, User),
        Node({Tx, Op("MoonSwapSucceed")}, Succeeds)))

\* The last builder errs unless the user is paid; by then the transfer, the
\* pool and the router are marked as merged.
ToncoSwapStraw ==
    Straw("JettonSwap",
      Single(Node({Transfer}, User),
        Single(Leaf({Tx, Op("Poolv3Swap"), If("ToncoPool")}),
          Single(Node({Tx, Op("PayTo"), If("ToncoRouter"), Fact("code200") \cup Fact("code230")},
                      [ok |-> "code200"]),
            Agrees(Leaf({Transfer, HasRecipient}),
              {[if |-> {}, of |-> "rcpt", with |-> "user"]})))))

---------------------------------------------------------------------------
(***************************************************************************)
(* Deposits of liquidity.                                                  *)
(***************************************************************************)
Deposit(dex) == {Is("LiquidityDeposit"), {<<"dex", dex>>}}

LpMinted ==
    Parent(Leaf({Tx, If("BidaskLpMultitoken")}),
      <<Node({Tx, If("Wallet")}, Succeeds), Leaf({Deploy})>>)

BidaskRangeAdds ==
    Parent(Leaf({Tx, If("BidaskRange")}),
      <<Optional(Single(Leaf({Tx, If("BidaskPool")}), Leaf({Transfer}))), LpMinted>>)

BidaskLiquidityDepositBothNativeStraw ==
    Straw("LiquidityDeposit",
      Single(Gives(Leaf({Transfer, Pay("BidaskProvideBoth")}), [dex |-> {"Bidask"}]),
        BidaskRangeAdds))

BidaskLiquidityDepositJettonStraw ==
    Straw("LiquidityDeposit",
      Single(Gives(Leaf({Transfer}), [dex |-> {"Bidask"}]), BidaskRangeAdds))

BidaskLiquidityDepositBothJettonStraw ==
    LET Side(below) == Single(Gives(Leaf({Transfer}), [dex |-> {"Bidask"}]), below)
        Vault(sets, below) == Single(Node({Tx, If("BidaskInternalLiquidityVault")}, sets), below)
    IN Straw("LiquidityDeposit",
         Parent(Leaf({}),
           <<Side(Vault(Nothing, Optional(Leaf({Deploy})))),
             Side(Vault(Succeeds,
               Single(Leaf({Tx, If("BidaskPool")}),
                 Single(Leaf({Tx, If("BidaskRange")}), LpMinted))))>>))

StonfiLiquidityDepositSingle ==
    LET Minted ==
            <<Optional(Single(Leaf({Is("JettonMint")}),
                Parent(Leaf({Tx, If("NftItem")}),
                  <<Node({Tx, Excess}, Succeeds), Optional(Leaf({Deploy}))>>))),
              Optional(Single(Leaf({Tx, Op("JettonInternalTransfer")}),
                Node({Tx, Excess}, Succeeds)))>>
    IN Straw("LiquidityDeposit",
         Single(Gives(Leaf({Transfer, Pay("StonfiProvideLpV2"), Fact("toSelf"), Rcpt("StonfiVault")}),
                      [dex |-> {"Stonfi"}]),
           Single(Leaf({Tx, Op("StonfiProvideLpV2"), If("StonfiPoolV2")}),
             Parent(Leaf({Tx, Op("StonfiAddLiquidityV2")}),
               <<Parent(Leaf({Tx, Op("StonfiCbAddLiquidityV2"), If("StonfiPoolV2")}), Minted),
                 Optional(Leaf({Deploy}))>>))))

StonfiLiquidityDepositBoth ==
    Straw("LiquidityDeposit",
      Parent(Leaf({}),
        <<Node(Deposit("Stonfi"), [dex |-> "dex"]),
          Single(Leaf({Transfer}),
            Single(Leaf({Tx, Op("StonfiProvideLpV2"), If("StonfiPoolV2")}),
              Parent(Leaf({Tx, Op("StonfiAddLiquidityV2")}),
                <<Node({Tx, Excess}, Succeeds), Optional(Leaf({Deploy}))>>)))>>))

MoonRecords(top) ==
    Single(Gives(top, [dex |-> {"Mooncx"}]),
      Parent(Node({Tx, Op("MoonDepositRecord")}, Succeeds),
        <<Optional(Parent(Leaf({Tx, Op("MoonProvideLiquidity"), If("MoonPool")}),
            <<Parent(Leaf({Tx, Op("JettonInternalTransfer")}),
                <<Leaf({Tx, Excess}), Optional(Leaf({Deploy}))>>),
              Node({Tx, Op("MoonProvideLiquiditySucceed")}, Succeeds)>>)),
          Optional(Leaf({Deploy}))>>))

MoocxLiquidityDepositJettonStraw ==
    Straw("LiquidityDeposit",
      MoonRecords(Leaf({Transfer, Pay("MoonDepositLiquidity"), HasRecipient})))

MoocxLiquidityDepositNativeStraw ==
    Straw("LiquidityDeposit", MoonRecords(Leaf({Tx, Op("MoonDepositLiquidity")})))

MoocxLiquidityDepositBothStraw ==
    Straw("LiquidityDeposit",
      Parent(Leaf({}),
        <<Node(Deposit("Mooncx"), [dex |-> "dex"]), Node(Deposit("Mooncx"), Succeeds)>>))

Funded(child) ==
    Single(Leaf({Tx, Op("Poolv3FundAccount"), If("ToncoPool")}),
      child)

ToncoDepositLiquiditySingleStraw ==
    Straw("LiquidityDeposit",
      Single(Gives(Leaf({Transfer, Rcpt("ToncoRouter")}), [dex |-> {"Tonco"}]),
        Funded(Single(Leaf({Tx, Op("Accountv3AddLiquidity")}),
          Parent(Node({Tx, Op("Poolv3Mint"), If("ToncoPool")}, Succeeds),
            <<Single(Node({Tx, Op("PositionnftV3PositionInit"), If("NftItem")}, Also),
                     Optional(Leaf({Deploy}))),
              Optional(Node({Tx, Excess}, Also))>>)))))

ToncoDepositLiquidityBothStraw ==
    Straw("LiquidityDeposit",
      Parent(Leaf({}),
        <<Node({Is("LiquidityDeposit")}, Succeeds @@ [dex |-> "dex"]),
          Single(Leaf({Transfer, Rcpt("ToncoRouter")}),
            Funded(Leaf({Tx, Op("Accountv3AddLiquidity")})))>>))

ToncoDepositLiquidityWithRefundStraw ==
    Straw("LiquidityDeposit",
      Single(Node({Is("LiquidityDeposit")}, Succeeds @@ [dex |-> "dex"]),
        Parent(Node({Tx, Op("PayTo"), If("ToncoRouter")}, Also),
          <<Node({Transfer}, Also), Node({Transfer}, Also)>>)))

---------------------------------------------------------------------------
(***************************************************************************)
(* The order of DefaultStraws; two of them have a Merge of their own.      *)
(***************************************************************************)
UniversalStonfiStraw == [how |-> "stonfi", type |-> "JettonSwap"]
UniversalDedustStraw == [how |-> "dedust", type |-> "JettonSwap"]

DefaultStraws == <<
    StrawFindAuctionBidFragmentSimple, GasRelayerStraw, NftTransferStraw,
    NftTransferNotifyStraw, StonfiV1PTONStraw, StonfiV2PTONStrawReverse,
    StonfiV2PTONStraw, EthenaTsUSDeTransferStraw, FlawedJettonTransferClassicStraw,
    FlawedJettonTransferMinimalStraw, XTRWithdrawAction, JettonTransferClassicStraw,
    JettonTransferMinimalStraw, JettonBurnStraw, WtonMintStraw, NftPurchaseStraw,
    StonfiSwapStraw, UniversalStonfiStraw, UniversalDedustStraw,
    TgAuctionV1InitialBidStraw, StrawAuctionBigGetgems, StrawAuctionBuyGetgems,
    StrawAuctionBuyFragments, JettonMintFromMasterStraw, JettonMintStrawGovernance,
    InvoicePaymentStrawNative, InvoicePaymentStrawJetton, MegatonFiJettonSwap,
    UnSubscriptionBySubscriberStraw, UnSubscriptionByBeneficiaryOrExpiredStraw,
    SubscriptionDeployStraw, SubscriptionPaymentStraw,
    SubscriptionPaymentWithRequestFundsStraw, DepositLiquidStakeStraw,
    PendingWithdrawRequestLiquidStraw, ElectionsDepositStakeStraw,
    ElectionsRecoverStakeStraw, DepositTFStakeStraw, WithdrawTFStakeRequestStraw,
    WithdrawStakeImmediatelyStraw, WithdrawLiquidStake, DNSRenewStraw,
    BidaskLiquidityDepositBothNativeStraw, BidaskLiquidityDepositBothJettonStraw,
    BidaskLiquidityDepositJettonStraw, StonfiLiquidityDepositSingle,
    StonfiLiquidityDepositBoth, DepositEthenaStakeStraw,
    WithdrawEthenaStakeRequestStraw, BidaskSwapStraw, BidaskSwapStrawReverse,
    BidaskJettonSwapStraw, MooncxSwapStraw, MooncxSwapStrawReverse,
    MoocxLiquidityDepositJettonStraw, MoocxLiquidityDepositNativeStraw,
    MoocxLiquidityDepositBothStraw, ToncoSwapStraw, ToncoDepositLiquiditySingleStraw,
    ToncoDepositLiquidityBothStraw, ToncoDepositLiquidityWithRefundStraw,
    DepositAffluentEarnStraw, DepositAffluentEarnWithOraclesStraw,
    WithdrawAffluentEarnRequestStraw, InstantWithdrawAffluentEarnStraw,
    InstantWithdrawAffluentEarnWithOraclesStraw, PythOraclePriceUpdateStraw,
    DepositFFVaultStakeStraw, WithdrawalRequestFFVaultStraw, XTRDepositAction,
    XTRBuyAction >>
=============================================================================
