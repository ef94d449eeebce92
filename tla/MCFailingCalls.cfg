CONSTANTS
    a0 = a0
    z0 = z0
    a1 = a1
    a2 = a2
    l1 = l1
    l2 = l2
    r1 = r1
    d1 = d1
    z1 = z1
    Shard <- MCShard
    MaxSeqno = 3
    Tops <- MCTops
    Parents <- MCParents
    CommittedAt <- MCCommittedAt
    StartLt <- MCStartLt
    ShardOf <- MCShardOf
    SeqnoOf <- MCSeqnoOf
    NumChannels = 2
    SeqnoRange = 256
    MaxFaults = 2
    e1 = e1
    q1 = q1
    Event = {e1}
    Request = {q1}
    None = None
    Tx <- MCTx
    Indexable <- MCIndexable
    Msg <- MCMsg
    BlockTxs <- MCBlockTxs
    AccountOf <- MCAccountOf
    BlockOf <- MCBlockOf
    InMsg <- MCInMsg
    OutMsgs <- MCOutMsgs
    Source <- MCSource
    Destination <- MCDestination
    CreatedLt <- MCCreatedLt
    MaxLt = 100
    MaxDepth = 2
    s1 = s1
    s2 = s2
    Reader = {q1}
    Stopper = {s1, s2}
    MaxVersion = 2
    MaxConfigFails = 1
    c1 = c1
    c2 = c2
    Collector = {c1, c2}
    OnChain = 2
    InEmulated = 4
    Needs <- MCNeeds
    Emulated <- MCEmulated
    NotSaved = {"vault"}
    b1 = b1
    b2 = b2
    b3 = b3
    Sender = {b1, b2, b3}
    Payload <- MCPayload
    Encoding <- MCEncoding
    Minute = 2
    LastSeqno = 14
    Utime <- MCUtime
    Since <- MCSince
    Until <- MCUntil
    Now = 147
    MaxBoundarySearch = 3
    Key <- MCKey
    Frozen <- MCFrozen
    Bonuses <- MCBonuses
    Past <- MCPast
    Amounts <- MCAmounts
    RewardShare <- MCRewardShare
    Times <- MCTimes
    Nil = Nil
    Nfts <- MCNfts
    Holdings <- MCHoldings
    GasJetton = "g"
    Balances <- MCBalances
    Commissions <- MCCommissions
    Fees = {0, 1}
    Returns = {0, 1}
    MaxMessages <- MCMaxMessages
    SponsoredMax = 3
    Gas = 2
    MinTransferFee = 1
    Margin = 10
    Lifetime = 5
    NoGas = NoGas
    Told <- MCTold
    MaxTold = 2
    MaxBelow = 1
SPECIFICATION FailingCallsSpec
INVARIANTS
    TypeOK
    StreamOrdered
    ExactlyOnce
    ChannelsAgree
    HandlersAnswerRight
    NotSentAgain
    TraceIsRight
    RewardsAreRight
    PlanIsRight
    IntentionsRight
    DiffIsTheChunk
    ShutdownStopsUpdates
    InfoIsWhole
PROPERTIES
    EveryMasterDelivered
    ConfigIsFollowed
    EveryRequestEnds
CHECK_DEADLOCK FALSE
