CONSTANTS
    s0 = s0
    s1 = s1
    s2 = s2
    s3 = s3
    s4 = s4
    x = x
    y = y
    z = z
    u0 = u0
    u1 = u1
    u2 = u2
    u3 = u3
    u4 = u4
    v = v
    w = w
    bad = bad
    MaxSeqno = 3
    Shard <- MCShard
    BlockID <- MCBlock
    Tops <- MCTops
    Parents <- MCParents
    CommittedAt <- MCCommittedAt
    StartLt <- MCStartLt
    NumChannels = 1
    SeqnoRange = 256
    MaxFaults = 1
    BlockTxs <- MCBlockTxs
    Tx <- MCTx
    Account = {x, y, z}
    AccountOf <- MCAccountOf
    InMsgLT <- SameLT
    NoLT = 0
    LT = {1, 2}
    Malformed = {bad}
    Tracked = {x, z}
    PreloadBlocks = {s0, s1}
    History <- MCHistory
    Reader = {"r"}
    MaxSearches = 1
    None = None
CHECK_DEADLOCK FALSE
SPECIFICATION PipelineSpec
INVARIANT KeyFindsItsTransaction
