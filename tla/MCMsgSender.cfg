SPECIFICATION FairSpec
CONSTANTS
    b1 = b1
    b2 = b2
    c1 = c1
    Batch = {b1, b2}
    Size <- MCSize
    Invalid <- MCInvalid
    Caller = {c1}
    Receiver = {"r"}
    Cap = 1
    TTL = 3
    Pause = 1
    SendLimit = 1
    MaxTries = 2
    MaxAge = 7
INVARIANT BatchCopyBeforeSend
INVARIANT RoundLeavesNoneOut
INVARIANT TriedBeforeDropped
INVARIANT SendsEndAfterTTL
PROPERTY BatchIsForgotten
