CONSTANTS
    d1 = d1
    l1 = l1
    p1 = p1
    m1 = m1
    m2 = m2
    NumServers = 3
    Archive = {2}
    Direct = {d1}
    Loaded = {l1}
    Pinned = {p1}
    RetryAttempts = 3
    Cycle = 6
    Used = {0, 1, 2}
    MaxExpires = 1
    MaxFlips = 1
    None = None
    Msg = {m1, m2}
    Limit = 2
    MaxLt = 3
SPECIFICATION ServingSpec
SYMMETRY MsgSymmetry
INVARIANTS
    RefreshedOnce
    ServedIfServable
    PagesAreRight
CHECK_DEADLOCK FALSE
