SPECIFICATION Spec
CONSTANTS
    d1 = d1
    l1 = l1
    l2 = l2
    p1 = p1
    NumServers = 3
    Archive = {2}
    Direct = {}
    Loaded = {l1, l2}
    Pinned = {}
    RetryAttempts = 3
    Cycle = 6
    Used = {0, 1, 2}
    MaxExpires = 0
    MaxFlips = 0
    None = None
CHECK_DEADLOCK FALSE
INVARIANT RetryAsksOthers
