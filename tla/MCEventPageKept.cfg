SPECIFICATION PageSpec
CONSTANTS
    m1 = m1
    m2 = m2
    Msg = {m1, m2}
    Limit = 2
    MaxLt = 4
CHECK_DEADLOCK FALSE
INVARIANT PendingIsKept
