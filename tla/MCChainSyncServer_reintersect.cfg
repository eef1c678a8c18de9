CONSTANTS
    a = a
    b = b
    ReIntersect = TRUE
    Origin = Origin
    None = None
    Conns = {a, b}
    InitChain <- MCInitChain
    InitView <- MCInitView
    NewBlocks <- MCNewBlocks
    K = 2
    MaxRollbacks = 2
SPECIFICATION Spec
INVARIANT ClientFollowsChain
CHECK_DEADLOCK FALSE
