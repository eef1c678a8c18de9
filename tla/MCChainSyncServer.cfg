CONSTANTS
    a = a
    b = b
    ReIntersect = FALSE
    Origin = Origin
    None = None
    Conns = {a, b}
    InitChain <- MCInitChain
    InitView <- MCInitView
    NewBlocks <- MCNewBlocks
    K = 2
    MaxRollbacks = 2
SPECIFICATION Spec
INVARIANT TypeOK
INVARIANT ClientFollowsChain
PROPERTY FollowsChainSpec
PROPERTY ClientsCatchUp
CHECK_DEADLOCK FALSE
