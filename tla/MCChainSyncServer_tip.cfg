CONSTANTS
    a = a
    b = b
    ReIntersect = FALSE
    Origin = Origin
    None = None
    Conns = {a, b}
    InitChain <- MCInitChain
    InitView <- MCInitView
    NewBlocks <- MCNewBlocks
    K = 2
    MaxRollbacks = 2
SPECIFICATION Spec

INVARIANT TipNotBehindBlock
\* PROPERTY ClientsCatchUp
CHECK_DEADLOCK FALSE
