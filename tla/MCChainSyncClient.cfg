CONSTANTS
    Origin = Origin
    UpInit <- MCUpInit
    UpBlocks <- MCUpBlocks
    LocalInits <- MCLocalInits
    IntersectTips = {TRUE, FALSE}
    ConfigPoints <- MCConfigPoints
    K = 2
    MaxUpRollbacks = 2
    MaxInFlight = 3
    QCap = 2
    IntersectPointCount = 100
SPECIFICATION Spec
INVARIANT LocalFromUpstream
PROPERTY LocalCatchesUpUnlessDropped
CHECK_DEADLOCK FALSE
