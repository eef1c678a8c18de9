CONSTANTS
    Origin = Origin
    UpInit <- MCUpInit
    UpBlocks <- MCUpBlocks
    LocalInits <- MCLocalInits
    IntersectTips = {TRUE, FALSE}
    ConfigPoints <- MCConfigPoints
    K = 2
    MaxUpRollbacks = 2
    MaxInFlight = 2
    QCap = 1
    IntersectPointCount = 100
SPECIFICATION Spec
PROPERTY LocalCatchesUp
CHECK_DEADLOCK FALSE
