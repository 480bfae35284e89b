SPECIFICATION FairSpec
CONSTANTS
    d1 = d1
    r1 = r1
    r2 = r2
    NoOne = NoOne
    NTrees = 3
    MaxDeploys = 2
    Rollback = FALSE
    Deployers <- OneDeployer
    Requests <- TwoRequests
    WithDoc <- FromTheSecond
    Speaks <- UpToTheSecond
INVARIANTS
    NewAsLabelled
    StaleTextIsDetectable
    SettledCacheIsLive
PROPERTIES
    EveryCallEnds
CHECK_DEADLOCK FALSE
