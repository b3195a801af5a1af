SPECIFICATION FairSpec
CONSTANTS
    w1 = w1
    w2 = w2
    NoWorker = NoWorker
    Runs = {1, 2}
    Workers = {w1}
    Kind <- OneContainer
    Deployment <- AllInContainers
    Disabled = {}
    Timed = {1, 2}
    MaxThreads = 1
    MaxCrashes = 1
    InspectMayFail = TRUE
    RmMayFail = FALSE
    DbMayFail = FALSE
    TxMayFail = FALSE
PROPERTIES
    EveryRunEnds
    ContainersReclaimed
    LeftoversReconciled
