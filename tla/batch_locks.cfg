SPECIFICATION Spec
CONSTANTS
    w1 = w1
    w2 = w2
    NoWorker = NoWorker
    Runs = {1, 2}
    Workers = {w1, w2}
    Kind <- BothContainer
    Deployment <- AllInContainers
    Disabled = {}
    Timed = {1}
    MaxThreads = 2
    MaxCrashes = 0
    InspectMayFail = FALSE
    RmMayFail = FALSE
    DbMayFail = FALSE
    TxMayFail = TRUE
CONSTRAINTS
    SecondOnlyReconciles
    SecondRunHangs
INVARIANTS
    TypeOK
    ClaimedOnce
    NoLockCycle
    ContainerAccounted
PROPERTY ImplementsQueue
