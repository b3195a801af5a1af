SPECIFICATION Spec
CONSTANTS
    w1 = w1
    w2 = w2
    NoWorker = NoWorker
    Runs = {1, 2}
    Workers = {w1}
    Kind <- OneContainer
    Deployment <- AllInContainers
    Disabled = {}
    Timed = {}
    MaxThreads = 1
    MaxCrashes = 0
    InspectMayFail = FALSE
    RmMayFail = FALSE
    DbMayFail = FALSE
    TxMayFail = FALSE
PROPERTY ReconcilesOnlyStale
