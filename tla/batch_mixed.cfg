SPECIFICATION Spec
CONSTANTS
    w1 = w1
    w2 = w2
    NoWorker = NoWorker
    Runs = {1, 2}
    Workers = {w1, w2}
    Kind <- AnyAndLocal
    Deployment <- SecondIsLocal
    Disabled = {}
    Timed = {1, 2}
    MaxThreads = 1
    MaxCrashes = 2
    InspectMayFail = TRUE
    RmMayFail = TRUE
    DbMayFail = TRUE
    TxMayFail = TRUE
INVARIANT CompletedIsTrue
PROPERTY TerminalFinal
