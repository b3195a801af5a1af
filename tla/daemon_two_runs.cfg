SPECIFICATION Spec
CONSTANTS
    p1 = p1
    p2 = p2
    NoPackage = NoPackage
    Packages = {p1}
    AutoStart = {p1}
    Policy <- AllOnFailure
    MaxRestarts = 1
    MaxRuns = 2
    MaxContainers = 3
    MaxSubmissions = 0
    MaxCrashes = 0
    StartMayFail = FALSE
    InspectMayFail = FALSE
    RmMayFail = FALSE
    DbMayFail = FALSE
INVARIANTS
    OneActiveRun
