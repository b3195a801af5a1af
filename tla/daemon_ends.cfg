SPECIFICATION Spec
CONSTANTS
    p1 = p1
    p2 = p2
    NoPackage = NoPackage
    Packages = {p1}
    AutoStart = {p1}
    Policy <- AllOnFailure
    MaxRestarts = 1
    MaxRuns = 2
    MaxContainers = 2
    MaxSubmissions = 1
    MaxCrashes = 0
    StartMayFail = TRUE
    InspectMayFail = TRUE
    RmMayFail = FALSE
    DbMayFail = TRUE
INVARIANTS
    TypeOK
    EndedIsDead
