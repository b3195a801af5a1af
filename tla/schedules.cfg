SPECIFICATION FairSpec
CONSTANTS
    Schedules = {1, 2}
    SecretRows = {1, 2}
    Keys = {k1}
    Confs <- Intervals
    Requests = {q1, q2}
    Workers = {w1}
    MaxTime = 3
    MaxRequests = 2
    MaxErrors = 1
INVARIANTS TypeOK NoOverlap
PROPERTIES LastRunKept DueIsServed
ACTION_CONSTRAINT InOrder
