SPECIFICATION Spec
CONSTANTS
    Schedules = {1}
    SecretRows = {1, 2}
    Keys = {k1}
    Confs <- Intervals
    Requests = {q1}
    Workers = {w1}
    MaxTime = 1
    MaxRequests = 3
    MaxErrors = 0
INVARIANT BlockedIsMissing
