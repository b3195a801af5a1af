SPECIFICATION Spec
CONSTANTS
    q1 = q1
    q2 = q2
    s1 = s1
    s2 = s2
    NewRow = NewRow
    Requests = {q1, q2}
    SummaryIds = {s1, s2}
    MaxTurns = 1
    TriggerTurns = 1
    MaxId = 5
SYMMETRY Symmetric
INVARIANTS TypeOK CapBound SummaryOfStored
PROPERTY NewestKept
