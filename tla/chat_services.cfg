SPECIFICATION FairSpec
CONSTANTS
    None = None
    Null = Null
    anthropic = anthropic
    ollama = ollama
    w1 = w1
    w2 = w2
    e1 = e1
    e2 = e2
    search = search
    t1 = t1
    Providers = {1, 2}
    Names = {anthropic, ollama}
    NeedsKey = {anthropic}
    Stored = {1}
    FirstName <- OneAnthropic
    Earlier = 2
    Writers = {w1, w2}
    MaxWrites = 4
    Tools = {search}
    Registered = {}
    Editors = {e1, e2}
    MaxEdits = 2
    Turns = {t1}
    MaxTools = 2
    Pools = {1, 3}
    MaxRestarts = 1
    MaxChanges = 4
INVARIANTS
    TypeOK
    NamesDistinctUnlessRaced
    AloneReplaces
    DisabledStays
    AnsweredIsStored
    BarredNotCalled
    FallsBackOnlyWithout
PROPERTY
    TurnsAnswer
CHECK_DEADLOCK FALSE
