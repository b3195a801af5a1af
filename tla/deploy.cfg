SPECIFICATION FairSpec
CONSTANTS
    a = a
    b = b
    post = post
    h1 = h1
    h2 = h2
    r1 = r1
    None = None
    Root = Root
    Packages = {a, b}
    Files = {1, 2, 3}
    Posts = {post}
    Handlers = {h1, h2}
    Runs = {r1}
    Of <- TwoPackages
    Action <- TwoActions
    Mode <- TwoModes
    Nested = {3}
    Deployed = {3}
    Copied = {1}
    MaxFaults = 1
INVARIANTS
    TypeOK
    ArchivedIsServed
    SettledRunsServe
PROPERTIES
    NewNeverReplaces
    EveryDropEnds
CHECK_DEADLOCK FALSE
