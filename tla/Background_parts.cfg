SPECIFICATION Spec
CONSTANTS
    Records = {"b1", "b2", "b3", "b4"}
    Size <- TwoLargeOneSmall
    QueueSize = 2
    MaxBytes = 2
    Batch = 2
    BatchCapBytes = 3
    MaxOffers = 2
    Upstreams = {"A", "B", "C"}
    Configured = {"A", "B"}
    Interval = 4
    MaxMoves = 3
    MaxTime = 12
    o1 = o1
    o2 = o2
    c1 = c1
    c2 = c2
    Objects = {o1, o2}
    Calls = {c1, c2}
    CacheSizes = {1, 2}
    CacheTTL = 2
    Timeout = 1
    BindBudget = 2
    BindDelays = 1
    MaxNow = 5
SYMMETRY ObjectsAndCalls
INVARIANTS
    BodiesAreAccountedFor
    DueReadBegins
    StaleOwnershipEnds
CHECK_DEADLOCK FALSE
