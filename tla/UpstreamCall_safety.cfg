SPECIFICATION Spec
CONSTANTS
    Calls = {c1, c2}
    Refs = {a, b}
    NoRef = NoRef
    Configured = {a, b}
    Outcomes <- OneOfEachKind
    UpstreamRetries = 1
    CoolingFailures = 2
SYMMETRY CallSymmetry
INVARIANTS
    UndisturbedNeverResends
    UndisturbedTriesEvery
    AttemptsAreBounded
CHECK_DEADLOCK FALSE
