SPECIFICATION Spec
CONSTANTS
    Calls = {c1, c2}
    Refs = {a, b}
    NoRef = NoRef
    Configured = {a, b}
    Outcomes <- OneOfEachKind
    UpstreamRetries = 1
    CoolingFailures = 2
SYMMETRY CallSymmetry
INVARIANT TimeoutIsNeverResent
CHECK_DEADLOCK FALSE
