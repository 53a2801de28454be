SPECIFICATION Spec
CONSTANTS
    Keys = {k1}
    Requests = {r1, r2, r3}
    KeyOf <- OneKey
    Limits <- TwoLimits
    Tokens = {0, 3}
    Minute = 3
    GcEvery = 1
    IdleTTL = 3
    MaxTime = 6
SYMMETRY AllRequests
CHECK_DEADLOCK FALSE
INVARIANT InFlightIsExact
INVARIANT RequestRateIsBounded
PROPERTY ConcurrencyIsBounded
PROPERTY DebtHoldsWhileAsked
PROPERTY RetryAfterIsEnough
