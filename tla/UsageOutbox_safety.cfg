SPECIFICATION Spec
CONSTANTS
    Events = {e1, e2}
    MaxDay = 2
    MaxInodes = 2
    MaxLate = 1
    Retentions = {2}
    BatchSize = 2
    MaxCrashes <- OneCrash
    MaxIncidents <- OneCrashForAll
    TornWrites = TRUE
    PushSettings <- OnlyOn
SYMMETRY EventSymmetry
INVARIANTS
    TypeOK
    SpooledIsAccountedFor
    ShippedIsConfirmed
PROPERTIES
    OutboxImplemented
CHECK_DEADLOCK FALSE
