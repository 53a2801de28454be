SPECIFICATION FairSpec
CONSTANTS
    Events = {e1, e2}
    MaxDay = 1
    MaxInodes = 2
    MaxLate = 1
    Retentions = {0, 1}
    BatchSize = 2
    MaxCrashes <- OneCrash
    MaxIncidents <- FewerIfPruned
    TornWrites = TRUE
    PushSettings <- OnOrOff
PROPERTIES
    SpooledIsSettled
    OldDayIsDeleted
CHECK_DEADLOCK FALSE
