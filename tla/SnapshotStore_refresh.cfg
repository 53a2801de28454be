SPECIFICATION FairSpec
CONSTANTS
    Sources <- BothSources
    MaxGen = 2
    MaxRev = 3
    MaxCrashes = 1
    DiskMayFail = TRUE
    AllowReset <- SomeReset
INVARIANTS
    TypeOK
    ServedAboveSidecar
    RollbackNeedsALostWrite
    CacheWasApplied
    CacheStarts
    RejectionStaysVisible
PROPERTY NewDocumentIsServed
