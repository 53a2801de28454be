SPECIFICATION Spec
CONSTANTS
    Requests = {r1, r2}
    Surfaces = {"chat", "messages", "rerank", "imageModels"}
    Documents <- SomeDocuments
    Sizes <- SomeSizes
    MaxGeneration = 2
SYMMETRY AllRequests
INVARIANTS
    AccountedOnce
    OneDocument
    BilledIsPriced
PROPERTIES
    PoolsImplemented
CHECK_DEADLOCK FALSE
