SPECIFICATION Spec
CONSTANTS
    RawDocuments <- SomeDocuments
    Bodies <- SomeBodies
    Surfaces <- AllSurfaces
    Known = {"own", "vendor"}
INVARIANTS
    AdmittedIsGranted
    RefusalHasACause
    ModelsRouteAgrees
CHECK_DEADLOCK FALSE
