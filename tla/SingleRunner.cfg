SPECIFICATION Spec
CONSTANTS
    MaxThreads = 2
    Workers = {1, 2}
    NoWorker = 0
    Requests = {r1, r2}
    r1 = r1
    r2 = r2
    UserCode = {"failsInit", "throws", "promises", "streams", "errors", "hangs"}
    MayPanic = TRUE
    HasTimeout = TRUE
SYMMETRY RequestSymmetry
INVARIANTS
    InFlightExact
    NothingBehindShutdown
    CleanShutdownServesAll
PROPERTIES
    BusyOnlyWhenFull
    UsesLoopProperly
    ImplementsService
