SPECIFICATION FairSpec
CONSTANTS
    Workers = {w1}
    w1 = w1
    Requests = {r1, r2}
    r1 = r1
    r2 = r2
    NoWorker = NoWorker
    UserCode = {"failsInit", "throws", "promises", "streams", "errors", "hangs"}
    MayPanic = FALSE
    HasTimeout = TRUE
INVARIANTS
    CleanShutdownServesEarly
PROPERTIES
    ImplementsService
    CtrlCExits
