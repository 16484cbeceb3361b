SPECIFICATION FairSpec
CONSTANTS
    MaxThreads = 1
    Workers = {1}
    NoWorker = 0
    Requests = {r1, r2}
    r1 = r1
    r2 = r2
    UserCode = {"failsInit", "throws", "promises", "streams", "errors", "hangs"}
    MayPanic = TRUE
    HasTimeout = TRUE
PROPERTIES
    LockReached
    CtrlCExits
