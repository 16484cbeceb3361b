SPECIFICATION LoopSpec
CONSTANTS
    Workers = {w1}
    w1 = w1
    Requests = {r1, r2}
    r1 = r1
    r2 = r2
    NoWorker = NoWorker
    UserCode = {"promises", "errors"}
    MayPanic = FALSE
INVARIANTS
    NoPendingOnEmptyLoop
CHECK_DEADLOCK FALSE
