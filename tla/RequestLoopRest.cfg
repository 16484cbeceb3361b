SPECIFICATION RestingLoopSpec
CONSTANTS
    Workers = {w1}
    w1 = w1
    Requests = {r1, r2}
    r1 = r1
    r2 = r2
    NoWorker = NoWorker
    UserCode = {"failsInit", "throws", "promises", "streams"}
    MayPanic = FALSE
INVARIANTS
    NoPendingOnEmptyLoop
PROPERTIES
    EveryRequestAnswered
    ShutdownEnds
CHECK_DEADLOCK FALSE
