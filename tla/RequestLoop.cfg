SPECIFICATION FairLoopSpec
CONSTANTS
    Workers = {w1}
    w1 = w1
    Requests = {r1, r2, r3}
    r1 = r1
    r2 = r2
    r3 = r3
    NoWorker = NoWorker
    UserCode = {"failsInit", "throws", "promises", "streams", "errors", "hangs"}
    MayPanic = TRUE
INVARIANTS
    TypeOK
    SenderUsedOnce
    NoLostRequest
PROPERTIES
    UnresolvableIsPending
    TerminateObeyed
CHECK_DEADLOCK FALSE
