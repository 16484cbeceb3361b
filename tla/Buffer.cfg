SPECIFICATION Spec
CONSTANTS
    Base = 4
    Sizes = {0, 5, 8}
    Items <- SomeItems
    Offsets <- SomeOffsets
    MaxBufs = 2
    MaxCalls = 2
INVARIANTS
    ReadsWhatWasWritten
    CopyAsIfDetached
    FillRepeats
    IndexOfIsExact
CHECK_DEADLOCK FALSE
