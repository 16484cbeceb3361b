SPECIFICATION Spec
CONSTANTS
    Callbacks = {f1, f2}
    f1 = f1
    f2 = f2
    Signals = {sig}
    sig = sig
    NoSignal = NoSignal
    Types = {"ping"}
    Events = {ev}
    ev = ev
    TypeOf <- OneType
    Captures = {"false"}
    MaxDepth = 3
SYMMETRY CallbackSymmetry
INVARIANTS
    CalledOnce
    CalledInOrder
CHECK_DEADLOCK FALSE
