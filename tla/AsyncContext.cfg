SPECIFICATION Spec
CONSTANTS
    Keys = {k1, k2}
    k1 = k1
    k2 = k2
    Stores = {s1, s2}
    s1 = s1
    s2 = s2
    Undefined = Undefined
    MaxFrames = 3
    MaxPromises = 2
    MaxCaptured = 1
    MaxDepth = 3
SYMMETRY KeySymmetry
INVARIANTS
    SeesItsContext
    StackUnwound
    ContextKeptForRejections
PROPERTIES
    FramesAreConstant
CHECK_DEADLOCK FALSE
