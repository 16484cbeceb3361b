SPECIFICATION Spec
CONSTANTS
    Tasks = {t1, t2}
    t1 = t1
    t2 = t2
    Names = {"default", "v1"}
    Default = "default"
    Infos <- SomeInfos
    Responses <- SomeResponses
    Network <- SomeAnswers
    MaxBatch = 2
    MaxLists = 3
SYMMETRY TaskSymmetry
INVARIANTS
    EntryFound
    StorageWellFormed
PROPERTIES
    DeletedStaysDeleted
    AddAllKeepsItsOwn
    AddAllAllOrNothing
CHECK_DEADLOCK FALSE
