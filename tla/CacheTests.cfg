SPECIFICATION TestSpec
CONSTANTS
    Tasks = {t1}
    t1 = t1
    Names <- TestNames
    Default = "_____WINTERJS_DEFAULT_CACHE_____"
    Infos <- TestInfos
    Responses <- TestResponses
    Network <- TestAnswers
    MaxBatch = 3
    MaxLists = 40
INVARIANTS
    AssertionsHold
