SPECIFICATION Spec
CONSTANTS
    c1 = c1
    c2 = c2
    c3 = c3
    x = x
    y = y
    z = z
    Calls <- MCCalls
    Texts <- MCTexts
    Prefix <- MCPrefix
    Scenarios <- MCScenarios
    MaxSize = 1
    TTL = 1
    MaxTime = 2
    BatchSize = 1
    MaxCrashes = 1
    NoVector = NoVector
    Missing = Missing
    Torn = Torn
INVARIANTS
    OwnVectorInOrder
    SizeBounded
    RaisesOnlyWhenRaced
    UndisturbedSaveRestores
