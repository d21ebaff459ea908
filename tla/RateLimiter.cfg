SPECIFICATION Spec
CONSTANTS
    k1 = k1
    k2 = k2
    Keys <- MCKeys
    HeavyRpm = 1
    LightRpm = 2
    Window = 2
    MaxTime = 5
SYMMETRY MCSymmetry
INVARIANTS
    TypeOK
    WindowBound
    RefusedOnlyAtLimit
    LogIsRecent
    DequeBounded
