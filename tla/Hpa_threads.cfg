CONSTANTS
    Threads = {t1, t2}
    Edatas = {e1, e2, e3}
    NULL = NULL
    MaxOps = 1
    BatchMax = 2
    RangeWatermark = 2
    Options <- ThreadOptions
SPECIFICATION Spec
SYMMETRY Symmetry
INVARIANTS
    ExtentsExact
    PurgeSound
    GrowthServes
    DestroyComplete
    PssetSound

