CONSTANTS
    Threads = {t1, t2}
    Edatas = {e1, e2, e3}
    NULL = NULL
    MaxOps = 1
    BatchMax = 2
    RangeWatermark = 2
    Options <- AgesOptions
SPECIFICATION Spec
SYMMETRY Symmetry
INVARIANTS
    AgesDistinct
