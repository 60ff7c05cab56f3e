CONSTANTS
    NPages = 4
    Edatas = {e1, e2, e3}
    NULL = NULL
    Threads = {t1}
    MaxFit = 2
    LargeMin = 2
    Options <- FaultOptions
SPECIFICATION Spec
SYMMETRY Symmetry
CONSTRAINT BoundedCounters
INVARIANTS
    AllocSound
