CONSTANTS
    NPages = 3
    Edatas = {e1, e2, e3}
    NULL = NULL
    Threads = {t1, t2}
    MaxFit = 2
    LargeMin = 2
    Options <- ThreadOptions
SPECIFICATION Spec
SYMMETRY Symmetry
INVARIANTS
    OneOwner
    EmapSound
    FullyCoalesced
    MappedExact
