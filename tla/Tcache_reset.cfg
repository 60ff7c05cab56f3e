SPECIFICATION Spec
CONSTANTS
    NExtents = 3
    LowBits = 8
    NoPtr = NoPtr
    Threads = {1, 2}
    Arenas = {1, 2}
    Options <- ResetOptions
INVARIANTS
    NonfullSlabsExact
