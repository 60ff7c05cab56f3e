SPECIFICATION Spec
CONSTANTS
    Threads = {1, 2}
    Bts = {1, 2}
    Objects = {1, 2}
    Tdatas = {1, 2, 3, 4}
    Gctxs = {1, 2, 3, 4}
    Tctxs = {1, 2, 3, 4}
    Nodes = {1, 2, 3, 4}
    NULL = NULL
    Options <- ResetOptions
INVARIANT
    TdataDestroyedOnce
