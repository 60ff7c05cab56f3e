SPECIFICATION FairSpec
CONSTANTS
    NExtents = 3
    LowBits = 8
    NoPtr = NoPtr
    Threads = {1, 2}
    Arenas = {1, 2}
    Options <- CacheOptions
INVARIANTS
    RegionOneOwner
    SlabsSound
    CacheBinSound
PROPERTIES
    CallsReturn
