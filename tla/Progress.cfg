CONSTANTS
    t1 = t1
    t2 = t2
    ProgKinds = {"sec", "bg", "ckh", "dss", "boot"}
    Threads = {t1, t2}
    NShards = 2
    NSizes = 1
    Extents = {e1, e2}
    SizeOf <- OneSize
    Pinned = {e2}
    MaxBytes = 1
    MaxFill = 2
    Trim = TRUE
    Nobody = Nobody
    BgApps = {"p", "q"}
    BgOptions <- SomeBgs
    narenas_auto = 2
    MALLOCX_ARENA_LIMIT = 4
    opt_max_background_threads = 2
    CkhKeys = {1, 2, 3, 4, 5}
    CkhHashes <- SomeHashes
    minitems = 1
    LG_CKH_BUCKET_CELLS = 1
    CkhMaxLg = 2
    DssThreads = {"p", "q"}
    DssPage = 2
    DssBase = 3
    DssLimit = 11
    DssWord = 12
    DssRequests <- SomeSpans
    DssRawSizes = {1, 2}
    DssMaxRaw = 1
    DssEdatas = 2
    BootThreads = {"p", "q", "r"}
    BootOptions <- SomeBoots
    ARENA_LIMIT = 6
    FXP_UNIT = 2
    PERCPU_ARENA_MAX_CPUS = 6
SPECIFICATION ProgSpec
INVARIANTS
    BytesExact
    BytesBounded
    
    SecApart
    
    
    DssApart
    BootSound
PROPERTIES
    CkhIsKeySet
    
CHECK_DEADLOCK FALSE
