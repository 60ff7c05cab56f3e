CONSTANTS
    thr1 = thr1
    thr2 = thr2
    RbNodes = 6
    RbPrecise = FALSE
    PhNodes = 5
    PhMaxAux = 5
    max_visit_num = 4
    max_queue_size = 4
    LG_BITMAP_GROUP_NBITS = 1
    BitmapSizes = {3, 5, 7}
    FB_GROUP_BITS = 2
    FbBits = 4
    WordBytes = 2
    Words <- SomeWords
    LG_PAGE = 6
    LG_QUANTUM = 4
    SC_LG_TINY_MIN = 3
    SC_LG_NGROUP = 2
    SC_LG_MAX_LOOKUP = 7
    SzRequests <- SomeSizes
    SlabUpdates <- SomeUpdates
    SMOOTHSTEP_NSTEPS = 5
    SMOOTHSTEP_BFP = 4
    h_steps <- Smooth
    NsPerMs = 5
    NsMax = 1000
    DecayMs <- DecayTimes
    TimerScales = {1, 2}
    MaxClock = 3
    MaxPages = 2
    RtThreads = {thr1, thr2}
    RtOptions <- KeysByThread
    RtMetas = {1}
    RtStates = {2}
    RTREE_HEIGHT = 3
    RTREE_NSB = 3
    RTREE_CTX_NCACHE = 1
    RTREE_CTX_NCACHE_L2 = 2
    RtCompact = TRUE
    BsThreads = {thr1, thr2}
    BsRequests <- SomeRequests
    BsClasses = {1, 2, 3, 4, 5, 6, 7, 8, 10, 12, 14, 16, 20, 24, 28, 32}
    BsHeader = 2
    BsPage = 4
    BsHugepage = 8
    BsPsizes <- PageClasses
    BsBaseSize = 3
    BsEdataSize = 2
    BsMaxBlocks = 2
    BsOptions <- BaseOptions
    BASE_BLOCK_GROWTH_MAX = 8
    BASE_AUTO_THP_THRESHOLD = 2
    BASE_AUTO_THP_THRESHOLD_A0 = 2
    SIZEOF_PTR = 8
    CACHELINE = 16
    EntRequests <- SomeAsks
    EntResizes <- SomeResizes
    EntOptions <- EntryOptions
    TeWords = 16
    TE_LOOKUP_MAXCLASS = 2
    TE_MAX_INTERVAL = 4
    BuiltinWaits <- Waits
    TE_MAX_USER_EVENTS = 1
    TSD_MIN_INIT_STATE_MAX_FETCHED = 3
    PTHREAD_DESTRUCTOR_ITERATIONS = 2
    TsdOptions <- ThreadOptions
    CfInputs <- SomeInputs
    CfNumbers <- SomeNumbers
    UINTMAX_BITS = 8
    UNSIGNED_BITS = 4
    CfMin = 1
    CfMax = 5
    OutOptions <- OutputOptions
    OutMaxCalls = 6
    OutMaxDepth = 3
    OutMaxRows = 3
    OutPiped = 4
    CtNames <- SomeNames
    CtAuto = 2
    CtMaxArenas = 4
    CtMaxAllocs = 2
    CTL_MAX_DEPTH = 4
SPECIFICATION Spec
INVARIANTS
    TreesSound
    
    SizeClassesAgree
    DecayBounded
    
    
    
    
    
    CtlSound
PROPERTIES
    PhIsQueue
CHECK_DEADLOCK FALSE
