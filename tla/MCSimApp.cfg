CONSTANTS
    LEVELS = 3
    FIELDS = 4
    VPN_BIT_STEP = 1
    PPN_SIZE = 64
    TABLE_BEGIN = 0
    TABLE_END = 5
    PAGE_SIZE = 4
    INT_SIZE = 2
    STACK_BASE = 16
    STACK_SIZE = 2
    NDEBUG = FALSE
    Elfs <- MCFewElfs
    MainElfs <- MCElfs
    MAX_CALLS = 3
SPECIFICATION Spec
INVARIANTS
    LoaderTypeOK
    ImagesIntact
    FramesPrivate
    MappingAgrees
    GuestSeesLoader
    GuestRunsLoaded
PROPERTIES
    LoadsEnd
    MainEnds
CHECK_DEADLOCK FALSE
