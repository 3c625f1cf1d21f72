CONSTANTS
    LEVELS = 3
    FIELDS = 4
    VPN_BIT_STEP = 1
    PPN_SIZE = 8
    NDEBUG = FALSE
    Memories <- MCMemories
    Roots = {0, 5}
    Requests <- MCRequests
SPECIFICATION Spec
INVARIANTS
    TypeOK
    TranslateMatchesReference
PROPERTIES
    WalkEnds
