CONSTANTS
    LEVELS = 3
    FIELDS = 4
    VPN_BIT_STEP = 1
    PPN_SIZE = 8
    NDEBUG = FALSE
    TABLE_BEGIN = 0
    TABLE_END = 4
    DataPages = {4}
    VAs <- MCVAs
    MapPPNs = {0, 4, 5}
    FlagSets <- MCFlagSets
    GuestWords <- MCGuestWords
SPECIFICATION Spec
INVARIANTS
    TypeOK
    TablesFormTree
    TablesProtected
    WalksAreClean
PROPERTIES
    IsAddressSpace
    CallsEnd
