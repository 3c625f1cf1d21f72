CONSTANTS
    Pages = {p1, p2}
    PAGE_SIZE = 2
    Sizes <- MCSizes
    Byte <- MCByte
    ZeroByte = 0
    PPN_16MB = 1
    ALLOC_FACTOR = 2
    MaxMMaps = 3
SYMMETRY PageSymmetry
SPECIFICATION Spec
INVARIANTS
    TypeOK
    HostPagesDistinct
    NoDanglingHostPage
    HandedOutCurrent
PROPERTIES
    FlatSpec
