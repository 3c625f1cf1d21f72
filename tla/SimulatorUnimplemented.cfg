CONSTANTS
    INT_BITS = 8
    BYTE_BITS = 1
    COUNT_BITS = 6
    SHIFT_HI = 2
    SHIFTW_HI = 1
    GPR_NUMBER = 2
    Decode <- MCDecodeUnimplemented
    PAGE_SIZE = 8
    InitialSpace <- MCSpaceHole
    ICOUNT_SIZE = 2
    InitialMems <- MCFewMems
    InitialGprs <- MCGprs
    StartPcs <- MCStartPcs
    HostWrites <- Nothing
    HostMaps <- Nothing
    HostPages <- Nothing
    MAX_SIZE = 3
    BB_CACHE_SIZE = 2
    TLB_SIZE = 2
    INVALID_VA = 256
SPECIFICATION Spec
PROPERTIES
    UnimplementedReported
CHECK_DEADLOCK FALSE
