CONSTANTS
    INT_BITS = 8
    BYTE_BITS = 1
    COUNT_BITS = 6
    SHIFT_HI = 2
    SHIFTW_HI = 1
    GPR_NUMBER = 3
    Decode <- MCDecode
    Lefts <- MCLefts
    Rights <- MCRights
    Pcs = {0, 248}
SPECIFICATION RefSpec
INVARIANTS
    AuipcFollowsManual
CHECK_DEADLOCK FALSE
