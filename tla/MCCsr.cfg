CONSTANTS
    INT_BITS = 17
    XLEN = 18
    Layout <- MCLayout
    OtherIdxs <- MCOther
    RawValues <- MCRawValues
    SetValues <- MCSetValues
SPECIFICATION Spec
INVARIANTS
    TypeOK
    ReadsTheFields
    EnumsStayLegal
