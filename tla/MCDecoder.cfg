CONSTANTS
    INT_BITS = 32
    Fields <- MCFields
    Instructions <- MCInstructions
    Tree <- MCTree
    Format <- MCFormat
    Codes <- MCCodes
    LooseIds <- MCLooseIds
SPECIFICATION DecoderSpec
INVARIANTS
    InstrTypeOK
    ValidCodesDecoded
    OnlyValidCodesDecoded
CHECK_DEADLOCK FALSE
