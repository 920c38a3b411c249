SPECIFICATION Spec
CONSTANTS
    kMaxBlocksPerAllocation = 128
    Inputs <- MCInputs
    Enums <- MCEnums
    EnumName <- MCEnumName
INVARIANTS
    BitTricks
    SizeClasses
    StringTellsValue
