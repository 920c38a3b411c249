SPECIFICATION ParseSpec
CHECK_DEADLOCK FALSE
CONSTANTS
    Types <- MCTypes
    base = 2
    bit_per_u64 = 2
    Digits <- MCDigits
    Hyphen = "-"
    Separators <- MCSeparators
    DigitValue <- MCDigitValue
    MaxLen = 6
INVARIANT ArrayIsInteger
PROPERTY OnlyTheArray
