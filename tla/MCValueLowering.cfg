SPECIFICATION Spec
CONSTANTS
    Narrow = {1, 4}
    I32 = 8
    I64 = 16
    Families <- AllFamilies
CHECK_DEADLOCK FALSE
INVARIANT TypeOK
INVARIANT SimplificationKeepsValue
INVARIANT LoweringIsExact
INVARIANT LowBitsAreExact
INVARIANT UsesAreExact
