CONSTANTS
    Width = {8, 16}
    Operand <- MCOperand
    Amount <- MCAmount
SPECIFICATION Spec
CHECK_DEADLOCK FALSE
INVARIANTS
    FlagsAreArithmetic
    ShiftsBitByBit
    RotatesBitByBit
    ConditionsAreComparisons
