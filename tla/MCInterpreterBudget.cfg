SPECIFICATION Spec
CONSTANTS
    AddressCount = 3
    InstructionLengthLimit = 2
    MaximumUnprefixed = 2
    HalfModulus = 4
    Encoding <- BudgetEncoding
    Mapping <- BudgetMapping
INVARIANT DeadlineAhead
PROPERTY EveryRunStops
