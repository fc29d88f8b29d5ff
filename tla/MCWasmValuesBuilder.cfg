SPECIFICATION Spec
CONSTANTS
    Narrow = {1, 2}
    I32 = 4
    I64 = 8
    Type = {4, 8}
    Samples <- MCSamples
    Declared <- MCDeclared
    Index = {1}
    MaxValues = 3
CHECK_DEADLOCK FALSE
INVARIANT TypeOK
INVARIANT RequiredBitsSuffice
INVARIANT SpeculationIsSafe
