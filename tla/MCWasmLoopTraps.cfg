SPECIFICATION Compilation
CONSTANTS
    CaseMatches <- TwoCases
    Families <- TrapFamilies
    MaxIterations = 2
    Types = {"i32"}
    Parameters = {0, 1, 2}
    Memories <- OneMemory
CHECK_DEADLOCK FALSE
INVARIANT UnsafeStaysSelected
