SPECIFICATION Compilation
CONSTANTS
    CaseMatches <- TwoCases
    Families <- EventFamilies
    MaxIterations = 2
    Types = {"i32"}
    Parameters = {0, 1, 2}
    Memories <- OneMemory
CHECK_DEADLOCK FALSE
INVARIANT SameBehaviour
INVARIANT NoInterference
INVARIANT NoLocalWasted
INVARIANT UsesAreServed
INVARIANT NoExtraLoads
INVARIANT SharingIsInvisible
