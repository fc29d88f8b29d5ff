SPECIFICATION Spec
CONSTANTS
    PageSize = 4
    PageCount = 3
    Request <- MCRequest
    HostEntry <- MCEntry
INVARIANTS
    CacheCoherent
    WalkInsideRange
PROPERTY
    BytewiseAccess
VIEW MCView
