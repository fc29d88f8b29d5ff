CONSTANTS
    Byte <- MCByte
    Value = {0, 1}
    Channel <- MCChannel
    Extent <- MCExtent
    Semantics = "shipped"
    MaxArms = 1
    MaxIterations = 1
    MaxScopes = 2
    MaxAccesses = 4
    Programs = "any"
SPECIFICATION StructuredSpec
VIEW MCView
CONSTRAINT MCStart
PROPERTY LoopReadsAreCurrent
