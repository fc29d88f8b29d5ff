CONSTANTS
    Byte <- MCByte
    Value = {0, 1}
    Channel <- MCChannel
    Extent <- MCExtent
    Semantics = "shipped"
    MaxArms = 1
    MaxIterations = 2
    MaxScopes = 2
    MaxAccesses = 4
    Programs = "aligned"
SPECIFICATION StructuredSpec
VIEW MCView
CONSTRAINT MCStart
INVARIANTS
    StructuredTypeOK
    Coherent
    BoundaryRestoresStart
    FaultsAreRestorable
PROPERTY RegisterTransaction
