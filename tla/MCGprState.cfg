CONSTANTS
    Byte <- MCByte
    Value = {v0, v1}
    Channel <- MCChannel
    Extent <- MCExtent
    Semantics = "shipped"
SPECIFICATION Spec
VIEW MCView
SYMMETRY MCSymmetry
INVARIANTS
    TypeOK
    Coherent
    BoundaryRestoresStart
    FaultsAreRestorable
PROPERTY RegisterTransaction
