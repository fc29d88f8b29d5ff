CONSTANTS
    Flag <- MCFlag
    Cleared = {"OF"}
    Undefined = {}
    Operand = {0, 1}
    Derived <- MCDerived
    Condition <- MCCondition
    Truth <- MCTruth
    Reads <- MCReads
    Direct <- MCDirect
SPECIFICATION Spec
VIEW MCView
INVARIANTS
    TypeOK
    BackingsMatchRecord
    BoundaryRestoresFlags
    DefaultArmIsInvisible
PROPERTY EagerFlags
