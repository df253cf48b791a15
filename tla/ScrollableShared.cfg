SPECIFICATION Spec
CONSTANTS
    NumRows = 5
    NumColumns = 2
    BufferSize = 2
    i1 = i1
    i2 = i2
    Iterator <- TwoIterators
    MayFail = TRUE
    MaxStray = 1
    Null = Null
    Absent = Absent
INVARIANTS
    TypeOK
    PosTellsDriverPosition
    BufferHoldsItsRows
PROPERTIES
    IncrementReachesNextRow
