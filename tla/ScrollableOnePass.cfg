SPECIFICATION FairSpec
CONSTANTS
    NumRows = 30
    NumColumns = 2
    BufferSize = 4
    i1 = i1
    i2 = i2
    Iterator <- OneIterator
    MayFail = FALSE
    MaxStray = 0
    Null = Null
    Absent = Absent
INVARIANTS
    ValueFromOneRow
PROPERTIES
    ImplementsMultipassRange
