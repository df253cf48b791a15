SPECIFICATION FairSpec
CONSTANTS
    NumRows = 5
    NumColumns = 2
    BufferSize = 2
    i1 = i1
    i2 = i2
    Iterator <- TwoIterators
    MayFail = FALSE
    MaxStray = 0
    Null = Null
    Absent = Absent
PROPERTIES
    EndsBehindLastRow
