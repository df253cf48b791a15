SPECIFICATION FairSpec
CONSTANTS
    NumRows = 5
    BufferSize = 2
    SizeMod = 8
    i1 = i1
    i2 = i2
    b1 = b1
    b2 = b2
    b3 = b3
    b4 = b4
    Iterator <- MCIterator
    BufferId <- MCBufferId
    Null = Null
    Absent = Absent
INVARIANTS
    TypeOK
    OneChainFromHead
    OwnedExactlyWhileReachable
    RowsDeliveredOnce
PROPERTIES
    IncrementSkipsNoRow
    LoopsEnd
