SPECIFICATION StatementSpec
CONSTANTS
    r1 = r1
    n1 = n1
    n2 = n2
    Row <- MCRow
    NewRow <- MCNewRow
    BufferSize = 1
    MaxDeletes = 1
    MaxParams = 2
    MaxColumns = 2
INVARIANTS
    StatementTypeOK
    EachInsertOnce
    InsertsUseColumns
    NoStaleParameter
    OwnColumnsOnly
    FreshCursorCounts
PROPERTIES
    InsertsWaitForDeletes
