SPECIFICATION Spec
CONSTANTS
    r1 = r1
    r2 = r2
    n1 = n1
    n2 = n2
    Row <- MCRow
    NewRow <- MCNewRow
    BufferSize = 2
    MaxDeletes = 2
INVARIANTS
    FetchTellsRowsFetched
