SPECIFICATION Spec
CONSTANTS
    NumColumns = 3
    MaxBindable = 20
    Type <- MCType
    Word <- MCWord
INVARIANTS
    SlotsDisjoint
    ReadsWhatDriverWrote
    RebindRestores
    AssignStaysInSlot
    RowRoundTrip
    BulkFetchMeansBound
CHECK_DEADLOCK FALSE
