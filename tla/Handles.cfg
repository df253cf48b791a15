SPECIFICATION FairSpec
CONSTANTS
    e1 = e1
    d1 = d1
    s1 = s1
    Env <- MCEnv
    Dbc <- MCDbc
    Stmt <- MCStmt
    Parent <- MCParent
    Requests <- MCRequests
    LesserTypes <- MCLesserTypes
    RecMax = 7
    RecordLists <- MCRecordLists
INVARIANTS
    TypeOK
    NothingElseLeaks
    NoFreedHandleUsed
    
PROPERTIES
    EveryRecordTold
    CallsEnd
CHECK_DEADLOCK FALSE
