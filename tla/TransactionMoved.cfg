SPECIFICATION Spec
CONSTANTS
    s1 = s1
    s2 = s2
    s3 = s3
    w1 = w1
    w2 = w2
    Scope <- MCScope
    Work <- MCWork
    NoScope = NoScope
SYMMETRY Symmetry
INVARIANTS
    EndFindsTransactionOpen
