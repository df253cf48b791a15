SPECIFICATION FairSpec
CONSTANTS
    Chunk = 3
    Capacity = 4
    Widths = {1, 2}
    MaxLength = 10
INVARIANTS
    ValueIsWhole
    WritesInsideBuffer
    AssertionsHold
PROPERTIES
    ConstructionEnds
