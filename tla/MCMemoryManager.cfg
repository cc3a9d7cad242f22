SPECIFICATION LiveSpec
CONSTANTS
    t1 = t1
    t2 = t2
    Threads <- TwoThreads
    PageSize = 2
    Total = 6
    SizeMod = 16
    Sizes = {1, 3}
INVARIANTS
    TypeOK
    NoOverlap
    FreeMemoryIsZero
    ListTilesBuffer
PROPERTY
    CallsReturn
