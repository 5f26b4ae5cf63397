SPECIFICATION MemorySpec
CONSTANTS
    Proc = {q1, q2, q3}
    FirstProc = q1
    Third = q3
    Frame = {1, 2, 3, 4, 5, 6, 7}
    NumSlots = 1
    RegionSize = 2
    CountLimit = 3
    Value = {0, 1}
    Zeros = 0
    FileData = 1
    Nothing = Nothing
    HeapLow = 2
    HeapHigh = 14
    PageUnits = 4
    NALLOC = 4
    MaxSize = 6
INVARIANTS
    
    PrivateMemory
    HeapConsistent
CHECK_DEADLOCK FALSE
