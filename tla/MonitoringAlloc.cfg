CONSTANTS
    NULL = NULL
    Address = {a1, a2, a3, a4}
    MAX_ALLOCATIONS = 3
    MAX_TOTAL_ALLOCATION_SIZE = 10
    SizeMod = 256
    IntMod = 64
    Size = {0, 2, 3, 4, 6, 8, 10, 250, 255}
    MaxDrift = 3
    Length <- MCLength
    Chars <- MCChars
SPECIFICATION ProgramSpec
INVARIANTS
    TableMatchesHeap
    CounterMatchesTable
    SizeMatchesHeap
    LimitHolds
    PointersAreValid
