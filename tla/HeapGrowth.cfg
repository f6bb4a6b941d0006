SPECIFICATION PagingSpec
CONSTANTS
    ENTRIES = 3
    Memory = 18
    HeapFirst = 9
    HeapLast = 12
    MaxPages = 2
    MaxGrowths = 2
INVARIANT GrowthIsBacked
CHECK_DEADLOCK FALSE
