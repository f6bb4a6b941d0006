SPECIFICATION BootSpec
CONSTANTS
    TotalPages = 13
    ByteBits = 4
    AddrPages = 16
    MaxCount = 3
    LowPages = 1
    HeapStart = 2
    KernelEnd = 3
    TopReserve = 1
    HeapLimit = 6
INVARIANT Accounting
 
INVARIANT ScanFindsLowest
 
