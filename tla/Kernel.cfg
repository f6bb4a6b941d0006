SPECIFICATION Spec
CONSTANTS
    Align = 2
    Header = 2
    PageSize = 8
    StartSize = 16
    MaxHeap = 24
    Sizes = {0, 1, 4, 7}
    Alignments = {2, 4}
    PtrSize = 2
    NULL = NULL
    MaxTask = 4
    NoTask = NoTask
    FirstDay <- Epoch
    Starts <- CalendarStarts
    WalkDays = 370
    TICKS = 6
    PREEMPT = 4
    BLINK = 3
    TIMEZONE_OFFSET = 7
    RtcDays <- BootDays
    RtcSeconds = {0, 3599, 43199, 61199, 86398, 86399}
    WaitNeeds = {2, 9}
    MaxSeconds = 3
    EPOCHS = 2000000000
    Rows = 3
    MaxChars = 2
    MaxBuffer = 4
    LineCap = 3
    MaxErr = 2
    Messages <- Said
    MaxSerial = 3
    W = 4
    Cells = 11
    Strings <- SmallStrings
    Formats <- SomeFormats
    BufSizes = {0, 1, 3, 6, 20}
INVARIANT HeapSound
INVARIANT CalendarsAgree
 
 
INVARIANT ScreenSound
 
PROPERTY ImplementsList
CHECK_DEADLOCK FALSE
