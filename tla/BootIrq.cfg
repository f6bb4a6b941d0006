SPECIFICATION Spec
CONSTANTS
    Disks = {"sata"}
    DiskSectors = 12
    FIRST_LBA = 4
    GPT_TABLE = 2
    U32 = 16
    MAX_BLOCK_DEVS = 3
    MAX_PARTITIONS = 9
    PartSizes = {2, 7}
    MaxPartOps = 4
    SECTOR_SIZE = 3
    CHUNK = 1
    WRAP = 3
    READY_MS = 1
    COMMAND_MS = 2
    AhciSlots = 2
    AhciTotal = 8
    AhciCounts = {1, 5}
    MaxAhciReqs = 3
    MAX_PER_OP = 2
    LBA28 = 4
    IdeTotal = 6
    IdeCounts = {1, 2, 3}
    MaxIdeReqs = 2
    Char = {"NUL", "NL", "BS", "ETX", "c", "C", "s", "S", "1", "!"}
    NUL = "NUL"
    Size = 3
    Keys = {"KEY_S", "KEY_1", "KEY_ENTER", "KEY_BACKSPACE"}
    LineSize = 4
    AnswerSize = 3
    Ends = {"returns", "usage", "asks"}
    Machines <- IdeBoards
    MAX_CPUS = 4
    MAX_GSI = 32
    Spaces <- SomeSpaces
    REG = 256
    MaxEnables = 3
    UsbBuses <- SomeBuses
    ENTRIES = 3
    Memory = 18
    HeapFirst = 9
    HeapLast = 12
    MaxPages = 2
    MaxGrowths = 2
    FbModes <- SomeModes
    FONT_WIDTH = 4
    FONT_HEIGHT = 4
    Glyphs <- Font
    FbClips <- SomeClips
    FbCalls <- Figures
    PanicText <- StopText
    MaxDraws = 1
INVARIANT EveryInterruptHandled
CHECK_DEADLOCK FALSE
