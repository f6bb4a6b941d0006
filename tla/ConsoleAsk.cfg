SPECIFICATION ConsoleFairSpec
CONSTANTS
    Char = {"NUL", "NL", "BS", "ETX", "c", "C", "s", "S", "1", "!"}
    NUL = "NUL"
    Size = 2
    Keys = {"KEY_1", "KEY_ENTER"}
    LineSize = 2
    AnswerSize = 2
    Ends = {"asks"}
PROPERTY AnswerArrives
CHECK_DEADLOCK FALSE
