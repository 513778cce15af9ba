SPECIFICATION Spec
CHECK_DEADLOCK FALSE
CONSTANTS
    Numbers = {"1"}
    Operators = {"-", "/"}
    LowBytes = {"NUL", " ", "-", "("}
    Slacks = {0, 23}
    MaxTokens = 7
    Lines = {"x", "y"}
    MaxLines = 5
    MaxArgs = 3
    NoLine = "empty"
    DiffLines = {"x", "y"}
    MaxText = 5
    LEN = 5
    Unset = "unset"
    Letters = {"a", "b"}
    Numerals = {"1"}
    MaxGrep = 4
    BufSize = 4
    MaxFds = 4
    MaxEntries = 6
    Bits = 4
    FieldLists <- MCFieldLists
    CutLines <- MCCutLines
    MaxOptions = 2
    IntMax = 2147483647
    LongMax = 2147483647
    ReadMax = 40
    RespChars <- MCRespChars
    Messages <- MCMessages
    Earlier <- MCEarlier
    Keys <- MCKeys
    Values <- MCValues
    MaxCask = 1
    HeaderSize = 2
    ItemSize = 8
    MaxAppends = 2
    MaxSets = 2
    NULL = NULL
INVARIANTS CalculatorCorrect UniqCorrect LcsCorrect GrepCorrect CutCorrect RespCorrect ValueAtPos SaveLoadRoundTrip
PROPERTIES LoadInventsNothing
