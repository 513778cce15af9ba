SPECIFICATION FairSpec
CHECK_DEADLOCK FALSE
CONSTANTS
    N = 2
    Clients = {c1, c2}
    MaxFaults = 1
    None = None
    Browsers = {b1, b2}
    Scripts <- MCScripts
    Junk = Junk
    NoReply = NoReply
    MaxSegments = 3
    PipeSize = 1
    Output = 2
    MayFail = TRUE
    Words = {"source", "|", "cd"}
    Dirs = {"home", "source"}
    Home = "home"
    Saved <- MCSaved
    LineSize = 5
    FdLimits = {1, 8}
    MaxKeys = 4
    NULL = NULL
INVARIANTS AnsweredByTurn OwnPath TerminalRestored DraftKept HistoryComplete
PROPERTIES ForkRotation ConnectionCloses WebAnswers NothingLeftBehind EofIsFinal PromptReturns
