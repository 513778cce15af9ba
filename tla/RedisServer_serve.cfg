SPECIFICATION FairSpec
CONSTANTS
    k1 = k1
    k2 = k2
    w = w
    Threads = {c1, c2}
    Keys = {k1, k2}
    IntMin = 0
    IntMax = 1
    Words = {w, Cut}
    Inputs = {1, w}
    Expiries = {0}
    MaxTime = 2
    MayFail = FALSE
    MayBreak = FALSE
    IncrExpires = FALSE
    NULL = NULL
    Err = Err
    Requests <- MCAllRequests
    MaxSent = 2
    Second = 2
    Word64 = 64
    Segments = {2}
    Impatient = FALSE
    Cut = Cut
CHECK_DEADLOCK FALSE
INVARIANTS RepliesMatch
PROPERTIES RequestsAnswered
