SPECIFICATION FairSpec
CONSTANTS
    k1 = k1
    k2 = k2
    w = w
    Threads = {c1}
    Keys = {k1, k2}
    IntMin = 0
    IntMax = 1
    Words = {w, Cut}
    Inputs = {1, w}
    Expiries = {0}
    MaxTime = 2
    MayFail = TRUE
    MayBreak = FALSE
    IncrExpires = FALSE
    NULL = NULL
    Err = Err
    Requests <- MCFewRequests
    MaxSent = 3
    Second = 2
    Word64 = 64
    Segments = {1, 2, 3}
    Impatient = TRUE
    Cut = Cut
CHECK_DEADLOCK FALSE
PROPERTIES DescriptorReleased
