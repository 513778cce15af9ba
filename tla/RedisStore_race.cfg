SPECIFICATION Spec
CONSTANTS
    Threads = {t1, t2}
    Keys = {k1, k2}
    Buckets = {b1}
    Hash <- MCHash
    Addr = {a1, a2}
    IntMin = 0
    IntMax = 1
    Words = {w}
    Inputs = {w}
    Expiries = {0, 2}
    MaxTime = 2
    Commands = {"SET", "GET", "INCR", "DEL"}
    OutOfMemory = {}
    IncrExpires = FALSE
    NULL = NULL
    Junk = Junk
    Err = Err
INVARIANTS MemorySafe
