CHECK_DEADLOCK FALSE
SPECIFICATION Spec
CONSTANTS
    Threads = {t1}
    Keys = {k1}
    Buckets = {b1}
    Hash <- MCHash
    Addr = {a1}
    IntMin = 0
    IntMax = 2
    Words = {w}
    Inputs = {1}
    Expiries = {0, 2}
    MaxTime = 2
    Commands = {"SET", "GET", "INCR", "DEL"}
    OutOfMemory = {}
    IncrExpires = TRUE
    NULL = NULL
    Junk = Junk
    Err = Err
PROPERTIES Linearizable
