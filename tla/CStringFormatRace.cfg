SPECIFICATION Spec
CONSTANTS
    Threads = {t1, t2, t3}
    Blocks  = {b1, b2, b3, b4}
    NULL    = NULL
    MaxLen  = 0
INVARIANT
    ScratchExclusive
CHECK_DEADLOCK FALSE
