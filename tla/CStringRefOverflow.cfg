SPECIFICATION Spec
CONSTANTS
    Threads  = {t1, t2}
    Handles  = {h1, h2, h3, h4, h5}
    NoHandle = NoHandle
    RefMod   = 4
INVARIANT
    NoUseAfterFree
CHECK_DEADLOCK FALSE
