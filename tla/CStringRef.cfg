SPECIFICATION FairSpec
CONSTANTS
    Threads  = {t1, t2, t3}
    Handles  = {h1, h2, h3}
    NoHandle = NoHandle
    RefMod   = 4
INVARIANTS
    NoUseAfterFree
    CountExact
    Immortal
PROPERTY
    Reclaimed
CHECK_DEADLOCK FALSE
