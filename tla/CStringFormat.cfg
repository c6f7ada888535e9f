SPECIFICATION FairSpec
CONSTANTS
    Threads = {t1, t2}
    Blocks  = {b1, b2, b3, b4, b5}
    NULL    = NULL
    MaxLen  = 2
INVARIANTS
    ScratchExclusive
    OwnText
    NothingLeaks
PROPERTY
    CallsReturn
