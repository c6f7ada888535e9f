SPECIFICATION MapAlone
CONSTANTS
    TypeError = TypeError
    KeyError  = KeyError
    Objects   = {TypeError, KeyError}
    NoObject  = NoObject
    Filters   <- MCFilters
    MaxDepth  = 3
    MaxFrames = 4
    t1 = t1
    t2 = t2
    m1 = m1
    v1 = v1
    v2 = v2
    NULL = NULL
    Threads   = {t1, t2}
    Starters  = {m1}
    MainData  = m1
    MaxCalls  <- MCMaxCalls
    Keys      <- MCKeys
    Vals      = {v1, v2}
    Less      <- MCLess
    Sources   <- MCSources
PROPERTY
    OthersStay
