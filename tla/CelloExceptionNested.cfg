SPECIFICATION FairSpec
CONSTANTS
    Objects   = {TypeError, KeyError}
    NoObject  = NoObject
    Filters   = {{}, {TypeError}, {TypeError, KeyError}}
    MaxDepth  = 3
    MaxFrames = 4
INVARIANT
    HandledOnce
CHECK_DEADLOCK FALSE
