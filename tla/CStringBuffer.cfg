SPECIFICATION Spec
CONSTANTS
    Buffers = {b1, b2}
    Handles = {h1, h2}
    InternSize = 2
    StackSize  = 3
    RefMod     = 3
    MaxText    = 3
    MaxBlocks  = 2
    NoText = NoText
    NULL   = NULL
    STACK  = STACK
SYMMETRY Symmetry
INVARIANTS
    NoDangling
    CountsUses
    EqualComparesTexts
PROPERTY
    ValueSemantics
CHECK_DEADLOCK FALSE
