SPECIFICATION Spec
CONSTANTS
    Threads = {t1}
    Blocks  = {b1, b2, b3}
    NULL    = NULL
    MaxLen  = 1
INVARIANT
    ArgumentsPrinted
