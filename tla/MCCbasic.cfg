SPECIFICATION Spec
CONSTANTS
    n1 = n1
    n2 = n2
    n3 = n3
    n4 = n4
    t1 = t1
    t2 = t2
    t3 = t3
    NULL    = NULL
    VACATED = VACATED
INVARIANTS
    StructuresWhole
    AlgorithmsRight
    SortsAndSearches
    CodecsRestore
    NumbersRight
PROPERTIES
    ListsAreSequences
    TablesAreSets
    TreesAndGraphsAnswer
CHECK_DEADLOCK FALSE
