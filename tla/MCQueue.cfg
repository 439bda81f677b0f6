CONSTANTS
    c1 = c1
    c2 = c2
    c3 = c3
    c4 = c4
    a = a
    b = b
    NULL = NULL
    Cells <- MCCells
    Items <- MCItems
SPECIFICATION Spec
INVARIANTS
    TypeOK
    Linked
    NothingLeaked
PROPERTY ImplementsFifo
\* the destructor ends every run
CHECK_DEADLOCK FALSE
