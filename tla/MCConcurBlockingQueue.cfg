CONSTANTS
    t1 = t1
    t2 = t2
    t3 = t3
    a = a
    b = b
    NULL = NULL
    Threads <- MCThreads
    Items <- MCOneItem
    Calls <- MCCalls
    MaxCalls = 2
    MaxSpurious = 1
SPECIFICATION Spec
INVARIANTS
    TypeOK
    MutualExclusion
    OneLowCompetitor
    ConsumerFindsItem
    OnlySleepersStick
    WakeupsCoverItems
SYMMETRY MCSymmetry
\* calls are bounded, and consumers may sleep for ever
CHECK_DEADLOCK FALSE
