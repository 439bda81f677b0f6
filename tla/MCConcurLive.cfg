CONSTANTS
    t1 = t1
    t2 = t2
    t3 = t3
    a = a
    b = b
    NULL = NULL
    Threads <- MCThreads
    Items <- MCItems
    Calls <- MCCalls
    MaxCalls = 1
    MaxSpurious = 1
SPECIFICATION FairSpec
PROPERTIES
    HighCallsReturn
    SleepersServed
    ImplementsFifo
\* calls are bounded, and consumers may sleep for ever
CHECK_DEADLOCK FALSE
