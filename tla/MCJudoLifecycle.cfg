CONSTANTS
    f1 = f1
    f2 = f2
    f3 = f3
    n1 = n1
    n2 = n2
    n3 = n3
    o1 = o1
    o2 = o2
    o3 = o3
    Listener = Listener
    ListNode = ListNode
    NULL = NULL
    Stale = Stale
    NoNode = NoNode
    NoFd = NoFd
    NoValue = NoValue
    Fds <- MCFds
    Nodes <- MCNodes
    Objects <- MCObjects
    MIN_DDA_SIZE = 1
SPECIFICATION Spec
INVARIANTS
    TypeOK
    FreedOnce
    NothingLost
SYMMETRY MCSymmetry
\* a server is destroyed once
CHECK_DEADLOCK FALSE
