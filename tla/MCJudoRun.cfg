CONSTANTS
    f1 = f1
    f2 = f2
    f3 = f3
    n1 = n1
    n2 = n2
    n3 = n3
    Listener = Listener
    ListNode = ListNode
    NoFd = NoFd
    NoValue = NoValue
    Fds <- MCFds
    Nodes <- MCNodes
    MIN_DDA_SIZE = 1
    Limit = 1
    Backlog = 1
SPECIFICATION FairSpec
INVARIANTS
    TypeOK
    Accounted
    IndexInside
    ServesReadyOnly
    NobodySkipped
    NodeMatches
PROPERTY ReadableServed
SYMMETRY MCSymmetry
\* the process may end
CHECK_DEADLOCK FALSE
