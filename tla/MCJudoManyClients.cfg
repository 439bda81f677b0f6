CONSTANTS
    f1 = f1
    f2 = f2
    f3 = f3
    n1 = n1
    n2 = n2
    n3 = n3
    Listener = Listener
    ListNode = ListNode
    NoFd = NoFd
    NoValue = NoValue
    Fds <- MCPair
    Nodes <- MCPairNodes
    MIN_DDA_SIZE = 2
    Limit = 3
    Backlog = 1
SPECIFICATION Spec
INVARIANT PointersValid
\* the process may end
CHECK_DEADLOCK FALSE
