CONSTANTS
    c1 = c1
    o1 = o1
    o2 = o2
    NONE = NONE
    Reject = Reject
    Hello = Hello
    HelloReply = HelloReply
    Finish = Finish
    Ticket = Ticket
    Other = Other
    Operators <- MCOneOperator
    Clients <- MCClients
    Requirements <- AllModes
    MaxRuns = 1
SPECIFICATION Spec
PROPERTY EchoAccepted
\* every call of the bounded instance may have returned
CHECK_DEADLOCK FALSE
