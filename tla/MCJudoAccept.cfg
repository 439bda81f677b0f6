CONSTANTS
    c1 = c1
    o1 = o1
    o2 = o2
    NONE = NONE
    Reject = Reject
    Hello = Hello
    HelloReply = HelloReply
    Finish = Finish
    Ticket = Ticket
    Other = Other
    Operators <- MCOperators
    Clients <- MCClients
    Requirements <- AllModes
    MaxRuns = 1
SPECIFICATION Spec
INVARIANTS
    TypeOK
    AsAsked
    EncryptedOnBothSides
    HandshakeHasSSL
    RequirementBinds
    SocketsAccounted
PROPERTIES
    AcceptReturns
    ConnectReturns
\* every call of the bounded instance may have returned
CHECK_DEADLOCK FALSE
