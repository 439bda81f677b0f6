CONSTANTS
    x = x
    y = y
    Zero = Zero
    Uninit = Uninit
    NONE = NONE
    Messages <- MCShort
    Payload = 2
    Record = 3
    Cuts = TRUE
    MaxMessages = 2
SPECIFICATION Spec
PROPERTY MessagesIntact
\* the connection ends, and messages are bounded
CHECK_DEADLOCK FALSE
