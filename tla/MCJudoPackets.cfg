CONSTANTS
    x = x
    y = y
    Zero = Zero
    Uninit = Uninit
    NONE = NONE
    Messages <- MCMessages
    Payload = 2
    Record = 4
    Cuts = FALSE
    MaxMessages = 3
SPECIFICATION FairSpec
INVARIANT TypeOK
PROPERTIES
    ImplementsFifo
    Delivered
\* the connection ends, and messages are bounded
CHECK_DEADLOCK FALSE
