CONSTANTS
    a = a
    b = b
    Letters = {a, b}
    Text = Text
    BadLetter = BadLetter
    LOG_READY = LOG_READY
    Formats <- MCFormats
    Width = 16
    MaxCalls = 3
SPECIFICATION Spec
INVARIANTS
    TypeOK
    LinesKept
\* the log is closed
CHECK_DEADLOCK FALSE
