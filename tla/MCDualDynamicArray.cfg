CONSTANTS
    v = v
    w = w
    NoValue = NoValue
    MIN_DDA_SIZE = 2
    Keys <- MCKeys
    Values <- MCValues
SPECIFICATION Spec
INVARIANTS
    TypeOK
    InBounds
    NoWaste
PROPERTY ImplementsPairTable
