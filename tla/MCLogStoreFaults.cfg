CONSTANTS
    x = x
    y = y
    Keys <- MCKeys
    Symbols <- MCSymbols
    Values <- MCValues
    None = None
    MinCompact = 3
    MaxFile = 6
    MaxFaults = 1
SPECIFICATION SpecFaults
INVARIANT ReadsAcked
CHECK_DEADLOCK FALSE
