SPECIFICATION StorageSpec
CONSTANTS
    x = x
    y = y
    Keys <- MCKeys
    Symbols <- MCSymbols
    Values <- MCValues
    None = None
    MinCompact = 3
    MaxFile = 8
    MaxFaults = 2
    WordBits = 2
    PageWords = 2
    Indices <- MCIndices
INVARIANTS ReplayAgrees TeeKeeps QueriesAgree
PROPERTIES Implements
CHECK_DEADLOCK FALSE
