SPECIFICATION Spec
CONSTANTS
    Keys <- MCKeys
    Values = {u, v}
    None = None
    MaxByte = 1
    MaxChildren = 3
    Starts <- MCStarts
    Subs <- MCSubs
    Bounds <- MCBounds
    MaxOps = 2
INVARIANTS ReadsAgree VersionsKept TreeShaped HistoryTells
CHECK_DEADLOCK FALSE
