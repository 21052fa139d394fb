CONSTANTS
    a = a
    b = b
    Values <- MCValues
    None = None
    Prologues <- NoPrologues
    MaxLen = 1
    MaxFork = 2
SPECIFICATION SpecCrash
INVARIANT RefusesOnlyTorn
PROPERTY OpenRestoresSaved
CHECK_DEADLOCK FALSE
