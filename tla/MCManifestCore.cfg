SPECIFICATION Spec
CONSTANTS
    a = a
    b = b
    c = c
    x = x
    y = y
    None = None
    Values <- MCValues
    Cores <- MCCores
    Setups <- MCSetups
    MaxLen = 2
    MaxSigs = 2
    MaxFails = 1
INVARIANTS ReplicaVouched MajoritiesMeet
CHECK_DEADLOCK FALSE
