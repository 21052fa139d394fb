SPECIFICATION Spec
CONSTANTS
    a = a
    b = b
    c = c
    Owner = a
    Networks <- MCNetworks
    NoHead <- Nothing
    Absent = Absent
INVARIANTS ReplicasFollow RecoverySound
PROPERTIES Converges OwnFeedRecovered
