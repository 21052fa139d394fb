SPECIFICATION Spec
CONSTANTS
    a = a
    b = b
    Values <- MCValues
    None = None
    MaxLen = 2
    MaxFork = 1
    MaxCrashes = 1
INVARIANTS BytesVerified NeverCorrupt TreeAuthored
PROPERTIES VerifiedKept Converges
