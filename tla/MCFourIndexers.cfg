SPECIFICATION HistorySpec
CONSTANTS
    None = None
    Local = 1
    Writers <- FourWriters
    IndexerSets <- OneCommittee
    FirstIndexers <- FourWriters
    MaxSeq = 5
    MaxNodes = 14
    MaxConfigs = 0
    MaxRestarts = 0
    MaxEvents = 14
    MaxDegree = 6
INVARIANT FoldFaithful
CHECK_DEADLOCK FALSE
