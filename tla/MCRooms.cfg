SPECIFICATION RoomsSpec
CONSTANTS
    None = None
    Local = 1
    Writers <- ThreeWriters
    IndexerSets <- SetsUsed
    FirstIndexers <- Index123
    MaxSeq = 2
    MaxNodes = 5
    MaxConfigs = 1
    MaxRestarts = 1
    MaxEvents = 6
    MaxDegree = 6
    Committees <- ThreeRooms
INVARIANTS OrderSound FinalizedByQuorum FoldFaithful MembersAgree StopsWhenFinal
PROPERTIES NeverUnfolded
CHECK_DEADLOCK FALSE
