SPECIFICATION Spec
CONSTANTS
    x = x
    y = y
    None = None
    Blocks <- TwoBlocks
    Others <- OtherLogs
    MaxLen = 7
    MaxMissing = 2
    MaxRepair = 4
INVARIANTS NodesGenuine ProofsSound SeekAgrees NodesRecoverable
