SPECIFICATION Spec
CONSTANTS
    p = p
    q = q
    x = x
    y = y
    Peers <- MCPeers
    Rooms <- MCRooms
    Sockets <- MCSockets
    None = None
    Ops <- MCOps
    Setups <- MCSetups
    AnnounceEvery = 2
    MaxOps = 2
    MaxEvictions = 2
INVARIANTS TablesFollow NodeSignsOnce
PROPERTIES Served
