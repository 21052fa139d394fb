---------------------------- MODULE MCHomeserver ----------------------------
EXTENDS Homeserver

CONSTANTS p, q, x, y

MCPeers == {p, q}
MCRooms == {x, y}
MCSockets == 1 .. 2
MCOps == {"op"}

Use(sockets, rms, local, durable, maxErrors) ==
    [sockets |-> sockets, rooms |-> rms, local |-> local, durable |-> durable, maxErrors |-> maxErrors]

\* Clients that reconnect, in one room; a client in two rooms of which one frame fails; a
\* client and local commands in a room, with a store that lasts, where a frame or a persist
\* fails, and with one that does not.
MCSetups == {Use(1 .. 2, {x}, FALSE, TRUE, 0), Use({1}, {x, y}, FALSE, TRUE, 1),
             Use({1}, {x}, TRUE, TRUE, 1), Use({1}, {x}, TRUE, FALSE, 0)}
=============================================================================
