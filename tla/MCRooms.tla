------------------------------ MODULE MCRooms -------------------------------
(* Three writers; committees of one, two and three indexers among them. *)
EXTENDS Rooms

ThreeWriters == 1 .. 3
Index123 == {1, 2, 3}
SetsUsed == {{1, 2, 3}, {1, 2}, {3}}

Room(committee, opWriters, maxOps, maxEntries) ==
    [indexers |-> committee, opWriters |-> opWriters, maxOps |-> maxOps,
     maxEntries |-> maxEntries]

\* Everyone indexes and two of them append; a host that indexes alone, and everyone appends;
\* two indexers, one of which appends, and a client that appends.
ThreeRooms == {Room({1, 2, 3}, {1, 2}, 1, 7), Room({1}, {1, 2, 3}, 1, 9),
               Room({1, 2}, {2, 3}, 1, 8)}
=============================================================================
