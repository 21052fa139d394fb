----------------------------- MODULE MCRoomSync -----------------------------
(* An owner and a peer, or an owner, a relay and a client of the relay. *)
EXTENDS RoomSync

CONSTANTS a, b, c

Network(rooms, links, pushed, kinds, max, entries) ==
    [peers |-> rooms, links |-> links, pushes |-> pushed, faults |-> kinds,
     maxFaults |-> max, maxSigned |-> entries]

Chain(pushed, kinds, max) == Network({b, c}, {<<a, b>>, <<b, c>>}, pushed, kinds, max, 2)
Pair(pushed, kinds, max, entries) == Network({b}, {<<a, b>>}, pushed, kinds, max, entries)

\* A relay, without faults and with restarts; a pair, with failures and restarts; a pair
\* whose owner loses its store, also while the peer's tree is ahead of its head, for which
\* it takes three entries.
MCNetworks == {Chain(TRUE, {}, 0), Chain(FALSE, {"restart", "torn"}, 2),
               Pair(TRUE, {"restart", "torn", "unsaved", "unfed"}, 2, 2),
               Pair(TRUE, {"lost"}, 1, 2), Pair(FALSE, {"lost"}, 1, 3)}
Nothing == <<>>
=============================================================================
