----------------------------- MODULE Homeserver -----------------------------
(***************************************************************************)
(* A homeserver: the rooms of a RoomServer (server.rs) driven by a Driver  *)
(* (driver.rs) over the WebSocket server of module WsServer.  One task     *)
(* hosts the rooms its clients have framed, ticks the driver, and carries  *)
(* out local commands; the reader tasks of the connections run beside it.  *)
(* Of a room only the node's own feed is kept here: what a room does with  *)
(* a frame is in modules RoomSync, RoomFold and Committee.                 *)
(***************************************************************************)
EXTENDS WsServer, Sequences

CONSTANTS
    Ops,            \* what local_append is called with
    Setups,         \* [sockets, rooms, local, durable, maxErrors]: the connections and rooms
                    \*   in use, whether there are local commands, whether the stores last
    AnnounceEvery,  \* announce_every_ticks
    MaxOps,         \* bound on the node's feed of a room
    MaxEvictions    \* bound on the evictions, which a homeserver makes rarely

ASSUME EveryAssumption == AnnounceEvery \in Nat \ {0}
ASSUME SetupsAssumption == \A s \in Setups : s.sockets \subseteq Sockets /\ s.rooms \subseteq Rooms

VARIABLES
    setup,
    rooms,          \* origin of every room held, None for the others
    feed,           \* the node's own feed of a held room
    stored,         \* what the room's store has of it
    tick,           \* the tick counter, modulo AnnounceEvery
    signed,         \* history: every block the node's key signed, by room and position
    unfed,          \* the rooms whose linearizer lacks the latest block of the node's feed
    visited,        \* the rooms that may have blocks of other writers
    forgot,         \* history: the rooms whose store lost, or never got, a signed block
    handled,        \* history: the frames a held room was given, by connection and room
    heard,          \* history: the held rooms whose advert went to a connection
    errors,         \* history: the frames a room failed on, and its persists that failed
    evictions       \* history: the evictions made

serverVars == <<rooms, feed, stored, unfed, visited, signed, forgot, evictions>>
vars == <<setup, wsVars, serverVars, tick, handled, heard, errors>>

Init == /\ setup \in Setups
        /\ WsInit
        /\ rooms = [r \in Rooms |-> None] /\ feed = [r \in Rooms |-> <<>>]
        /\ stored = feed /\ unfed = {} /\ visited = {} /\ tick = 0 /\ signed = {} /\ forgot = {}
        /\ handled = {} /\ heard = [s \in Sockets |-> {}] /\ errors = 0 /\ evictions = 0

\* announce of the given rooms, dispatched to every client.
Announced(R) == heard' = [s \in Sockets |-> IF s \in Connected THEN heard[s] \cup R ELSE heard[s]]

\* Mutant: a room that is opened again starts its feed anew.
OpenedFresh(R, origin) ==
    /\ rooms' = [r \in Rooms |-> IF r \in R THEN origin ELSE rooms[r]]
    /\ UNCHANGED feed

\* Room::open of the rooms R, which resumes what the stores of the rooms have.
Opened(R, origin) ==
    /\ rooms' = [r \in Rooms |-> IF r \in R THEN origin ELSE rooms[r]]
    /\ feed' = [r \in Rooms |-> IF r \in R THEN stored[r] ELSE feed[r]]

\* host of every room in seen_rooms, as a homeserver's loop does: the rooms not yet held
\* are opened, all of them are announced.
HostSeen ==
    /\ Opened({r \in seen : rooms[r] = None}, "original")
    /\ Announced(seen)
    /\ UNCHANGED <<setup, wsVars, stored, unfed, visited, signed, forgot, evictions, tick, handled, errors>>

\* join_remote; a room already held stays what it is.
JoinRemote(r) ==
    /\ setup.local
    /\ Opened(IF rooms[r] = None THEN {r} ELSE {}, "replicated")
    /\ Announced({r})
    /\ UNCHANGED <<setup, wsVars, stored, unfed, visited, signed, forgot, evictions, tick, handled, errors>>

\* local_append in the rooms R: a block joins the node's feed, persist stores it, and the
\* linearizer takes it.  Where persist fails the linearizer never gets the block, and the
\* store has it or, in the rooms lost, has not.
Authored(R, failed, lost, op) ==
    /\ lost \subseteq failed /\ failed \subseteq R
    /\ feed' = [r \in Rooms |-> IF r \in R THEN Append(feed[r], op) ELSE feed[r]]
    /\ stored' = [r \in Rooms |-> IF r \in R \ lost THEN feed'[r] ELSE stored[r]]
    /\ signed' = signed \cup {[room |-> r, seq |-> Len(feed[r]) + 1, op |-> op] : r \in R}
    /\ unfed' = unfed \cup failed /\ forgot' = forgot \cup lost

\* Driver::append.  Nothing happens when the room is not held, or when the latest block of
\* its feed is not in the linearizer (OwnFeedPending); a block not persisted is not sent.
AppendOp(r, op) ==
    /\ setup.local /\ rooms[r] # None /\ r \notin unfed /\ Len(feed[r]) < MaxOps
    /\ \E failed \in SUBSET {r} : \E lost \in SUBSET failed :
           /\ Authored({r}, failed, lost, op)
           /\ errors' = errors + Cardinality(failed) /\ errors' <= setup.maxErrors
           /\ Announced({r} \ failed)
    /\ UNCHANGED <<setup, wsVars, rooms, visited, evictions, tick, handled>>

\* evict_stale, for any judgement of staleness: only replicated rooms go.
Evict(R) ==
    /\ setup.local /\ evictions < MaxEvictions /\ R # {} /\ \A r \in R : rooms[r] = "replicated"
    /\ rooms' = [r \in Rooms |-> IF r \in R THEN None ELSE rooms[r]]
    /\ feed' = [r \in Rooms |-> IF r \in R THEN <<>> ELSE feed[r]]
    /\ stored' = [r \in Rooms |-> IF r \in R /\ ~setup.durable THEN <<>> ELSE stored[r]]
    /\ unfed' = unfed \ R
    /\ visited' = IF setup.durable THEN visited ELSE visited \ R
    /\ forgot' = IF setup.durable THEN forgot ELSE forgot \cup R
    /\ evictions' = evictions + 1
    /\ handled' = {f \in handled : f[2] \notin R}
    /\ heard' = [s \in Sockets |-> heard[s] \ R]
    /\ UNCHANGED <<setup, wsVars, signed, tick, errors>>

\* tick: the queued frames go to their rooms, and those for rooms not held are dropped; every
\* room that has unfinalized ops of others checkpoints; every AnnounceEvery ticks all rooms
\* are announced.  A room may fail on a frame, and its persist may.
Tick(failed, checkpoints, unsaved, lost) ==
    LET held == {r \in Rooms : rooms[r] # None}
        given == {f \in inbound : f[2] \in held} \ failed
    IN /\ DrainInbound
       /\ failed \subseteq inbound
       /\ errors' = errors + Cardinality(failed) + Cardinality(unsaved)
       /\ errors' <= setup.maxErrors
       /\ handled' = handled \cup given
       /\ visited' = visited \cup {f[2] : f \in given}
       /\ checkpoints \subseteq (held \cap visited') \ unfed
       /\ \A r \in checkpoints : setup.local /\ Len(feed[r]) < MaxOps
       /\ Authored(checkpoints, unsaved, lost, "checkpoint")
       /\ Announced((checkpoints \ unsaved) \cup (IF tick = 0 THEN held ELSE {}))
       /\ tick' = (tick + 1) % AnnounceEvery
       /\ UNCHANGED <<setup, rooms, evictions>>

-----------------------------------------------------------------------------
roomVars == <<setup, serverVars, tick, handled, heard, errors>>

Clients == /\ \E s \in setup.sockets : \/ \E p \in Peers : Accept(s, p)
                                       \/ \E r \in setup.rooms : Read(s, r)
                                       \/ Note(s) \/ Record(s) \/ Forward(s) \/ Close(s)
           /\ UNCHANGED roomVars

Ticking == \E failed \in SUBSET inbound, checkpoints \in SUBSET setup.rooms :
           \E unsaved \in SUBSET checkpoints : \E lost \in SUBSET unsaved :
               Tick(failed, checkpoints, unsaved, lost)

Commands == \/ \E r \in setup.rooms : JoinRemote(r) \/ \E op \in Ops : AppendOp(r, op)
            \/ \E R \in SUBSET setup.rooms : Evict(R)

Next == Clients \/ HostSeen \/ Ticking \/ Commands

\* The loop of the homeserver and the reader tasks keep running; a connected client's own
\* driver announces each of its rooms again and again.
Again(s, r) == r \in framed[s] /\ Read(s, r) /\ UNCHANGED roomVars
Reader(s) == (Note(s) \/ Record(s) \/ Forward(s)) /\ UNCHANGED roomVars
Fairness == /\ WF_vars(HostSeen) /\ WF_vars(Ticking)
            /\ \A s \in Sockets : WF_vars(Reader(s)) /\ \A r \in Rooms : SF_vars(Again(s, r))

Spec == Init /\ [][Next]_vars /\ Fairness
-----------------------------------------------------------------------------
\* A client that frames a room is served: its frame gets to the room, although the first ones
\* may be dropped because the room is not hosted yet, was evicted, or failed on them; and the
\* room's advert is sent to it, unless its connection ends or the client replaces it.  When
\* the room is evicted after that, all of it happens again with the room opened next
\* (Driver::tick, RoomServer::host, WsServerTransport::seen_rooms).
Served ==
    \A s \in Sockets, r \in Rooms :
        r \in framed[s] ~> \/ step[s] = "gone"
                           \/ /\ <<s, r>> \in handled
                              /\ r \in heard[s] \/ ~Latest(s)

\* The node's key, which is the same in every room and every time a room is opened, signs one
\* block per position of its feed of a room, through evictions, rejoins, checkpoints and the
\* error returns of local_append; exempt is a room whose store lost a signed block, because it
\* was evicted together with a store that does not last or because a persist failed
\* (RoomServer::mint_identity, evict_stale, host, join_remote, Room::local_append).
NodeSignsOnce ==
    \A b, d \in signed : b.room = d.room /\ b.seq = d.seq /\ b.room \notin forgot => b = d
=============================================================================
