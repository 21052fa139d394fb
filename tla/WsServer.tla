------------------------------ MODULE WsServer ------------------------------
(***************************************************************************)
(* The connection tables of the WebSocket server transport of              *)
(* crates/roomnet (ws.rs): a reader task per connection learns the peer    *)
(* from the first frame, notes the rooms the connection frames, forwards   *)
(* the frames to the driver, and cleans up when the socket ends.  A client *)
(* that reconnects has two connections for a while.                        *)
(*                                                                         *)
(* Each table has a lock of its own, taken and released between the steps  *)
(* of a frame; the cleanup holds both.                                     *)
(***************************************************************************)
EXTENDS Integers, FiniteSets

CONSTANTS
    Peers, Rooms,
    Sockets,        \* the connections ever accepted, 1 .. n in the order they are
    None

ASSUME SocketsAssumption == Sockets \subseteq Nat /\ IsFiniteSet(Sockets) /\ None \notin Sockets
ASSUME PeersAssumption == None \notin Peers

VARIABLES
    peer,           \* the id a connection stamps on its frames, None before it is accepted
    step,           \* where its reader is: "read", "note", "record", "forward" or "gone"
    frame,          \* the room of the frame it handles
    registered,     \* the connections that have registered
    framed,         \* the rooms it has framed
    conns, present, seen,   \* the shared tables
    inbound,        \* the frames queued for the driver, by connection and room
    order           \* the sockets in the order they registered, for the properties

wsVars == <<peer, step, frame, registered, framed, conns, present, seen, inbound, order>>

WsInit ==
    /\ peer = [s \in Sockets |-> None] /\ step = [s \in Sockets |-> "read"]
    /\ frame = [s \in Sockets |-> None] /\ registered = {}
    /\ framed = [s \in Sockets |-> {}]
    /\ conns = [p \in Peers |-> None] /\ present = [r \in Rooms |-> {}]
    /\ seen = {} /\ inbound = {} /\ order = [s \in Sockets |-> 0]

Open(s) == peer[s] # None /\ step[s] # "gone"

\* listener.accept: connections come in the order of their numbers.
Accept(s, p) ==
    /\ peer[s] = None /\ \A t \in Sockets : t < s => peer[t] # None
    /\ peer' = [peer EXCEPT ![s] = p]
    /\ UNCHANGED <<step, frame, registered, framed, conns, present, seen, inbound, order>>

\* A frame is read; the first one registers the connection.
Read(s, r) ==
    /\ Open(s) /\ step[s] = "read"
    /\ frame' = [frame EXCEPT ![s] = r]
    /\ step' = [step EXCEPT ![s] = "note"]
    /\ registered' = registered \cup {s}
    /\ IF s \in registered THEN UNCHANGED <<conns, order>>
       ELSE /\ conns' = [conns EXCEPT ![peer[s]] = s]
            /\ order' = [order EXCEPT ![s] = 1 + Cardinality(registered)]
    /\ UNCHANGED <<peer, framed, present, seen, inbound>>

\* The first frame to a room makes the peer present there.
Note(s) ==
    /\ step[s] = "note"
    /\ present' = IF frame[s] \in framed[s] THEN present
                  ELSE [present EXCEPT ![frame[s]] = @ \cup {peer[s]}]
    /\ framed' = [framed EXCEPT ![s] = @ \cup {frame[s]}]
    /\ step' = [step EXCEPT ![s] = "record"]
    /\ UNCHANGED <<peer, frame, registered, conns, seen, inbound, order>>

\* Mutant: the room is not recorded.
RecordNothing(s) ==
    /\ step[s] = "record"
    /\ step' = [step EXCEPT ![s] = "forward"]
    /\ UNCHANGED <<peer, frame, registered, framed, conns, present, seen, inbound, order>>

\* The room is recorded, before the frame is forwarded.
Record(s) ==
    /\ step[s] = "record"
    /\ seen' = seen \cup {frame[s]}
    /\ step' = [step EXCEPT ![s] = "forward"]
    /\ UNCHANGED <<peer, frame, registered, framed, conns, present, inbound, order>>

Forward(s) ==
    /\ step[s] = "forward"
    /\ inbound' = inbound \cup {<<s, frame[s]>>}
    /\ step' = [step EXCEPT ![s] = "read"]
    /\ UNCHANGED <<peer, frame, registered, framed, conns, present, seen, order>>

\* drain_inbound: the driver gets the whole queue.
DrainInbound ==
    /\ inbound' = {}
    /\ UNCHANGED <<peer, step, frame, registered, framed, conns, present, seen, order>>

\* dispatch of a frame to Gossip or to Clients goes to the sockets of this set.
Connected == {s \in Sockets : peer[s] # None /\ conns[peer[s]] = s}

\* Mutant: the route of the peer goes, whichever connection it leads to.
ConnsWithoutPeer(s) == [conns EXCEPT ![peer[s]] = None]

\* The cleanup drops the route unless a newer connection took it over.
ConnsWithout(s) == IF conns[peer[s]] = s THEN [conns EXCEPT ![peer[s]] = None] ELSE conns

PresentWithout(s) == [r \in Rooms |-> IF r \in framed[s] THEN present[r] \ {peer[s]} ELSE present[r]]

\* The socket ends, and so does its reader.
Close(s) ==
    /\ Open(s) /\ step[s] = "read"
    /\ step' = [step EXCEPT ![s] = "gone"]
    /\ conns' = IF s \in registered THEN ConnsWithout(s) ELSE conns
    /\ present' = IF s \in registered THEN PresentWithout(s) ELSE present
    /\ UNCHANGED <<peer, frame, registered, framed, seen, inbound, order>>

-----------------------------------------------------------------------------
\* A client is reached over the connection it registered last, as long as that is open: the
\* cleanup of an older connection of the same client never cuts it off, and no route leads to
\* a connection that has ended.  And only clients with an open connection that framed a room
\* are present in it (WsServerTransport::bind, dispatch, clients_by_room).
Latest(s) == s \in registered /\ \A t \in Sockets : peer[t] = peer[s] => order[t] <= order[s]
TablesFollow ==
    /\ \A p \in Peers : conns[p] = IF \E s \in Sockets : peer[s] = p /\ Latest(s) /\ Open(s)
                                   THEN CHOOSE s \in Sockets : peer[s] = p /\ Latest(s)
                                   ELSE None
    /\ \A r \in Rooms : \A p \in present[r] :
         \E s \in Sockets : peer[s] = p /\ Open(s) /\ r \in framed[s]
=============================================================================
