-------------------------- MODULE HomeserverProofs --------------------------
(***************************************************************************)
(* What holds of a homeserver for every set of clients, connections, rooms *)
(* and ops, and every bound: proofs about modules Homeserver and WsServer. *)
(***************************************************************************)
EXTENDS Homeserver, FiniteSetTheorems, TLAPS

Blocks == Ops \cup {"checkpoint"}

\* Every feed is a sequence of blocks, and every signature is for a position of a room.
FeedType ==
    /\ setup \in Setups
    /\ feed \in [Rooms -> Seq(Blocks)] /\ stored \in [Rooms -> Seq(Blocks)]
    /\ signed \subseteq [room : Rooms, seq : Nat, op : Blocks]

\* The node's feed of a room it holds is what the room's store has, and every block its key
\* signed in a room, held or not, lies in that store at the position it was signed for.
FeedStored ==
    \A r \in Rooms \ forgot :
        /\ rooms[r] # None => feed[r] = stored[r]
        /\ \A b \in signed : b.room = r => b.seq \in 1 .. Len(stored[r]) /\ stored[r][b.seq] = b.op

FeedInv == FeedType /\ FeedStored

\* What opening rooms does to the feeds (RoomServer::host, join_remote).
LEMMA OpeningKeeps ==
    ASSUME FeedInv, NEW R, NEW origin, Opened(R, origin),
           UNCHANGED <<setup, stored, signed, forgot>>
    PROVE  FeedInv'
<1>1. FeedType'
  BY DEF FeedInv, FeedType, Opened
<1>2. FeedStored'
  BY DEF FeedInv, FeedType, FeedStored, Opened
<1> QED
  BY <1>1, <1>2 DEF FeedInv

\* What authoring in held rooms does to the feeds: the new block goes behind everything that
\* was signed, and a store that did not get it is one that forgot (Room::local_append).
LEMMA AuthoringKeeps ==
    ASSUME FeedInv, NEW R \in SUBSET Rooms, \A r \in R : rooms[r] # None,
           NEW failed, NEW lost, NEW op \in Blocks, Authored(R, failed, lost, op),
           UNCHANGED <<setup, rooms>>
    PROVE  FeedInv'
<1> USE DEF FeedInv
<1>1. /\ feed' \in [Rooms -> Seq(Blocks)]
      /\ \A r \in R : feed'[r] = Append(feed[r], op)
      /\ \A r \in Rooms \ R : feed'[r] = feed[r]
  BY DEF FeedType, Authored
<1>2. /\ stored' \in [Rooms -> Seq(Blocks)]
      /\ \A r \in R \ lost : stored'[r] = Append(feed[r], op)
      /\ \A r \in Rooms \ R : stored'[r] = stored[r]
      /\ forgot' = forgot \cup lost
  BY <1>1 DEF FeedType, Authored
<1>3. FeedType'
  <2>1. \A r \in R : Len(feed[r]) + 1 \in Nat
    BY DEF FeedType
  <2>2. signed' \subseteq [room : Rooms, seq : Nat, op : Blocks]
    BY <2>1 DEF FeedType, Authored
  <2> QED
    BY <1>1, <1>2, <2>2 DEF FeedType
<1>4. FeedStored'
  <2> SUFFICES ASSUME NEW r \in Rooms \ forgot, r \notin lost
               PROVE  /\ rooms[r] # None => feed'[r] = stored'[r]
                      /\ \A b \in signed' : b.room = r =>
                            b.seq \in 1 .. Len(stored'[r]) /\ stored'[r][b.seq] = b.op
    BY <1>2 DEF FeedStored
  <2>1. CASE r \in R
    <3>1. feed[r] = stored[r] /\ feed[r] \in Seq(Blocks)
      BY <2>1 DEF FeedStored, FeedType
    <3>2. feed'[r] = stored'[r] /\ stored'[r] = Append(stored[r], op)
      BY Zenon, <1>1, <1>2, <2>1, <3>1
    <3>3. /\ Len(stored'[r]) = Len(stored[r]) + 1 /\ Len(stored[r]) \in Nat
          /\ stored'[r][Len(stored[r]) + 1] = op
          /\ \A i \in 1 .. Len(stored[r]) : stored'[r][i] = stored[r][i]
      BY <3>1, <3>2
    <3>4. ASSUME NEW b \in signed', b.room = r
          PROVE  b.seq \in 1 .. Len(stored'[r]) /\ stored'[r][b.seq] = b.op
      <4>1. CASE b \in signed
        BY <3>3, <3>4, <4>1 DEF FeedStored
      <4>2. CASE b \notin signed
        <5>1. b.seq = Len(feed[r]) + 1 /\ b.op = op
          BY <3>4, <4>2 DEF Authored
        <5> QED
          BY <3>1, <3>3, <5>1
      <4> QED
        BY <4>1, <4>2
    <3> QED
      BY <3>2, <3>4
  <2>2. CASE r \notin R
    <3>1. \A b \in signed' : b.room = r => b \in signed
      BY <2>2 DEF Authored
    <3>2. feed'[r] = feed[r] /\ stored'[r] = stored[r]
      BY <1>1, <1>2, <2>2
    <3> QED
      BY <3>1, <3>2 DEF FeedStored
  <2> QED
    BY <2>1, <2>2
<1> QED
  BY <1>3, <1>4

\* Nothing but the following changes the rooms and their feeds.
LEMMA FeedsKept ==
    ASSUME FeedInv, Next \/ UNCHANGED vars
    PROVE  FeedInv'
<1>0. setup.rooms \subseteq Rooms
  BY SetupsAssumption DEF FeedInv, FeedType
<1>1. CASE Clients \/ UNCHANGED vars
  BY <1>1 DEF FeedInv, FeedType, FeedStored, Clients, roomVars, serverVars, vars
<1>2. CASE HostSeen
  BY <1>2, OpeningKeeps DEF HostSeen
<1>3. CASE Ticking
  <2>1. PICK failed \in SUBSET inbound, checkpoints \in SUBSET setup.rooms,
             unsaved \in SUBSET setup.rooms, lost \in SUBSET setup.rooms :
                 Tick(failed, checkpoints, unsaved, lost)
    BY <1>3 DEF Ticking
  <2>2. \A r \in checkpoints : rooms[r] # None
    BY <2>1 DEF Tick
  <2>3. "checkpoint" \in Blocks /\ checkpoints \in SUBSET Rooms
    BY <1>0 DEF Blocks
  <2> QED
    BY <2>1, <2>2, <2>3, AuthoringKeeps DEF Tick
<1>4. ASSUME NEW r \in setup.rooms, JoinRemote(r)
      PROVE  FeedInv'
  BY <1>4, OpeningKeeps DEF JoinRemote
<1>5. ASSUME NEW r \in setup.rooms, NEW op \in Ops, AppendOp(r, op)
      PROVE  FeedInv'
  <2>1. {r} \in SUBSET Rooms /\ (\A q \in {r} : rooms[q] # None) /\ op \in Blocks
    BY <1>0, <1>5 DEF AppendOp, Blocks
  <2>2. PICK failed, lost : Authored({r}, failed, lost, op)
    BY <1>5 DEF AppendOp
  <2> QED
    BY <1>5, <2>1, <2>2, AuthoringKeeps DEF AppendOp
<1>6. ASSUME NEW R \in SUBSET setup.rooms, Evict(R)
      PROVE  FeedInv'
  <2>1. FeedType'
    BY <1>6 DEF FeedInv, FeedType, Evict
  <2>2. FeedStored'
    BY <1>6 DEF FeedInv, FeedType, FeedStored, Evict
  <2> QED
    BY <2>1, <2>2 DEF FeedInv
<1> QED
  BY <1>1, <1>2, <1>3, <1>4, <1>5, <1>6 DEF Next, Commands

\* The node's key signs one block per position of its feed of a room, for any number of rooms,
\* clients, commands, evictions and failed persists, unless the room's store lost a block
\* (RoomServer::mint_identity, host, join_remote, evict_stale; Driver::append, tick).
THEOREM KeySignsOnce == Spec => []NodeSignsOnce
<1>1. Init => FeedInv
  BY DEF Init, FeedInv, FeedType, FeedStored
<1>2. FeedInv /\ [Next]_vars => FeedInv'
  BY FeedsKept
<1>3. FeedInv => NodeSignsOnce
  <2> SUFFICES ASSUME FeedInv, NEW b \in signed, NEW d \in signed,
                      b.room = d.room, b.seq = d.seq, b.room \notin forgot
               PROVE  b = d
    BY DEF NodeSignsOnce
  <2>1. b \in [room : Rooms, seq : Nat, op : Blocks] /\ d \in [room : Rooms, seq : Nat, op : Blocks]
    BY DEF FeedInv, FeedType
  <2>2. b.op = stored[b.room][b.seq] /\ d.op = stored[b.room][b.seq]
    BY <2>1 DEF FeedInv, FeedStored
  <2> QED
    BY <2>1, <2>2
<1> QED
  BY <1>1, <1>2, <1>3, PTL DEF Spec

-----------------------------------------------------------------------------
tables == <<peer, step, frame, registered, framed, conns, present, order>>

\* The types of the tables, and which of them a connection has filled in.
TablesType ==
    /\ peer \in [Sockets -> Peers \cup {None}]
    /\ step \in [Sockets -> {"read", "note", "record", "forward", "gone"}]
    /\ frame \in [Sockets -> Rooms \cup {None}]
    /\ registered \subseteq Sockets /\ framed \in [Sockets -> SUBSET Rooms]
    /\ conns \in [Peers -> Sockets \cup {None}] /\ present \in [Rooms -> SUBSET Peers]
    /\ order \in [Sockets -> Nat]
    /\ \A s \in Sockets :
         /\ s \in registered \/ framed[s] # {} \/ step[s] # "read" => peer[s] # None
         /\ framed[s] # {} \/ step[s] \in {"note", "record", "forward"} => s \in registered
         /\ step[s] \in {"note", "record", "forward"} => frame[s] \in Rooms

\* Connections register one after the other: their places in the order are distinct, and
\* none is past the number of them.
OrderInv ==
    /\ \A s \in Sockets : order[s] <= Cardinality(registered) /\ (order[s] > 0 <=> s \in registered)
    /\ \A s, t \in registered : order[s] = order[t] => s = t

\* The route of a client leads to its latest connection while that is open.
RouteInv ==
    \A p \in Peers :
        /\ conns[p] # None => peer[conns[p]] = p /\ Latest(conns[p]) /\ Open(conns[p])
        /\ conns[p] = None => ~\E s \in Sockets : peer[s] = p /\ Latest(s) /\ Open(s)

\* A client is present in a room over an open connection that framed it.
PresentInv ==
    \A r \in Rooms : \A p \in present[r] :
        \E s \in Sockets : peer[s] = p /\ Open(s) /\ r \in framed[s]

TablesInv == TablesType /\ OrderInv /\ RouteInv /\ PresentInv

\* The registered connections can be counted.
LEMMA RegisteredFinite ==
    ASSUME TablesType
    PROVE  IsFiniteSet(registered) /\ Cardinality(registered) \in Nat
<1>1. registered \subseteq Sockets
  BY DEF TablesType
<1> QED
  BY Zenon, <1>1, SocketsAssumption, FS_Subset, FS_CardinalityType

\* A connection that is accepted has registered nothing and framed nothing yet.
LEMMA AcceptKeeps ==
    ASSUME TablesInv, NEW s \in Sockets, NEW p \in Peers, Accept(s, p)
    PROVE  TablesInv'
<1> USE DEF TablesInv
<1>1. /\ peer[s] = None /\ s \notin registered /\ step[s] = "read" /\ framed[s] = {} /\ order[s] = 0
  <2>1. peer[s] = None /\ s \notin registered /\ step[s] = "read" /\ framed[s] = {}
    BY DEF Accept, TablesType
  <2>2. ~(order[s] > 0) /\ order[s] \in Nat
    BY <2>1 DEF TablesType, OrderInv
  <2> QED
    BY <2>1, <2>2
<1>2. /\ peer' = [peer EXCEPT ![s] = p]
      /\ UNCHANGED <<step, frame, registered, framed, conns, present, order>>
  BY DEF Accept
<1>3. TablesType'
  BY <1>1, <1>2, PeersAssumption DEF TablesType
<1>4. OrderInv'
  BY <1>2 DEF OrderInv
<1>5. ASSUME NEW t \in Sockets, peer[t] # None
      PROVE  peer'[t] = peer[t] /\ (Latest(t)' <=> Latest(t)) /\ (Open(t)' <=> Open(t))
  BY <1>1, <1>2, <1>5 DEF TablesType, OrderInv, Latest, Open
<1>6. RouteInv'
  <2> SUFFICES ASSUME NEW q \in Peers
               PROVE  /\ conns[q] # None => peer'[conns[q]] = q /\ Latest(conns[q])' /\ Open(conns[q])'
                      /\ conns[q] = None => ~\E t \in Sockets : peer'[t] = q /\ Latest(t)' /\ Open(t)'
    BY <1>2 DEF RouteInv
  <2>1. CASE conns[q] # None
    <3>1. conns[q] \in Sockets /\ peer[conns[q]] = q /\ Latest(conns[q]) /\ Open(conns[q])
      BY <2>1 DEF RouteInv, TablesType
    <3> QED
      BY <1>2, <2>1, <3>1, <1>5, PeersAssumption
  <2>2. CASE conns[q] = None
    <3> SUFFICES ASSUME NEW t \in Sockets, peer'[t] = q, Latest(t)', Open(t)'
                 PROVE  FALSE
      BY <2>2
    <3>1. t \in registered /\ peer[t] # None
      BY <1>2 DEF Latest, TablesType
    <3> QED
      BY <2>2, <3>1, <1>5 DEF RouteInv
  <2> QED
    BY <2>1, <2>2
<1>7. PresentInv'
  BY <1>2, <1>5 DEF PresentInv, Open, TablesType
<1> QED
  BY <1>3, <1>4, <1>6, <1>7

\* The first frame of a connection makes it the latest one of its client
\* (WsServerTransport::bind).
LEMMA ReadKeeps ==
    ASSUME TablesInv, NEW s \in Sockets, NEW r \in Rooms, Read(s, r)
    PROVE  TablesInv'
<1> USE DEF TablesInv
<1>1. /\ peer[s] \in Peers /\ step[s] = "read"
      /\ frame' = [frame EXCEPT ![s] = r]
      /\ step' = [step EXCEPT ![s] = "note"]
      /\ registered' = registered \cup {s}
      /\ UNCHANGED <<peer, framed, present>>
  BY DEF Read, Open, TablesType
<1>2. \A t \in Sockets : Open(t)' <=> Open(t)
  BY <1>1 DEF Read, Open, TablesType
<1>3. PresentInv'
  BY <1>1, <1>2 DEF PresentInv
<1>4. CASE s \in registered
  <2>1. UNCHANGED <<registered, conns, order>>
    BY <1>1, <1>4 DEF Read
  <2>2. TablesType'
    BY <1>1, <1>4, <2>1, PeersAssumption DEF TablesType
  <2>3. OrderInv'
    BY <2>1 DEF OrderInv
  <2>4. RouteInv'
    BY <1>1, <1>2, <2>1 DEF RouteInv, Latest, TablesType
  <2> QED
    BY <1>3, <2>2, <2>3, <2>4
<1>5. CASE s \notin registered
  <2> DEFINE N == Cardinality(registered)
  <2>1. /\ conns' = [conns EXCEPT ![peer[s]] = s]
        /\ order' = [order EXCEPT ![s] = 1 + N]
    BY <1>5 DEF Read
  <2>2. N \in Nat /\ IsFiniteSet(registered)
    BY RegisteredFinite
  <2>3. Cardinality(registered') = N + 1
    BY Zenon, <1>1, <1>5, <2>2, FS_AddElement
  <2>4. TablesType'
    BY <1>1, <2>1, <2>2, PeersAssumption DEF TablesType
  <2>5. \A t \in Sockets : order[t] \in Nat /\ order[t] <= N
    BY DEF TablesType, OrderInv
  <2>6. order'[s] = N + 1 /\ \A t \in Sockets : t # s => order'[t] = order[t]
    BY <2>1, <2>2 DEF TablesType
  <2>7. OrderInv'
    <3>1. ASSUME NEW t \in Sockets
          PROVE  order'[t] <= N + 1 /\ (order'[t] > 0 <=> t \in registered')
      BY <1>1, <2>2, <2>5, <2>6 DEF OrderInv
    <3>2. ASSUME NEW t \in registered', NEW u \in registered', order'[t] = order'[u]
          PROVE  t = u
      BY <1>1, <2>2, <2>5, <2>6, <3>2 DEF OrderInv, TablesType
    <3> QED
      BY <2>3, <3>1, <3>2 DEF OrderInv
  <2>8. Latest(s)' /\ Open(s)' /\ peer'[s] = peer[s]
    <3>1. \A t \in Sockets : order'[t] <= order'[s]
      BY <2>2, <2>5, <2>6
    <3> QED
      BY <1>1, <1>2, <3>1 DEF Read, Latest
  <2>9. ASSUME NEW t \in Sockets, peer[t] # peer[s]
        PROVE  Latest(t)' <=> Latest(t)
    BY <1>1, <2>6, <2>9 DEF Latest
  <2>10. RouteInv'
    <3> SUFFICES ASSUME NEW q \in Peers
                 PROVE  /\ conns'[q] # None => peer'[conns'[q]] = q /\ Latest(conns[q])' /\ Open(conns[q])'
                        /\ conns'[q] = None => ~\E t \in Sockets : peer'[t] = q /\ Latest(t)' /\ Open(t)'
      BY DEF RouteInv
    <3>1. CASE q = peer[s]
      <4>1. conns'[q] = s
        BY <1>1, <2>1, <3>1 DEF TablesType
      <4> QED
        BY <2>8, <3>1, <4>1, SocketsAssumption
    <3>2. CASE q # peer[s]
      <4>1. conns'[q] = conns[q] /\ conns[q] \in Sockets \cup {None}
        BY <2>1, <3>2 DEF TablesType
      <4>2. CASE conns[q] # None
        <5>1. conns[q] \in Sockets /\ peer[conns[q]] = q /\ Latest(conns[q]) /\ Open(conns[q])
          BY <4>1, <4>2 DEF RouteInv
        <5> QED
          BY <1>1, <1>2, <2>9, <3>2, <4>1, <4>2, <5>1
      <4>3. CASE conns[q] = None
        BY <1>1, <1>2, <2>9, <3>2, <4>1, <4>3 DEF RouteInv
      <4> QED
        BY <4>2, <4>3
    <3> QED
      BY <3>1, <3>2
  <2> QED
    BY <1>3, <2>4, <2>7, <2>10
<1> QED
  BY <1>4, <1>5

\* Noting a room makes the client present over this very connection.
LEMMA NoteKeeps ==
    ASSUME TablesInv, NEW s \in Sockets, Note(s)
    PROVE  TablesInv'
<1> USE DEF TablesInv
<1>1. /\ step[s] = "note" /\ peer[s] \in Peers /\ s \in registered /\ frame[s] \in Rooms
      /\ framed' = [framed EXCEPT ![s] = @ \cup {frame[s]}]
      /\ step' = [step EXCEPT ![s] = "record"]
      /\ UNCHANGED <<peer, frame, registered, conns, order>>
  BY DEF Note, TablesType
<1>2. /\ present' \in [Rooms -> SUBSET Peers]
      /\ \A r \in Rooms : present'[r] \subseteq present[r] \cup (IF r = frame[s] THEN {peer[s]} ELSE {})
  BY <1>1 DEF Note, TablesType
<1>3. TablesType'
  BY <1>1, <1>2 DEF TablesType
<1>4. OrderInv'
  BY <1>1 DEF OrderInv
<1>5. \A t \in Sockets : (Open(t)' <=> Open(t)) /\ (Latest(t)' <=> Latest(t))
  BY <1>1 DEF Open, Latest, TablesType
<1>6. RouteInv'
  BY <1>1, <1>5, SMTT(30) DEF RouteInv, TablesType
<1>7. PresentInv'
  <2> SUFFICES ASSUME NEW r \in Rooms, NEW p \in present'[r]
               PROVE  \E t \in Sockets : peer'[t] = p /\ Open(t)' /\ r \in framed'[t]
    BY DEF PresentInv
  <2>1. CASE p \in present[r]
    BY <1>1, <1>5, <2>1 DEF PresentInv, TablesType
  <2>2. CASE p \notin present[r]
    <3>1. p = peer[s] /\ r = frame[s]
      BY <1>2, <2>2
    <3>2. Open(s) /\ r \in framed'[s]
      BY <1>1, <3>1, PeersAssumption DEF Open, TablesType
    <3> QED
      BY <1>1, <1>5, <3>1, <3>2
  <2> QED
    BY <2>1, <2>2
<1> QED
  BY <1>3, <1>4, <1>6, <1>7

\* The cleanup of a connection takes the route only when it leads to that connection, and
\* the client's presence only in the rooms that connection framed.
LEMMA CloseKeeps ==
    ASSUME TablesInv, NEW s \in Sockets, Close(s)
    PROVE  TablesInv'
<1> USE DEF TablesInv
<1>1. /\ peer[s] \in Peers /\ step[s] = "read"
      /\ step' = [step EXCEPT ![s] = "gone"]
      /\ UNCHANGED <<peer, frame, registered, framed, order>>
  BY DEF Close, Open, TablesType
<1>2. ~Open(s)' /\ \A t \in Sockets : (t # s => (Open(t)' <=> Open(t))) /\ (Latest(t)' <=> Latest(t))
  BY <1>1 DEF Open, Latest, TablesType
<1>3. \/ conns[peer[s]] = s /\ s \in registered /\ conns' = [conns EXCEPT ![peer[s]] = None]
      \/ (conns[peer[s]] # s \/ s \notin registered) /\ UNCHANGED conns
  BY DEF Close, ConnsWithout
<1>4. /\ present' \in [Rooms -> SUBSET Peers]
      /\ \A r \in Rooms : present'[r] \subseteq present[r] /\ (r \in framed[s] => peer[s] \notin present'[r])
  BY DEF Close, PresentWithout, TablesType
<1>5. TablesType'
  BY <1>1, <1>3, <1>4, PeersAssumption DEF TablesType
<1>6. OrderInv'
  BY <1>1 DEF OrderInv
<1>7. RouteInv'
  <2> SUFFICES ASSUME NEW q \in Peers
               PROVE  /\ conns'[q] # None => peer'[conns'[q]] = q /\ Latest(conns[q])' /\ Open(conns[q])'
                      /\ conns'[q] = None => ~\E t \in Sockets : peer'[t] = q /\ Latest(t)' /\ Open(t)'
    BY DEF RouteInv
  <2>1. conns[q] \in Sockets \cup {None}
    BY DEF TablesType
  <2>2. CASE conns[q] = s
    <3>1. peer[s] = q /\ Latest(s) /\ s \in registered
      BY <2>2, SocketsAssumption DEF RouteInv, Latest
    <3>2. conns'[q] = None
      BY <1>3, <2>2, <3>1 DEF TablesType
    <3> SUFFICES ASSUME NEW t \in Sockets, peer'[t] = q, Latest(t)', Open(t)'
                 PROVE  FALSE
      BY <3>2
    <3>3. Latest(t) /\ peer[t] = q /\ t # s
      BY <1>1, <1>2
    <3>4. order[t] = order[s] /\ t \in registered
      BY <3>1, <3>3 DEF Latest, TablesType
    <3> QED
      BY <3>1, <3>3, <3>4 DEF OrderInv
  <2>3. CASE conns[q] # s
    <3>1. conns'[q] = conns[q]
      BY <1>3, <2>3 DEF TablesType
    <3>2. CASE conns[q] # None
      <4>1. conns[q] \in Sockets /\ peer[conns[q]] = q /\ Latest(conns[q]) /\ Open(conns[q])
        BY <2>1, <3>2 DEF RouteInv
      <4> QED
        BY <1>1, <1>2, <2>3, <3>1, <3>2, <4>1
    <3>3. CASE conns[q] = None
      BY <1>1, <1>2, <3>1, <3>3 DEF RouteInv
    <3> QED
      BY <3>2, <3>3
  <2> QED
    BY <2>2, <2>3
<1>8. PresentInv'
  BY <1>1, <1>2, <1>4 DEF PresentInv
<1> QED
  BY <1>5, <1>6, <1>7, <1>8

\* What does not touch the tables keeps what is said about them.
LEMMA TablesStutter ==
    ASSUME TablesInv, UNCHANGED tables
    PROVE  TablesInv'
<1>1. UNCHANGED <<peer, step, frame, registered, framed, conns, present, order>>
  BY DEF tables
<1>2. TablesType' /\ OrderInv'
  BY <1>1 DEF TablesInv, TablesType, OrderInv
<1>3. RouteInv' /\ PresentInv'
  BY <1>1 DEF TablesInv, RouteInv, PresentInv, Open, Latest
<1> QED
  BY <1>2, <1>3 DEF TablesInv

\* Recording the room and forwarding the frame move the reader on, and the tables stay.
LEMMA ForwardKeeps ==
    ASSUME TablesInv, NEW s \in Sockets, Record(s) \/ Forward(s)
    PROVE  TablesInv'
<1> USE DEF TablesInv
<1>1. /\ \/ step[s] = "record" /\ step' = [step EXCEPT ![s] = "forward"]
         \/ step[s] = "forward" /\ step' = [step EXCEPT ![s] = "read"]
      /\ UNCHANGED <<peer, frame, registered, framed, conns, present, order>>
  BY DEF Record, Forward
<1>2. \A t \in Sockets : (Open(t)' <=> Open(t)) /\ (Latest(t)' <=> Latest(t))
  BY <1>1 DEF Open, Latest, TablesType
<1>3. TablesType'
  BY <1>1 DEF TablesType
<1>4. OrderInv'
  BY <1>1 DEF OrderInv
<1>5. RouteInv'
  BY <1>1, <1>2, SMTT(30) DEF RouteInv, TablesType
<1>6. PresentInv'
  BY <1>1, <1>2 DEF PresentInv
<1> QED
  BY <1>3, <1>4, <1>5, <1>6

\* Two connections of a client are never both its latest.
LEMMA LatestUnique ==
    ASSUME TablesType, OrderInv, NEW s \in Sockets, NEW t \in Sockets,
           Latest(s), Latest(t), peer[s] = peer[t]
    PROVE  s = t
<1>1. order[s] = order[t] /\ s \in registered /\ t \in registered
  BY DEF Latest, TablesType
<1> QED
  BY <1>1 DEF OrderInv

\* The inductive invariant says all that TablesFollow does.
LEMMA TablesImply ==
    ASSUME TablesInv
    PROVE  TablesFollow
<1> USE DEF TablesInv
<1>1. ASSUME NEW p \in Peers
      PROVE  conns[p] = IF \E s \in Sockets : peer[s] = p /\ Latest(s) /\ Open(s)
                        THEN CHOOSE s \in Sockets : peer[s] = p /\ Latest(s)
                        ELSE None
  <2>1. CASE conns[p] = None
    BY <2>1 DEF RouteInv
  <2>2. CASE conns[p] # None
    <3>1. conns[p] \in Sockets /\ peer[conns[p]] = p /\ Latest(conns[p]) /\ Open(conns[p])
      BY <2>2 DEF RouteInv, TablesType
    <3> DEFINE c == CHOOSE s \in Sockets : peer[s] = p /\ Latest(s)
    <3>2. c \in Sockets /\ peer[c] = p /\ Latest(c)
      BY <3>1
    <3>3. c = conns[p]
      BY <3>1, <3>2, LatestUnique
    <3> QED
      BY Zenon, <3>1, <3>3
  <2> QED
    BY <2>1, <2>2
<1> QED
  BY <1>1 DEF TablesFollow, PresentInv

\* The setup is chosen once.
SetupInv == setup \in Setups

\* No step of the homeserver changes it.
LEMMA SetupKept ==
    ASSUME SetupInv, [Next]_vars
    PROVE  SetupInv'
<1>1. CASE Clients \/ HostSeen \/ UNCHANGED vars
  BY <1>1 DEF SetupInv, Clients, HostSeen, roomVars, vars
<1>2. CASE Ticking
  BY <1>2 DEF SetupInv, Ticking, Tick
<1>3. CASE Commands
  BY Zenon, <1>3 DEF SetupInv, Commands, JoinRemote, AppendOp, Evict
<1> QED
  BY <1>1, <1>2, <1>3 DEF Next

\* Every step of the homeserver keeps the tables right.
LEMMA TablesKept ==
    ASSUME SetupInv, TablesInv, [Next]_vars
    PROVE  TablesInv'
<1>1. CASE Clients
  <2>1. setup.sockets \subseteq Sockets /\ setup.rooms \subseteq Rooms
    BY SetupsAssumption DEF SetupInv
  <2> QED
    BY <1>1, <2>1, AcceptKeeps, ReadKeeps, NoteKeeps, ForwardKeeps, CloseKeeps DEF Clients
<1>2. CASE HostSeen \/ Commands \/ UNCHANGED vars
  <2>1. UNCHANGED wsVars
    <3>1. CASE HostSeen \/ UNCHANGED vars
      BY <3>1 DEF HostSeen, vars
    <3>2. CASE Commands
      BY Zenon, <3>2 DEF Commands, JoinRemote, AppendOp, Evict
    <3> QED
      BY <1>2, <3>1, <3>2
  <2> QED
    BY <2>1, TablesStutter DEF wsVars, tables
<1>3. CASE Ticking
  <2>1. DrainInbound
    BY <1>3 DEF Ticking, Tick
  <2> QED
    BY <2>1, TablesStutter DEF DrainInbound, tables
<1> QED
  BY <1>1, <1>2, <1>3 DEF Next

\* For any clients, rooms and connections, a client is reached over the connection it
\* registered last while that is open, and is present only in rooms an open connection of
\* it has framed (WsServerTransport::bind, ws.rs).
THEOREM RoutesFollow == Spec => []TablesFollow
<1>1. Init => SetupInv /\ TablesInv
  <2> SUFFICES ASSUME Init
               PROVE  SetupInv /\ TablesInv
    OBVIOUS
  <2>1. SetupInv /\ TablesType
    BY DEF Init, WsInit, SetupInv, TablesType
  <2>2. OrderInv
    BY FS_EmptySet DEF Init, WsInit, OrderInv
  <2>3. RouteInv /\ PresentInv
    BY DEF Init, WsInit, RouteInv, PresentInv, Latest
  <2> QED
    BY <2>1, <2>2, <2>3 DEF TablesInv
<1>2. SetupInv /\ TablesInv /\ [Next]_vars => (SetupInv /\ TablesInv)'
  BY TablesKept, SetupKept
<1>3. SetupInv /\ TablesInv => TablesFollow
  BY TablesImply
<1> QED
  BY <1>1, <1>2, <1>3, PTL DEF Spec
=============================================================================
