------------------------------ MODULE RoomSync ------------------------------
(***************************************************************************)
(* The block sync of crates/roomnet (room.rs, driver.rs): one writer's     *)
(* feed travels from its owner to rooms that replicate and relay it, over  *)
(* transports that lose, repeat, delay and reorder frames, while rooms     *)
(* restart; an owner that lost its store gets its feed back from the       *)
(* others.                                                                 *)
(*                                                                         *)
(* A tree is the sequence of its blocks and a head the sequence it signs,  *)
(* <<>> for none; roomnet never truncates, so the fork stays 0.  A proof   *)
(* carries the roots of the tree it was made from, and verifies against    *)
(* the head of that very tree.  Indexes count from 1.  An entry carries    *)
(* its op and its clock, so every append makes a new one: entries are      *)
(* numbered as they are signed.                                            *)
(***************************************************************************)
EXTENDS Integers, Sequences, FiniteSets

CONSTANTS
    Owner,          \* the room that writes the feed
    Networks,       \* the networks considered (see network)
    NoHead,
    Absent          \* a key that was never written

ASSUME NetworksAssumption ==
    \A n \in Networks : /\ Owner \notin n.peers
                        /\ n.links \subseteq (n.peers \cup {Owner}) \X (n.peers \cup {Owner})
ASSUME NoHeadAssumption == NoHead = <<>>
ASSUME AbsentAssumption == Absent \notin Seq(Nat)

VARIABLES
    network,        \* peers, the other rooms; links, the pairs of rooms with a connection;
                    \* pushes, whether fanouts ever arrive; faults, the kinds that happen;
                    \* and the bounds maxFaults and maxSigned, on faults and signed entries
    local,          \* the owner's Hypercore: its blocks, all under its signed head
    saved,          \* what the owner's store would reopen
    target,         \* own_recovery: the head to recover, NoHead for none
    got,            \* own_recovery: the blocks received for it
    rep,            \* each peer's Replica of the feed: tree and verified head
    disk,           \* KEY_TREE and KEY_META of it in each peer's store
    lin,            \* how many entries of the feed each room's linearizer has
    pending,        \* the entries waiting for an earlier one, by index
    net,            \* every frame sent; it may arrive at any time, or several times
    signed,         \* every head the owner signed
    faults,         \* history: how often a room stopped or a persist failed
    harm            \* history: the faults that are not healed

AllRooms == {Owner} \cup UNION {n.peers : n \in Networks}
Peers == network.peers
Rooms == Peers \cup {Owner}

history == <<network, faults, harm>>
vars == <<local, saved, target, got, rep, disk, lin, pending, net, signed, history>>
owner == <<local, saved, target, got, signed>>
peers == <<rep, disk>>

NewReplica == [tree |-> <<>>, head |-> NoHead]

Init == /\ network \in Networks
        /\ local = <<>> /\ saved = <<>> /\ target = NoHead /\ got = {}
        /\ rep = [p \in Peers |-> NewReplica]
        /\ disk = [p \in Peers |-> [tree |-> <<>>, meta |-> Absent]]
        /\ lin = [r \in Rooms |-> 0] /\ pending = [r \in Rooms |-> {}]
        /\ net = {} /\ signed = {} /\ faults = 0 /\ harm = {}

IsPrefixOf(s, t) == Len(s) <= Len(t) /\ SubSeq(t, 1, Len(s)) = s
WriterLen(r) == IF r = Owner THEN Len(local) ELSE Len(rep[r].tree)

Neighbours(r) == {n \in Rooms : <<r, n>> \in network.links \/ <<n, r>> \in network.links}
Send(messages) == net' = net \cup messages

\* A fanout nobody asked for may be lost; replies are asked for again at every announcement.
Push(messages) == UNCHANGED net \/ (network.pushes /\ Send(messages))
ToAll(r, m) == {[m EXCEPT !.from = r, !.to = n] : n \in Neighbours(r)}

HeadMsg(h) == [type |-> "Head", from |-> Owner, to |-> Owner, head |-> h]
HaveMsg(n) == [type |-> "Have", from |-> Owner, to |-> Owner, length |-> n]
WantMsg(r, n, start, end) == [type |-> "Want", from |-> r, to |-> n, start |-> start, end |-> end]
BlockMsg(h, i, tree) ==
    [type |-> "Block", from |-> Owner, to |-> Owner,
     head |-> h, index |-> i, bytes |-> tree[i], proof |-> tree]

\* verify_block: the head is the writer's, and the proof's roots give the head's root.
VerifyBlock(m) == m.head \in signed /\ m.proof = m.head /\ m.index <= Len(m.proof)
                  /\ m.proof[m.index] = m.bytes
-----------------------------------------------------------------------------
NewEntry == Cardinality(signed) + 1

\* The early returns of local_append.
CanAppend == /\ target = NoHead /\ lin[Owner] = Len(local)
             /\ Cardinality(signed) < network.maxSigned

\* Mutant: the entry is published without being persisted.
LocalAppendUnsaved ==
    LET new == Append(local, NewEntry)
    IN /\ CanAppend
       /\ local' = new
       /\ signed' = signed \cup {new}
       /\ lin' = [lin EXCEPT ![Owner] = Len(new)]
       /\ Push(ToAll(Owner, HeadMsg(new)) \cup ToAll(Owner, BlockMsg(new, Len(new), new)))
       /\ UNCHANGED <<saved, target, got, peers, pending, history>>

\* local_append: the entry is signed, persisted, given to the linearizer and published.
LocalAppend ==
    LET new == Append(local, NewEntry)
    IN /\ CanAppend
       /\ local' = new /\ saved' = new
       /\ signed' = signed \cup {new}
       /\ lin' = [lin EXCEPT ![Owner] = Len(new)]
       /\ Push(ToAll(Owner, HeadMsg(new)) \cup ToAll(Owner, BlockMsg(new, Len(new), new)))
       /\ UNCHANGED <<target, got, peers, pending, history>>

\* announce, on connect and every few ticks.  The hello of an empty room, a Have of length 0,
\* changes nothing at its receivers and is left out.
Announce(r) ==
    /\ r \in Rooms
    /\ Send(IF r = Owner
            THEN IF local = <<>> THEN {} ELSE ToAll(r, HeadMsg(local))
            ELSE IF rep[r].head = NoHead THEN {}
            ELSE ToAll(r, HaveMsg(Len(rep[r].head))))
    /\ UNCHANGED <<owner, peers, lin, pending, history>>

\* Mutant: a room one block behind asks for nothing.
WantBehind(m, length) == IF length > WriterLen(m.to) + 1
                         THEN {WantMsg(m.to, m.from, WriterLen(m.to), length)} ELSE {}

\* Mutant: the owner asks for nothing.
WantNotOwner(m, length) == IF m.to # Owner /\ length > WriterLen(m.to)
                           THEN {WantMsg(m.to, m.from, WriterLen(m.to), length)} ELSE {}

\* The request for what a room lacks of a feed of the given length.
Want(m, length) == IF length > WriterLen(m.to)
                   THEN {WantMsg(m.to, m.from, WriterLen(m.to), length)} ELSE {}

\* begin_own_recovery of a head longer than the local feed: a longer one replaces the target.
BeginOwnRecovery(h) ==
    /\ target' = IF Len(h) > Len(target) THEN h ELSE target
    /\ got' = IF Len(h) > Len(target) THEN {} ELSE got

\* The Head arm.  Another head of the target's length, or of the local one, is an error.
OnHead(m) ==
    /\ m.type = "Head"
    /\ IF m.to = Owner /\ Len(m.head) > Len(local)
       THEN /\ Len(m.head) = Len(target) => m.head = target
            /\ BeginOwnRecovery(m.head)
       ELSE /\ m.to = Owner /\ Len(m.head) = Len(local) => m.head = local
            /\ UNCHANGED <<target, got>>
    /\ Send(Want(m, Len(m.head)))
    /\ UNCHANGED <<local, saved, signed, peers, lin, pending, history>>

OnHave(m) ==
    /\ m.type = "Have"
    /\ Send(Want(m, m.length))
    /\ UNCHANGED <<owner, peers, lin, pending, history>>

\* The tree a relay makes its proofs from.
ProofTree(r) == IF r = Owner THEN local ELSE rep[r].tree
ServedHead(r) == IF r = Owner THEN local ELSE rep[r].head

\* The Want arm: the owner and the relays serve alike, up to their head.
OnWant(m) ==
    LET head == ServedHead(m.to)
        hi == IF m.end < Len(head) THEN m.end ELSE Len(head)
    IN /\ m.type = "Want"
       /\ Send({[BlockMsg(head, i, ProofTree(m.to)) EXCEPT !.from = m.to, !.to = m.from] :
                   i \in m.start + 1 .. hi})
       /\ UNCHANGED <<owner, peers, lin, pending, history>>
-----------------------------------------------------------------------------
\* Where drain_pending ends: the last of the waiting entries that follow entry n without a gap.
Drained(n, waiting) ==
    CHOOSE e \in n .. n + Cardinality(waiting) : n + 1 .. e \subseteq waiting /\ e + 1 \notin waiting

\* try_add_node and drain_pending: entry i of the feed reaches r's linearizer, or waits.
TryAddNode(r, i) ==
    LET waiting == pending[r] \cup {i}
        end == Drained(lin[r], waiting)
    IN /\ lin' = [lin EXCEPT ![r] = end]
       /\ pending' = [pending EXCEPT ![r] = waiting \ (lin[r] + 1 .. end)]

\* add_block of a Replica.
Accepts(p, m) == m.index = Len(rep[p].tree) + 1 /\ VerifyBlock(m)
WithBlock(p, m) ==
    LET tree == Append(rep[p].tree, m.bytes)
    IN [tree |-> tree, head |-> IF tree = m.head THEN m.head ELSE rep[p].head]

\* What a persist of replica r leaves in a store: KEY_TREE is put first, then KEY_META.
Persisted(r) == [tree |-> r.tree, meta |-> r.head]
HalfPersisted(p, r) == [disk[p] EXCEPT !.tree = r.tree]

\* The Block arm at a peer: ingest_remote_block, persist included, and the fanout.
OnBlock(m) ==
    /\ m.type = "Block" /\ m.to # Owner
    /\ Accepts(m.to, m)
    /\ rep' = [rep EXCEPT ![m.to] = WithBlock(m.to, m)]
    /\ disk' = [disk EXCEPT ![m.to] = Persisted(WithBlock(m.to, m))]
    /\ TryAddNode(m.to, m.index)
    /\ Push(ToAll(m.to, m))
    /\ UNCHANGED <<owner, history>>

\* The blocks of the goal that the owner neither has nor gathered.
Missing(goal, blocks) == {i \in Len(local) + 1 .. Len(goal) : \A b \in blocks : b[1] # i}

\* The local feed, followed by the gathered blocks.
WithSuffix(goal, blocks) ==
    [i \in 1 .. Len(goal) |->
        IF i <= Len(local) THEN local[i] ELSE (CHOOSE b \in blocks : b[1] = i)[2]]

\* Mutant: the suffix is only counted.
VerifyLength(feed, head) == Len(feed) = Len(head)

\* verify_archived_feed, in recover_signed_suffix: the whole feed is what the head signs.
VerifyArchivedFeed(feed, head) == feed = head /\ head \in signed

\* recover_own_block: the suffix is taken once every block of the target is there.  When
\* recover_signed_suffix refuses it, target and blocks stay.
OnOwnBlock(m) ==
    /\ m.type = "Block" /\ m.to = Owner
    /\ Len(m.head) > Len(local) /\ VerifyBlock(m)
    /\ Len(m.head) = Len(target) => m.head = target
    /\ LET goal == IF Len(m.head) > Len(target) THEN m.head ELSE target
           held == IF goal = target THEN got ELSE {}
           mine == IF m.head = goal /\ m.index > Len(local)
                   THEN held \cup {<<m.index, m.bytes>>} ELSE held
           feed == WithSuffix(goal, mine)
       IN IF /\ m.head = goal /\ m.index > Len(local)
             /\ Missing(goal, mine) = {} /\ VerifyArchivedFeed(feed, goal)
          THEN /\ local' = feed /\ saved' = feed
               /\ target' = NoHead /\ got' = {}
               /\ lin' = [lin EXCEPT ![Owner] = Len(feed)]
          ELSE /\ target' = goal /\ got' = mine
               /\ UNCHANGED <<local, saved, lin>>
    /\ UNCHANGED <<signed, peers, pending, net, history>>

Handle(m) == OnHead(m) \/ OnHave(m) \/ OnWant(m) \/ OnBlock(m) \/ OnOwnBlock(m)
-----------------------------------------------------------------------------
\* Replica::open: the verified head vouches for the tree, which is cut to it.  Without a head
\* the tree stays as it is, and without one of the keys the room starts over.
Opened(d) == IF d.meta = Absent THEN NewReplica
             ELSE IF d.meta = NoHead THEN [tree |-> d.tree, head |-> NoHead]
             ELSE [tree |-> SubSeq(d.tree, 1, Len(d.meta)), head |-> d.meta]

Fault(kind) == /\ kind \in network.faults /\ faults < network.maxFaults
               /\ faults' = faults + 1 /\ UNCHANGED network
Harm(kind, r) == Fault(kind) /\ harm' = harm \cup {<<kind, r>>}

\* Room::open of a peer whose store holds d: replay feeds its linearizer.
ReopenPeer(p, d) ==
    /\ disk' = [disk EXCEPT ![p] = d]
    /\ rep' = [rep EXCEPT ![p] = Opened(d)]
    /\ lin' = [lin EXCEPT ![p] = Len(Opened(d).tree)]
    /\ pending' = [pending EXCEPT ![p] = {}]
    /\ UNCHANGED <<owner, net>>

\* A peer stops between two messages, or in one before persist, and is opened again.
RestartPeer(p) ==
    /\ Fault("restart") /\ harm' = harm \ {<<"unfed", p>>}
    /\ ReopenPeer(p, disk[p])

\* A peer stops inside persist, between its two keys, and is opened again.
RestartInPersist(m) ==
    /\ m.type = "Block" /\ m.to # Owner /\ Accepts(m.to, m)
    /\ Fault("torn") /\ harm' = (harm \ {<<"unfed", m.to>>}) \cup {<<"torn", m.to>>}
    /\ ReopenPeer(m.to, HalfPersisted(m.to, WithBlock(m.to, m)))

Reopen(stored) ==
    /\ local' = stored /\ saved' = stored /\ target' = NoHead /\ got' = {}
    /\ lin' = [lin EXCEPT ![Owner] = Len(stored)]
    /\ UNCHANGED <<signed, peers, pending, net>>

RestartOwner == Reopen(saved) /\ Fault("restart") /\ UNCHANGED harm

\* The owner comes back without its store, in a fresh container or after an eviction.
LoseStore == saved # <<>> /\ Reopen(<<>>) /\ Harm("lost", Owner)

\* persist fails in local_append: the error is returned, the signed entry stays in memory.
AppendPersistFails ==
    /\ CanAppend /\ Harm("unsaved", Owner)
    /\ local' = Append(local, NewEntry)
    /\ signed' = signed \cup {local'}
    /\ UNCHANGED <<saved, target, got, peers, lin, pending, net>>

\* persist fails in ingest_remote_block, at one key or the other: the block stays in the
\* replica, and the linearizer never sees it.  A put that failed may have been carried out.
IngestPersistFails(m) ==
    /\ m.type = "Block" /\ m.to # Owner /\ Accepts(m.to, m)
    /\ rep' = [rep EXCEPT ![m.to] = WithBlock(m.to, m)]
    /\ \/ /\ Harm("unfed", m.to)
          /\ \/ UNCHANGED disk
             \/ disk' = [disk EXCEPT ![m.to] = Persisted(WithBlock(m.to, m))]
       \/ /\ Fault("unfed") /\ harm' = harm \cup {<<"unfed", m.to>>, <<"torn", m.to>>}
          /\ disk' = [disk EXCEPT ![m.to] = HalfPersisted(m.to, WithBlock(m.to, m))]
    /\ UNCHANGED <<owner, lin, pending, net>>
-----------------------------------------------------------------------------
Next == \/ LocalAppend \/ AppendPersistFails
        \/ \E r \in Rooms : Announce(r)
        \/ \E m \in net : Handle(m) \/ IngestPersistFails(m) \/ RestartInPersist(m)
        \/ RestartOwner \/ LoseStore
        \/ \E p \in Peers : RestartPeer(p)

\* The drivers announce again and again, so a frame of each kind arrives in the end.
Fairness == /\ \A r \in AllRooms : WF_vars(Announce(r))
            /\ WF_vars(\E m \in net : Handle(m))

Spec == Init /\ [][Next]_vars /\ Fairness
-----------------------------------------------------------------------------
\* Every replica, in memory and on disk, holds a prefix of what the owner's store would
\* reopen: no room ever has an entry that a restart of the owner could replace, unless the
\* owner's store was lost or failed.
ReplicasFollow ==
    harm \cap {<<"lost", Owner>>, <<"unsaved", Owner>>} = {} =>
        \A p \in Peers : IsPrefixOf(rep[p].tree, saved) /\ IsPrefixOf(disk[p].tree, saved)

\* What the owner has, in memory, in its store or as the goal of a recovery, is a feed it
\* signed: it is rebuilt out of blocks from anybody, in any order, over whatever the owner
\* appended in the meantime, and never mixes two histories (recover_own_block).  And a
\* recovery that has all its blocks is over, unless the owner had signed another entry in
\* their place.
RecoverySound ==
    /\ {local, saved, target} \subseteq signed \cup {NoHead}
    /\ target # NoHead /\ Missing(target, got) = {} => ~IsPrefixOf(local, target)

\* A peer whose persist stopped between its two keys, before it had a head: it has the whole
\* feed and no head, asks for nothing and serves nothing, until the owner appends again.
Headless(p) == <<"torn", p>> \in harm /\ rep[p].tree = saved /\ rep[p].head = NoHead

\* Every room ends up with every entry of the feed, also over a relay, and its linearizer
\* gets them all, unless the owner's store was lost or failed, a peer is headless, or a
\* peer's store failed: then the entry is missing from its linearizer until it restarts.
CaughtUp == \A r \in Rooms : lin[r] = Len(saved) /\ WriterLen(r) = Len(saved)
Converges == <>[](\/ CaughtUp
                  \/ \E p \in Peers : Headless(p)
                  \/ \E h \in harm : h[1] # "torn")

\* An owner that lost its store gets back the newest head it was told of, and every head of
\* a peer that can prove it: one whose tree is at its head, not past it.  Only an owner that
\* appended before it heard of its own feed, or that was told of a head of which no peer has
\* every block, gets nothing back.
OneHistory == \A h, k \in signed : IsPrefixOf(h, k) \/ IsPrefixOf(k, h)
NobodyHas(h) == h # NoHead /\ \A p \in Peers : rep[p].head # h
OwnFeedRecovered ==
    <>[](harm \subseteq {<<"lost", Owner>>} /\ OneHistory /\ ~NobodyHas(target) =>
         \A p \in Peers : rep[p].tree = rep[p].head => IsPrefixOf(rep[p].head, local))
=============================================================================
