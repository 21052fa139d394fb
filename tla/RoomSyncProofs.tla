--------------------------- MODULE RoomSyncProofs ---------------------------
(***************************************************************************)
(* The safety of the block sync of a feed, for every network, every number *)
(* of faults and every length of the feed: replicas follow the owner, and  *)
(* the owner recovers only what it signed, and all of it once it has the   *)
(* blocks.                                                                 *)
(***************************************************************************)
EXTENDS RoomSync, FiniteSetTheorems, TLAPS

Feeds == Seq(Nat)

\* A prefix is shorter and has the same entries.
LEMMA PrefixMeans ==
    ASSUME NEW s \in Feeds, NEW t \in Feeds
    PROVE  IsPrefixOf(s, t) <=> Len(s) <= Len(t) /\ \A i \in 1 .. Len(s) : s[i] = t[i]
<1>1. Len(s) \in Nat /\ Len(t) \in Nat
  BY DEF Feeds
<1>2. CASE Len(s) <= Len(t)
  <2> DEFINE u == SubSeq(t, 1, Len(s))
  <2>1. u \in Feeds /\ Len(u) = Len(s) /\ \A i \in 1 .. Len(s) : u[i] = t[i]
    BY <1>1, <1>2 DEF Feeds
  <2>2. u = s <=> \A i \in 1 .. Len(s) : u[i] = s[i]
    BY <2>1 DEF Feeds
  <2>. QED  BY <1>2, <2>1, <2>2 DEF IsPrefixOf
<1>3. CASE ~(Len(s) <= Len(t))
  BY <1>3 DEF IsPrefixOf
<1>. QED  BY <1>2, <1>3

\* A feed is a prefix of itself, the empty one of every feed, and prefixes are transitive.
LEMMA PrefixOrder ==
    ASSUME NEW s \in Feeds, NEW t \in Feeds, NEW u \in Feeds
    PROVE  /\ IsPrefixOf(s, s) /\ IsPrefixOf(<<>>, s)
           /\ IsPrefixOf(s, t) /\ IsPrefixOf(t, u) => IsPrefixOf(s, u)
<1>1. IsPrefixOf(s, s)
  BY PrefixMeans
<1>2. IsPrefixOf(<<>>, s)
  <2>1. <<>> \in Feeds /\ Len(<<>>) = 0 /\ Len(s) \in Nat
    BY DEF Feeds
  <2>. QED  BY <2>1, PrefixMeans
<1>3. ASSUME IsPrefixOf(s, t), IsPrefixOf(t, u) PROVE IsPrefixOf(s, u)
  <2>1. Len(s) \in Nat /\ Len(t) \in Nat /\ Len(u) \in Nat
    BY DEF Feeds
  <2>2. /\ Len(s) <= Len(t) /\ \A i \in 1 .. Len(s) : s[i] = t[i]
        /\ Len(t) <= Len(u) /\ \A i \in 1 .. Len(t) : t[i] = u[i]
    BY <1>3, PrefixMeans
  <2>. QED  BY <2>1, <2>2, PrefixMeans
<1>. QED  BY <1>1, <1>2, <1>3

\* A feed is a prefix of its extension by an entry.
LEMMA AppendExtends ==
    ASSUME NEW s \in Feeds, NEW e \in Nat
    PROVE  /\ Append(s, e) \in Feeds /\ IsPrefixOf(s, Append(s, e))
           /\ Len(Append(s, e)) = Len(s) + 1 /\ Append(s, e)[Len(s) + 1] = e
           /\ Append(s, e) # <<>>
<1>1. /\ Append(s, e) \in Feeds /\ Len(Append(s, e)) = Len(s) + 1 /\ Len(s) \in Nat
      /\ Append(s, e)[Len(s) + 1] = e /\ \A i \in 1 .. Len(s) : Append(s, e)[i] = s[i]
  BY DEF Feeds
<1>2. IsPrefixOf(s, Append(s, e))
  <2>1. Len(s) <= Len(Append(s, e)) /\ \A i \in 1 .. Len(s) : s[i] = Append(s, e)[i]
    BY <1>1
  <2>. QED  BY <1>1, <2>1, PrefixMeans, Zenon
<1>3. Append(s, e) # <<>>
  <2>1. Len(<<>>) = 0 /\ Len(s) + 1 # 0
    BY <1>1
  <2>. QED  BY <1>1, <2>1
<1>. QED  BY <1>1, <1>2, <1>3

\* A prefix followed by the next entry of a feed is a prefix of the feed.
LEMMA NextEntryExtends ==
    ASSUME NEW s \in Feeds, NEW t \in Feeds, IsPrefixOf(s, t), Len(s) < Len(t)
    PROVE  IsPrefixOf(Append(s, t[Len(s) + 1]), t)
<1>1. Len(s) \in Nat /\ Len(t) \in Nat /\ Len(s) + 1 \in 1 .. Len(t)
  BY DEF Feeds
<1>2. t[Len(s) + 1] \in Nat
  BY <1>1 DEF Feeds
<1> DEFINE u == Append(s, t[Len(s) + 1])
<1>3. /\ u \in Feeds /\ Len(u) = Len(s) + 1 /\ u[Len(s) + 1] = t[Len(s) + 1]
      /\ \A i \in 1 .. Len(s) : u[i] = s[i]
  BY <1>2 DEF Feeds
<1>4. \A i \in 1 .. Len(s) : s[i] = t[i]
  BY PrefixMeans
<1>5. \A i \in 1 .. Len(u) : u[i] = t[i]
  <2>1. ASSUME NEW i \in 1 .. Len(u) PROVE u[i] = t[i]
    <3>1. i \in 1 .. Len(s) \/ i = Len(s) + 1
      BY <1>1, <1>3
    <3>. QED  BY <1>3, <1>4, <3>1
  <2>. QED  BY <2>1
<1> HIDE DEF u
<1>6. IsPrefixOf(u, t)
  BY <1>1, <1>3, <1>5, PrefixMeans
<1>. QED  BY <1>6 DEF u

\* Cutting a feed after a prefix gives the prefix.
LEMMA CutToPrefix ==
    ASSUME NEW s \in Feeds, NEW t \in Feeds, IsPrefixOf(s, t)
    PROVE  SubSeq(t, 1, Len(s)) = s
  BY DEF IsPrefixOf
-----------------------------------------------------------------------------
\* A head some room shows: one the owner signed, or none.
Known == signed \cup {<<>>}

\* A replica's tree extends the head it verified.
Replicas == {r \in [tree : Feeds, head : Feeds] : r.head \in Known /\ IsPrefixOf(r.head, r.tree)}

\* A store that was written: the tree in it extends the head in it, if there is one.
Stores == {d \in [tree : Feeds, meta : Feeds \cup {Absent}] :
              d.meta # Absent => d.meta \in Known /\ IsPrefixOf(d.meta, d.tree)}

HeadFrames == [type : {"Head"}, from : Rooms, to : Rooms, head : signed]
HaveFrames == [type : {"Have"}, from : Rooms, to : Rooms, length : Nat]
WantFrames == [type : {"Want"}, from : Rooms, to : Rooms, start : Nat, end : Nat]
BlockFrames == [type : {"Block"}, from : Rooms, to : Rooms,
                head : Feeds, index : Nat \ {0}, bytes : Nat, proof : Feeds]
Frames == HeadFrames \cup HaveFrames \cup WantFrames \cup BlockFrames

\* Everything that is announced, stored, recovered or served goes back to a head the owner
\* signed: what the owner has in memory and in its store is a signed feed, and so is what it
\* recovers; the blocks it gathered for a recovery are those of its target.  A head in a
\* peer's store is one that the replica in memory extends, too: the next persist may write
\* the tree and stop.
SyncInv ==
    /\ network \in Networks
    /\ signed \subseteq Feeds \ {<<>>} /\ IsFiniteSet(signed)
    /\ local \in Known /\ saved \in Known /\ target \in Known
    /\ got \subseteq {<<i, target[i]>> : i \in 1 .. Len(target)}
    /\ rep \in [Peers -> Replicas] /\ disk \in [Peers -> Stores]
    /\ \A p \in Peers : disk[p].meta # Absent => IsPrefixOf(disk[p].meta, rep[p].tree)
    /\ net \subseteq Frames

\* Without a lost or failed store of the owner, memory and store agree, and all that was
\* ever signed or replicated is a prefix of them.
FollowInv ==
    harm \cap {<<"lost", Owner>>, <<"unsaved", Owner>>} = {} =>
        /\ local = saved
        /\ \A h \in signed : IsPrefixOf(h, saved)
        /\ \A p \in Peers : IsPrefixOf(rep[p].tree, saved) /\ IsPrefixOf(disk[p].tree, saved)

\* A recovery is for a feed longer than the local one; when its blocks are all there, the
\* local feed contradicts it.
GoalInv ==
    target # NoHead =>
        /\ Len(target) > Len(local)
        /\ Missing(target, got) = {} => ~IsPrefixOf(local, target)

\* What the invariants say of the rooms and of the empty head.
LEMMA Basics ==
    ASSUME SyncInv
    PROVE  /\ Owner \in Rooms /\ Owner \notin Peers /\ \A r \in Rooms : Neighbours(r) \subseteq Rooms
           /\ Known \subseteq Feeds /\ <<>> \in Known /\ NoHead = <<>>
           /\ \A r \in Rooms : WriterLen(r) \in Nat /\ ProofTree(r) \in Feeds
                               /\ ServedHead(r) \in Known /\ IsPrefixOf(ServedHead(r), ProofTree(r))
<1>1. /\ Owner \in Rooms /\ Owner \notin Peers
      /\ \A r \in Rooms : Neighbours(r) \subseteq Rooms
  <2>1. Owner \notin Peers
    BY NetworksAssumption DEF SyncInv, Peers
  <2>. QED  BY <2>1 DEF Rooms, Neighbours
<1>2. Known \subseteq Feeds /\ <<>> \in Known /\ NoHead = <<>>
  <2>1. <<>> \in Feeds
    BY DEF Feeds
  <2>. QED  BY <2>1, NoHeadAssumption DEF SyncInv, Known
<1>3. ASSUME NEW r \in Rooms
      PROVE  WriterLen(r) \in Nat /\ ProofTree(r) \in Feeds
             /\ ServedHead(r) \in Known /\ IsPrefixOf(ServedHead(r), ProofTree(r))
  <2>1. CASE r = Owner
    <3>1. local \in Feeds /\ local \in Known /\ IsPrefixOf(local, local)
      BY <1>2, PrefixOrder DEF SyncInv
    <3>2. Len(local) \in Nat
      BY <3>1 DEF Feeds
    <3>. QED  BY <2>1, <3>1, <3>2 DEF WriterLen, ProofTree, ServedHead
  <2>2. CASE r # Owner
    <3>1. r \in Peers
      BY <2>2 DEF Rooms
    <3>2. rep[r] \in Replicas
      BY <3>1 DEF SyncInv
    <3>3. rep[r].tree \in Feeds /\ rep[r].head \in Known /\ IsPrefixOf(rep[r].head, rep[r].tree)
      BY <3>2 DEF Replicas
    <3>4. Len(rep[r].tree) \in Nat
      BY <3>3 DEF Feeds
    <3>. QED  BY <2>2, <3>3, <3>4 DEF WriterLen, ProofTree, ServedHead
  <2>. QED  BY <2>1, <2>2
<1>. QED  BY <1>1, <1>2, <1>3

\* What was sent, shown or stored stays so when the owner signs more.
LEMMA MoreSigned ==
    ASSUME signed \subseteq signed', UNCHANGED network
    PROVE  /\ Known \subseteq Known' /\ Replicas \subseteq Replicas' /\ Stores \subseteq Stores'
           /\ Frames \subseteq Frames' /\ Rooms' = Rooms /\ Peers' = Peers
<1>1. Rooms' = Rooms /\ Peers' = Peers /\ Known \subseteq Known'
  BY DEF Rooms, Peers, Known
<1>2. Replicas \subseteq Replicas' /\ Stores \subseteq Stores'
  BY <1>1 DEF Replicas, Stores
<1>3. /\ HeadFrames \subseteq HeadFrames' /\ HaveFrames' = HaveFrames /\ WantFrames' = WantFrames
      /\ BlockFrames' = BlockFrames
  BY <1>1 DEF HeadFrames, HaveFrames, WantFrames, BlockFrames
<1>. QED  BY <1>1, <1>2, <1>3 DEF Frames

\* A frame for all neighbours of a room is of the same kind.
LEMMA ToAllFrames ==
    ASSUME SyncInv, NEW r \in Rooms
    PROVE  /\ \A m \in HeadFrames : ToAll(r, m) \subseteq HeadFrames
           /\ \A m \in HaveFrames : ToAll(r, m) \subseteq HaveFrames
           /\ \A m \in BlockFrames : ToAll(r, m) \subseteq BlockFrames
<1>1. Neighbours(r) \subseteq Rooms
  BY Basics
<1>2. ASSUME NEW m \in HeadFrames, NEW n \in Rooms
      PROVE  [m EXCEPT !.from = r, !.to = n] \in HeadFrames
  BY Zenon DEF HeadFrames
<1>3. ASSUME NEW m \in HaveFrames, NEW n \in Rooms
      PROVE  [m EXCEPT !.from = r, !.to = n] \in HaveFrames
  BY Zenon DEF HaveFrames
<1>4. ASSUME NEW m \in BlockFrames, NEW n \in Rooms
      PROVE  [m EXCEPT !.from = r, !.to = n] \in BlockFrames
  BY Zenon DEF BlockFrames
<1>. QED  BY Zenon, <1>1, <1>2, <1>3, <1>4 DEF ToAll

\* The frames rooms make.
LEMMA MadeFrames ==
    ASSUME SyncInv
    PROVE  /\ \A h \in signed : HeadMsg(h) \in HeadFrames
           /\ \A n \in Nat : HaveMsg(n) \in HaveFrames
           /\ \A r, n \in Rooms, start, end \in Nat : WantMsg(r, n, start, end) \in WantFrames
           /\ \A h, t \in Feeds : \A i \in 1 .. Len(t) : BlockMsg(h, i, t) \in BlockFrames
<1>1. Owner \in Rooms
  BY Basics
<1>2. ASSUME NEW h \in Feeds, NEW t \in Feeds, NEW i \in 1 .. Len(t)
      PROVE  BlockMsg(h, i, t) \in BlockFrames
  <2>1. t[i] \in Nat /\ i \in Nat \ {0}
    BY DEF Feeds
  <2>. QED  BY <1>1, <2>1 DEF BlockMsg, BlockFrames
<1>. QED  BY <1>1, <1>2 DEF HeadMsg, HeadFrames, HaveMsg, HaveFrames, WantMsg, WantFrames

\* A request names the rooms of the frame it answers.
LEMMA WantFrame ==
    ASSUME SyncInv, NEW m \in Frames, NEW length \in Nat
    PROVE  Want(m, length) \subseteq Frames
<1>1. m.to \in Rooms /\ m.from \in Rooms
  BY DEF Frames, HeadFrames, HaveFrames, WantFrames, BlockFrames
<1>2. WriterLen(m.to) \in Nat
  BY <1>1, Basics
<1>. QED  BY <1>1, <1>2, MadeFrames DEF Want, Frames

\* A block that verifies is the entry of a signed head at its index.
LEMMA VerifiedBlock ==
    ASSUME SyncInv, NEW m \in BlockFrames, VerifyBlock(m)
    PROVE  /\ m.head \in signed /\ m.head \in Feeds /\ m.index \in 1 .. Len(m.head)
           /\ m.bytes = m.head[m.index] /\ m.bytes \in Nat
<1>1. m.head \in Feeds /\ m.index \in Nat \ {0} /\ m.bytes \in Nat
  BY DEF BlockFrames
<1>. QED  BY <1>1 DEF VerifyBlock, Feeds

\* The kind of a frame is its type.
LEMMA FrameKinds ==
    ASSUME NEW m \in Frames
    PROVE  /\ m.type = "Head" => m \in HeadFrames
           /\ m.type = "Have" => m \in HaveFrames
           /\ m.type = "Want" => m \in WantFrames
           /\ m.type = "Block" => m \in BlockFrames
  BY DEF Frames, HeadFrames, HaveFrames, WantFrames, BlockFrames

\* A replica that takes a block stays one, and only grows.
LEMMA ReplicaTakes ==
    ASSUME SyncInv, NEW p \in Peers, NEW m \in BlockFrames, Accepts(p, m)
    PROVE  /\ WithBlock(p, m) \in Replicas /\ IsPrefixOf(rep[p].tree, WithBlock(p, m).tree)
           /\ WithBlock(p, m).tree = Append(rep[p].tree, m.head[Len(rep[p].tree) + 1])
           /\ m.head \in signed /\ Len(rep[p].tree) < Len(m.head)
<1>1. /\ m.head \in signed /\ m.head \in Feeds /\ m.index \in 1 .. Len(m.head)
      /\ m.bytes = m.head[m.index] /\ m.bytes \in Nat /\ m.index = Len(rep[p].tree) + 1
  BY VerifiedBlock DEF Accepts
<1>2. /\ rep[p].tree \in Feeds /\ rep[p].head \in Feeds /\ rep[p].head \in Known
      /\ IsPrefixOf(rep[p].head, rep[p].tree)
  BY DEF SyncInv, Replicas
<1> DEFINE t == Append(rep[p].tree, m.bytes)
<1>3. t \in Feeds /\ IsPrefixOf(rep[p].tree, t)
  BY <1>1, <1>2, AppendExtends
<1>4. IsPrefixOf(rep[p].head, t) /\ IsPrefixOf(t, t)
  BY <1>2, <1>3, PrefixOrder
<1>5. m.head \in Known
  BY <1>1 DEF Known
<1>6. WithBlock(p, m) \in Replicas /\ WithBlock(p, m).tree = t
  BY Zenon, <1>1, <1>2, <1>3, <1>4, <1>5 DEF WithBlock, Replicas
<1>7. Len(rep[p].tree) \in Nat /\ Len(m.head) \in Nat
  BY <1>1, <1>2 DEF Feeds
<1>8. Len(rep[p].tree) < Len(m.head) /\ t = Append(rep[p].tree, m.head[Len(rep[p].tree) + 1])
  BY <1>1, <1>7
<1>. QED  BY <1>1, <1>3, <1>6, <1>8

\* What a persist writes, whole or half, is a store again; the head in it is a prefix of the
\* new tree.
LEMMA StoreTakes ==
    ASSUME SyncInv, NEW p \in Peers, NEW r \in Replicas, IsPrefixOf(rep[p].tree, r.tree)
    PROVE  /\ Persisted(r) \in Stores /\ Persisted(r).tree = r.tree
           /\ HalfPersisted(p, r) \in Stores /\ HalfPersisted(p, r).tree = r.tree
           /\ \A d \in {disk[p], HalfPersisted(p, r), Persisted(r)} :
                 d.meta # Absent => IsPrefixOf(d.meta, r.tree)
<1>1. r.tree \in Feeds /\ r.head \in Feeds /\ r.head \in Known /\ IsPrefixOf(r.head, r.tree)
  BY DEF Replicas
<1>2. /\ disk[p] \in [tree : Feeds, meta : Feeds \cup {Absent}] /\ rep[p].tree \in Feeds
      /\ disk[p].meta # Absent => disk[p].meta \in Known /\ disk[p].meta \in Feeds
                                /\ IsPrefixOf(disk[p].meta, rep[p].tree)
  BY DEF SyncInv, Stores, Replicas
<1>3. disk[p].meta # Absent => IsPrefixOf(disk[p].meta, r.tree)
  BY <1>1, <1>2, PrefixOrder
<1>4. Persisted(r) = [tree |-> r.tree, meta |-> r.head]
  BY DEF Persisted
<1>5. HalfPersisted(p, r) = [tree |-> r.tree, meta |-> disk[p].meta]
  BY <1>2 DEF HalfPersisted
<1>. QED  BY <1>1, <1>2, <1>3, <1>4, <1>5 DEF Stores

\* A replica that is opened again shows a prefix of what was stored, and extends its head.
LEMMA ReplicaOpens ==
    ASSUME SyncInv, NEW d \in Stores
    PROVE  /\ Opened(d) \in Replicas /\ Opened(d).tree \in Feeds
           /\ IsPrefixOf(Opened(d).tree, d.tree)
           /\ d.meta # Absent => IsPrefixOf(d.meta, Opened(d).tree)
<1>1. /\ d \in [tree : Feeds, meta : Feeds \cup {Absent}]
      /\ d.meta # Absent => d.meta \in Known /\ d.meta \in Feeds /\ IsPrefixOf(d.meta, d.tree)
  BY DEF Stores
<1>2. <<>> \in Known /\ <<>> \in Feeds /\ NoHead = <<>>
  BY Basics
<1>3. CASE d.meta = Absent
  <2>1. Opened(d) = [tree |-> <<>>, head |-> <<>>]
    BY <1>2, <1>3 DEF Opened, NewReplica
  <2>2. IsPrefixOf(<<>>, <<>>) /\ IsPrefixOf(<<>>, d.tree)
    BY <1>1, <1>2, PrefixOrder
  <2>. QED  BY <1>2, <1>3, <2>1, <2>2 DEF Replicas
<1>4. CASE d.meta # Absent /\ d.meta = NoHead
  <2>1. Opened(d) = [tree |-> d.tree, head |-> <<>>]
    BY <1>2, <1>4 DEF Opened
  <2>2. IsPrefixOf(<<>>, d.tree) /\ IsPrefixOf(d.tree, d.tree)
    BY <1>1, <1>2, PrefixOrder
  <2>. QED  BY <1>1, <1>2, <1>4, <2>1, <2>2 DEF Replicas
<1>5. CASE d.meta # Absent /\ d.meta # NoHead
  <2>1. SubSeq(d.tree, 1, Len(d.meta)) = d.meta
    BY <1>1, <1>5, CutToPrefix
  <2>2. Opened(d) = [tree |-> d.meta, head |-> d.meta]
    BY <1>5, <2>1 DEF Opened
  <2>3. IsPrefixOf(d.meta, d.meta)
    BY <1>1, <1>5, PrefixOrder
  <2>. QED  BY <1>1, <1>5, <2>2, <2>3 DEF Replicas
<1>. QED  BY <1>3, <1>4, <1>5
-----------------------------------------------------------------------------
\* What a step that signs nothing has to show.
LEMMA SameSigned ==
    ASSUME SyncInv, UNCHANGED <<network, signed>>,
           local' \in Known, saved' \in Known, target' \in Known,
           got' \subseteq {<<i, target'[i]>> : i \in 1 .. Len(target')},
           rep' \in [Peers -> Replicas], disk' \in [Peers -> Stores],
           \A p \in Peers : disk'[p].meta # Absent => IsPrefixOf(disk'[p].meta, rep'[p].tree),
           net' \subseteq Frames
    PROVE  SyncInv'
<1>1. /\ Known \subseteq Known' /\ Replicas \subseteq Replicas' /\ Stores \subseteq Stores'
      /\ Frames \subseteq Frames' /\ Peers' = Peers
  BY MoreSigned
<1>2. rep' \in [Peers' -> Replicas'] /\ disk' \in [Peers' -> Stores']
  BY <1>1
<1>. QED  BY <1>1, <1>2 DEF SyncInv

\* Appending an entry signs a new feed, longer than the one in memory.
LEMMA SignsNew ==
    ASSUME SyncInv, signed' = signed \cup {Append(local, NewEntry)}
    PROVE  /\ Append(local, NewEntry) \in Feeds \ {<<>>} /\ local \in Feeds
           /\ IsPrefixOf(local, Append(local, NewEntry))
           /\ IsFiniteSet(signed') /\ signed' \subseteq Feeds \ {<<>>}
           /\ Append(local, NewEntry) \in Known'
<1>1. NewEntry \in Nat
  BY FS_CardinalityType DEF SyncInv, NewEntry
<1>2. local \in Feeds
  BY Basics DEF SyncInv
<1>3. IsFiniteSet(signed')
  BY Zenon, FS_AddElement DEF SyncInv
<1>4. /\ Append(local, NewEntry) \in Feeds \ {<<>>}
      /\ IsPrefixOf(local, Append(local, NewEntry))
  BY Zenon, <1>1, <1>2, AppendExtends
<1>5. signed' \subseteq Feeds \ {<<>>} /\ Append(local, NewEntry) \in Known'
  BY Zenon, <1>4 DEF SyncInv, Known
<1>. QED  BY <1>2, <1>3, <1>4, <1>5

\* What the owner rebuilds from the gathered blocks is the head it recovers.
LEMMA Rebuilt ==
    ASSUME local \in Feeds, NEW goal \in Feeds, IsPrefixOf(local, goal), NEW mine,
           mine \subseteq {<<i, goal[i]>> : i \in 1 .. Len(goal)},
           \A i \in Len(local) + 1 .. Len(goal) : \E b \in mine : b[1] = i
    PROVE  WithSuffix(goal, mine) = goal
<1>1. Len(local) \in Nat /\ Len(goal) \in Nat /\ \A i \in 1 .. Len(local) : local[i] = goal[i]
  BY PrefixMeans DEF Feeds
<1>2. ASSUME NEW i \in 1 .. Len(goal), ~(i <= Len(local))
      PROVE  (CHOOSE b \in mine : b[1] = i)[2] = goal[i]
  <2> DEFINE c == CHOOSE b \in mine : b[1] = i
  <2>1. i \in Len(local) + 1 .. Len(goal)
    BY <1>1, <1>2
  <2>2. \E b \in mine : b[1] = i
    BY <2>1
  <2>3. c \in mine /\ c[1] = i
    BY <2>2
  <2> HIDE DEF c
  <2>4. PICK j \in 1 .. Len(goal) : c = <<j, goal[j]>>
    BY <2>3
  <2>5. c[2] = goal[i]
    BY <2>3, <2>4
  <2>. QED  BY <2>5 DEF c
<1>3. goal = [i \in 1 .. Len(goal) |-> goal[i]]
  BY DEF Feeds
<1>4. \A i \in 1 .. Len(goal) :
         (IF i <= Len(local) THEN local[i] ELSE (CHOOSE b \in mine : b[1] = i)[2]) = goal[i]
  <2>1. ASSUME NEW i \in 1 .. Len(goal)
        PROVE  (IF i <= Len(local) THEN local[i] ELSE (CHOOSE b \in mine : b[1] = i)[2]) = goal[i]
    <3>1. CASE i <= Len(local)
      BY <1>1, <3>1
    <3>2. CASE ~(i <= Len(local))
      BY <1>2, <3>2
    <3>. QED  BY <3>1, <3>2
  <2>. QED  BY <2>1
<1> DEFINE f(i) == IF i <= Len(local) THEN local[i] ELSE (CHOOSE b \in mine : b[1] = i)[2]
<1>5. \A i \in 1 .. Len(goal) : f(i) = goal[i]
  BY <1>4
<1> HIDE DEF f
<1>6. [i \in 1 .. Len(goal) |-> f(i)] = [i \in 1 .. Len(goal) |-> goal[i]]
  BY <1>5
<1>7. WithSuffix(goal, mine) = [i \in 1 .. Len(goal) |-> f(i)]
  BY DEF WithSuffix, f
<1>. QED  BY <1>3, <1>6, <1>7

\* The owner appends: the new feed is signed, and published or not.
LEMMA AppendStep ==
    ASSUME SyncInv, LocalAppend \/ AppendPersistFails
    PROVE  SyncInv'
<1> DEFINE new == Append(local, NewEntry)
<1>1. /\ signed' = signed \cup {new} /\ local' = new /\ saved' \in {saved, new}
      /\ UNCHANGED <<target, got, rep, disk, network>>
  BY DEF LocalAppend, AppendPersistFails, peers, Harm, Fault, history
<1>2. /\ new \in Feeds \ {<<>>} /\ IsFiniteSet(signed') /\ signed' \subseteq Feeds \ {<<>>}
      /\ new \in Known' /\ new \in signed'
  BY <1>1, SignsNew
<1> HIDE DEF new
<1>3. /\ Known \subseteq Known' /\ Replicas \subseteq Replicas' /\ Stores \subseteq Stores'
      /\ Frames \subseteq Frames' /\ Peers' = Peers /\ Rooms' = Rooms
  BY <1>1, MoreSigned
<1>4. net' \subseteq Frames'
  <2>1. CASE UNCHANGED net
    BY <1>3, <2>1 DEF SyncInv
  <2>2. CASE net' = net \cup (ToAll(Owner, HeadMsg(new)) \cup ToAll(Owner, BlockMsg(new, Len(new), new)))
    <3>1. HeadMsg(new) \in HeadFrames' /\ Owner \in Rooms
      BY <1>2, <1>3, Basics DEF HeadMsg, HeadFrames
    <3>2. Len(new) \in 1 .. Len(new)
      BY <1>2 DEF Feeds
    <3>3. BlockMsg(new, Len(new), new) \in BlockFrames
      BY <1>2, <3>2, MadeFrames
    <3>4. ToAll(Owner, BlockMsg(new, Len(new), new)) \subseteq BlockFrames
      BY <3>1, <3>3, ToAllFrames
    <3>5. \A n \in Rooms : [HeadMsg(new) EXCEPT !.from = Owner, !.to = n] \in HeadFrames'
      BY Zenon, <1>3, <3>1 DEF HeadFrames
    <3>6. ToAll(Owner, HeadMsg(new)) \subseteq HeadFrames'
      BY Zenon, <3>1, <3>5, Basics DEF ToAll
    <3>7. BlockFrames \subseteq Frames /\ HeadFrames' \subseteq Frames'
      BY DEF Frames
    <3>. QED  BY <1>3, <2>2, <3>4, <3>6, <3>7 DEF SyncInv
  <2>. QED  BY <2>1, <2>2 DEF LocalAppend, AppendPersistFails, Push, Send, new
<1>5. rep' \in [Peers' -> Replicas'] /\ disk' \in [Peers' -> Stores']
  BY <1>1, <1>3 DEF SyncInv
<1>. QED  BY <1>1, <1>2, <1>3, <1>4, <1>5 DEF SyncInv

\* Frames that announce, ask or serve carry signed heads.
LEMMA AnnounceStep ==
    ASSUME SyncInv, NEW r \in Rooms, Announce(r)
    PROVE  SyncInv'
<1>1. UNCHANGED <<network, local, saved, target, got, signed, rep, disk>>
  BY DEF Announce, owner, peers, history
<1> DEFINE sent == IF r = Owner
                   THEN IF local = <<>> THEN {} ELSE ToAll(r, HeadMsg(local))
                   ELSE IF rep[r].head = NoHead THEN {}
                   ELSE ToAll(r, HaveMsg(Len(rep[r].head)))
<1>2. net' = net \cup sent
  BY DEF Announce, Send
<1>3. CASE r = Owner
  <2>1. CASE local = <<>>
    BY <1>3, <2>1, <1>1, <1>2, SameSigned DEF SyncInv
  <2>2. CASE local # <<>>
    <3>1. local \in signed
      BY <2>2 DEF SyncInv, Known
    <3>2. ToAll(r, HeadMsg(local)) \subseteq HeadFrames
      BY <3>1, ToAllFrames, MadeFrames
    <3>. QED  BY <1>3, <2>2, <3>2, <1>1, <1>2, SameSigned DEF SyncInv, Frames
  <2>. QED  BY <2>1, <2>2
<1>4. CASE r # Owner
  <2>1. rep[r].head \in Feeds
    BY <1>4 DEF SyncInv, Rooms, Replicas
  <2>2. Len(rep[r].head) \in Nat
    BY <2>1 DEF Feeds
  <2>3. ToAll(r, HaveMsg(Len(rep[r].head))) \subseteq HaveFrames
    BY <2>2, ToAllFrames, MadeFrames
  <2>4. sent \subseteq Frames
    BY <1>4, <2>3 DEF Frames
  <2>. QED  BY <1>1, <1>2, <2>4, SameSigned DEF SyncInv
<1>. QED  BY <1>3, <1>4

\* A head or a length that arrives.
LEMMA HeadStep ==
    ASSUME SyncInv, NEW m \in net, OnHead(m) \/ OnHave(m)
    PROVE  SyncInv'
<1>1. UNCHANGED <<network, local, saved, signed, rep, disk>> /\ m \in Frames
  BY DEF OnHead, OnHave, owner, peers, history, SyncInv
<1>2. CASE OnHave(m)
  <2>1. m \in HaveFrames
    BY <1>1, <1>2, FrameKinds DEF OnHave
  <2>2. m.length \in Nat
    BY <2>1 DEF HaveFrames
  <2>3. net' \subseteq Frames
    BY <1>1, <1>2, <2>2, WantFrame DEF OnHave, Send, SyncInv
  <2>. QED  BY <1>1, <1>2, <2>3, SameSigned DEF OnHave, owner, SyncInv
<1>3. CASE OnHead(m)
  <2>1. m \in HeadFrames
    BY <1>1, <1>3, FrameKinds DEF OnHead
  <2>2. m.head \in signed
    BY <2>1 DEF HeadFrames
  <2>3. m.head \in Known /\ Len(m.head) \in Nat
    BY <2>2 DEF SyncInv, Known, Feeds
  <2>4. net' \subseteq Frames
    BY Zenon, <1>1, <1>3, <2>3, WantFrame DEF OnHead, Send, SyncInv
  <2>5. \/ target' = m.head /\ got' = {}
        \/ UNCHANGED <<target, got>>
    BY <1>3 DEF OnHead, BeginOwnRecovery
  <2>6. /\ target' \in Known
        /\ got' \subseteq {<<i, target'[i]>> : i \in 1 .. Len(target')}
    BY <2>3, <2>5 DEF SyncInv
  <2>. QED  BY <1>1, <2>4, <2>6, SameSigned DEF SyncInv
<1>. QED  BY <1>2, <1>3

\* A request that is served.
LEMMA WantStep ==
    ASSUME SyncInv, NEW m \in net, OnWant(m)
    PROVE  SyncInv'
<1>1. UNCHANGED <<network, local, saved, target, got, signed, rep, disk>> /\ m \in WantFrames
  BY Zenon, FrameKinds DEF OnWant, owner, peers, history, SyncInv
<1> DEFINE head == ServedHead(m.to)
           hi == IF m.end < Len(head) THEN m.end ELSE Len(head)
           t == ProofTree(m.to)
<1>2. m.to \in Rooms /\ m.from \in Rooms /\ m.start \in Nat /\ m.end \in Nat
  BY <1>1 DEF WantFrames
<1>3. head \in Feeds /\ t \in Feeds /\ IsPrefixOf(head, t)
  BY <1>2, Basics
<1>4. ASSUME NEW i \in m.start + 1 .. hi
      PROVE  [BlockMsg(head, i, t) EXCEPT !.from = m.to, !.to = m.from] \in BlockFrames
  <2>1. Len(head) \in Nat /\ Len(t) \in Nat /\ Len(head) <= Len(t)
    BY <1>3 DEF IsPrefixOf, Feeds
  <2>2. i \in 1 .. Len(t)
    BY <1>2, <2>1
  <2>3. BlockMsg(head, i, t) \in BlockFrames
    BY <1>3, <2>2, MadeFrames
  <2>. QED  BY Zenon, <1>2, <2>3 DEF BlockFrames
<1>5. net' \subseteq Frames
  <2>1. net' = net \cup {[BlockMsg(head, i, t) EXCEPT !.from = m.to, !.to = m.from] :
                            i \in m.start + 1 .. hi}
    BY Zenon DEF OnWant, Send
  <2> HIDE DEF head, hi, t
  <2>2. {[BlockMsg(head, i, t) EXCEPT !.from = m.to, !.to = m.from] : i \in m.start + 1 .. hi}
          \subseteq BlockFrames
    BY Zenon, <1>4
  <2>. QED  BY Zenon, <2>1, <2>2 DEF SyncInv, Frames
<1>. QED  BY <1>1, <1>5, SameSigned DEF SyncInv

\* A peer that is opened again over a store.
LEMMA PeerReopens ==
    ASSUME SyncInv, NEW p \in Peers, NEW d \in Stores, ReopenPeer(p, d), UNCHANGED network
    PROVE  SyncInv'
<1>1. /\ rep' = [rep EXCEPT ![p] = Opened(d)] /\ disk' = [disk EXCEPT ![p] = d]
      /\ UNCHANGED <<local, saved, target, got, signed, net>>
  BY DEF ReopenPeer, owner
<1>2. Opened(d) \in Replicas /\ (d.meta # Absent => IsPrefixOf(d.meta, Opened(d).tree))
  BY ReplicaOpens
<1>3. rep' \in [Peers -> Replicas] /\ disk' \in [Peers -> Stores]
  BY <1>1, <1>2 DEF SyncInv
<1>4. \A q \in Peers : disk'[q].meta # Absent => IsPrefixOf(disk'[q].meta, rep'[q].tree)
  BY <1>1, <1>2 DEF SyncInv
<1>. QED  BY <1>1, <1>3, <1>4, SameSigned DEF SyncInv

\* A block that arrives at a replica, and what is left of it when the room stops or its store
\* fails before the persist is over.
LEMMA BlockStep ==
    ASSUME SyncInv, NEW m \in net, OnBlock(m) \/ IngestPersistFails(m) \/ RestartInPersist(m)
    PROVE  SyncInv'
<1> DEFINE r == WithBlock(m.to, m)
<1>1. /\ m \in BlockFrames /\ m.to # Owner /\ Accepts(m.to, m)
      /\ UNCHANGED <<network, local, saved, target, got, signed>>
  BY Zenon, FrameKinds DEF OnBlock, IngestPersistFails, RestartInPersist, ReopenPeer, Harm, Fault, owner,
                    history, SyncInv
<1>2. m.to \in Peers /\ m.to \in Rooms
  BY <1>1 DEF BlockFrames, Rooms
<1>3. r \in Replicas /\ IsPrefixOf(rep[m.to].tree, r.tree)
  BY <1>1, <1>2, ReplicaTakes
<1> HIDE DEF r
<1>4. /\ Persisted(r) \in Stores /\ HalfPersisted(m.to, r) \in Stores
      /\ \A d \in {disk[m.to], HalfPersisted(m.to, r), Persisted(r)} :
            d.meta # Absent => IsPrefixOf(d.meta, r.tree)
  BY <1>2, <1>3, StoreTakes
<1>5. CASE OnBlock(m) \/ IngestPersistFails(m)
  <2>1. PICK d \in {disk[m.to], HalfPersisted(m.to, r), Persisted(r)} :
           rep' = [rep EXCEPT ![m.to] = r] /\ disk' = [disk EXCEPT ![m.to] = d]
    <3>1. disk = [disk EXCEPT ![m.to] = disk[m.to]]
      BY <1>2 DEF SyncInv
    <3>. QED  BY <1>5, <3>1 DEF OnBlock, IngestPersistFails, r
  <2>2. d \in Stores /\ (d.meta # Absent => IsPrefixOf(d.meta, r.tree))
    BY <1>2, <1>4, <2>1 DEF SyncInv
  <2>3. rep' \in [Peers -> Replicas] /\ disk' \in [Peers -> Stores]
    BY <1>2, <1>3, <2>1, <2>2 DEF SyncInv
  <2>4. \A p \in Peers : disk'[p].meta # Absent => IsPrefixOf(disk'[p].meta, rep'[p].tree)
    BY <1>2, <2>1, <2>2 DEF SyncInv
  <2>5. ToAll(m.to, m) \subseteq Frames
    BY <1>1, <1>2, ToAllFrames DEF Frames
  <2>6. net' \subseteq Frames
    BY <1>5, <2>5 DEF OnBlock, IngestPersistFails, Push, Send, SyncInv
  <2>. QED  BY Zenon, <1>1, <2>3, <2>4, <2>6, SameSigned DEF SyncInv
<1>6. CASE RestartInPersist(m)
  <2>1. ReopenPeer(m.to, HalfPersisted(m.to, r))
    BY <1>6 DEF RestartInPersist, r
  <2>. QED  BY <1>1, <1>2, <1>4, <2>1, PeerReopens
<1>. QED  BY <1>5, <1>6

\* A block that arrives at the owner: the goal is a signed feed longer than the local one, and
\* the blocks gathered for it are its own.
LEMMA OwnBlockGoal ==
    ASSUME SyncInv, NEW m \in net, OnOwnBlock(m)
    PROVE  \E goal, mine :
              /\ goal \in Known /\ goal \in Feeds /\ Len(goal) > Len(local)
              /\ mine \subseteq {<<i, goal[i]>> : i \in 1 .. Len(goal)}
              /\ \/ goal = target /\ mine = got
                 \/ Missing(goal, mine) # {}
                 \/ ~VerifyArchivedFeed(WithSuffix(goal, mine), goal)
                 \/ local' = WithSuffix(goal, mine)
              /\ \/ /\ VerifyArchivedFeed(WithSuffix(goal, mine), goal)
                    /\ local' = WithSuffix(goal, mine) /\ saved' = local'
                    /\ target' = NoHead /\ got' = {}
                 \/ target' = goal /\ got' = mine /\ UNCHANGED <<local, saved>>
<1>1. m \in BlockFrames /\ VerifyBlock(m) /\ Len(m.head) > Len(local)
  BY FrameKinds DEF OnOwnBlock, SyncInv
<1>2. /\ m.head \in signed /\ m.head \in Feeds /\ m.index \in 1 .. Len(m.head)
      /\ m.bytes = m.head[m.index]
  BY <1>1, VerifiedBlock
<1> DEFINE goal == IF Len(m.head) > Len(target) THEN m.head ELSE target
           held == IF goal = target THEN got ELSE {}
           mine == IF m.head = goal /\ m.index > Len(local)
                   THEN held \cup {<<m.index, m.bytes>>} ELSE held
<1>3. goal \in Known /\ goal \in Feeds /\ local \in Feeds /\ target \in Feeds
  BY <1>2, Basics DEF SyncInv, Known
<1>4. /\ Len(local) \in Nat /\ Len(target) \in Nat /\ Len(m.head) \in Nat
  BY <1>2, <1>3 DEF Feeds
<1>5. Len(goal) > Len(local)
  BY <1>1, <1>4
<1>6. held \subseteq {<<i, goal[i]>> : i \in 1 .. Len(goal)}
  BY DEF SyncInv
<1>7. m.head = goal => <<m.index, m.bytes>> \in {<<i, goal[i]>> : i \in 1 .. Len(goal)}
  BY <1>2
<1>8. mine \subseteq {<<i, goal[i]>> : i \in 1 .. Len(goal)}
  <2> HIDE DEF goal, held
  <2>. QED  BY <1>6, <1>7
<1>9. \/ /\ m.head = goal /\ m.index > Len(local) /\ Missing(goal, mine) = {}
         /\ VerifyArchivedFeed(WithSuffix(goal, mine), goal)
         /\ local' = WithSuffix(goal, mine) /\ saved' = local'
         /\ target' = NoHead /\ got' = {}
      \/ /\ ~(/\ m.head = goal /\ m.index > Len(local) /\ Missing(goal, mine) = {}
              /\ VerifyArchivedFeed(WithSuffix(goal, mine), goal))
         /\ target' = goal /\ got' = mine /\ UNCHANGED <<local, saved>>
  BY Zenon DEF OnOwnBlock
<1>10. \/ goal = target /\ mine = got
       \/ Missing(goal, mine) # {}
       \/ m.head = goal /\ m.index > Len(local)
  <2>1. CASE goal # target /\ ~(m.head = goal /\ m.index > Len(local))
    <3>1. mine = {}
      BY <2>1
    <3> HIDE DEF goal, mine
    <3>2. Len(goal) \in Len(local) + 1 .. Len(goal)
      BY <1>3, <1>4, <1>5 DEF Feeds
    <3>. QED  BY <3>1, <3>2 DEF Missing
  <2>2. CASE goal = target /\ ~(m.head = goal /\ m.index > Len(local))
    BY <2>2
  <2>. QED  BY <2>1, <2>2
<1> HIDE DEF goal, held, mine
<1>. QED  BY <1>3, <1>5, <1>8, <1>9, <1>10

\* The feed the owner rebuilds is the signed one it was told of.
LEMMA OwnBlockStep ==
    ASSUME SyncInv, NEW m \in net, OnOwnBlock(m)
    PROVE  SyncInv'
<1>1. UNCHANGED <<network, signed, rep, disk, net>>
  BY DEF OnOwnBlock, peers, history
<1>2. PICK goal, mine :
         /\ goal \in Known /\ mine \subseteq {<<i, goal[i]>> : i \in 1 .. Len(goal)}
         /\ \/ /\ VerifyArchivedFeed(WithSuffix(goal, mine), goal)
               /\ local' = WithSuffix(goal, mine) /\ saved' = local'
               /\ target' = NoHead /\ got' = {}
            \/ target' = goal /\ got' = mine /\ UNCHANGED <<local, saved>>
  BY Zenon, OwnBlockGoal
<1>3. CASE target' = goal /\ got' = mine /\ UNCHANGED <<local, saved>>
  BY <1>1, <1>2, <1>3, SameSigned DEF SyncInv
<1>4. CASE /\ VerifyArchivedFeed(WithSuffix(goal, mine), goal)
           /\ local' = WithSuffix(goal, mine) /\ saved' = local'
           /\ target' = NoHead /\ got' = {}
  <2>1. local' \in Known /\ saved' \in Known /\ target' \in Known
    BY <1>2, <1>4, Basics DEF VerifyArchivedFeed
  <2>. QED  BY <1>1, <1>4, <2>1, SameSigned DEF SyncInv
<1>. QED  BY <1>2, <1>3, <1>4

\* A room that is opened again, or an owner that lost its store.
LEMMA ReopenStep ==
    ASSUME SyncInv, RestartOwner \/ LoseStore \/ \E p \in Peers : RestartPeer(p)
    PROVE  SyncInv'
<1>1. CASE RestartOwner \/ LoseStore
  <2>1. /\ local' \in {saved, <<>>} /\ saved' = local' /\ target' = NoHead /\ got' = {}
        /\ UNCHANGED <<network, signed, rep, disk, net>>
    BY <1>1 DEF RestartOwner, LoseStore, Reopen, Harm, Fault, peers
  <2>2. local' \in Known /\ saved' \in Known /\ target' \in Known
    BY <2>1, Basics DEF SyncInv
  <2>. QED  BY <2>1, <2>2, SameSigned DEF SyncInv
<1>2. ASSUME NEW p \in Peers, RestartPeer(p) PROVE SyncInv'
  <2>1. disk[p] \in Stores /\ ReopenPeer(p, disk[p]) /\ UNCHANGED network
    BY <1>2 DEF SyncInv, RestartPeer, Fault
  <2>. QED  BY <2>1, PeerReopens
<1>. QED  BY <1>1, <1>2

\* Every step keeps what is sent, stored and recovered within what was signed.
LEMMA SyncStep ==
    ASSUME SyncInv, [Next]_vars
    PROVE  SyncInv'
<1>1. ASSUME UNCHANGED vars PROVE SyncInv'
  <2>1. UNCHANGED <<network, local, saved, target, got, signed, rep, disk, net>>
    BY <1>1 DEF vars, history
  <2>. QED  BY <2>1, SameSigned DEF SyncInv
<1>. QED
  BY <1>1, AppendStep, AnnounceStep, HeadStep, WantStep, BlockStep, OwnBlockStep, ReopenStep
  DEF Next, Handle

\* A feed starts empty everywhere.
LEMMA SyncInit == Init => SyncInv /\ FollowInv /\ GoalInv
<1> SUFFICES ASSUME Init PROVE SyncInv /\ FollowInv /\ GoalInv
  OBVIOUS
<1>1. /\ network \in Networks /\ signed = {} /\ net = {} /\ got = {}
      /\ local = <<>> /\ saved = <<>> /\ target = <<>>
      /\ rep = [p \in Peers |-> [tree |-> <<>>, head |-> <<>>]]
      /\ disk = [p \in Peers |-> [tree |-> <<>>, meta |-> Absent]]
  BY NoHeadAssumption DEF Init, NewReplica
<1>2. <<>> \in Feeds /\ IsPrefixOf(<<>>, <<>>)
  <2>1. <<>> \in Feeds
    BY DEF Feeds
  <2>. QED  BY <2>1, PrefixOrder
<1>3. [tree |-> <<>>, head |-> <<>>] \in Replicas /\ [tree |-> <<>>, meta |-> Absent] \in Stores
  BY <1>2 DEF Replicas, Stores, Known
<1>4. IsFiniteSet(signed)
  BY <1>1, FS_EmptySet
<1>5. /\ rep \in [Peers -> Replicas] /\ disk \in [Peers -> Stores]
      /\ \A p \in Peers : disk[p].meta = Absent
  BY <1>1, <1>3
<1>6. SyncInv
  BY <1>1, <1>4, <1>5 DEF SyncInv, Known
<1>7. FollowInv
  BY <1>1, <1>2 DEF FollowInv
<1>8. GoalInv
  BY <1>1, NoHeadAssumption DEF GoalInv
<1>. QED  BY <1>6, <1>7, <1>8
-----------------------------------------------------------------------------
\* The harm done to the owner is never forgotten; only a peer's is healed.
LEMMA HarmStays ==
    ASSUME [Next]_vars, NEW kind \in {"lost", "unsaved"}, <<kind, Owner>> \in harm
    PROVE  <<kind, Owner>> \in harm'
<1>1. harm \subseteq harm' \/ \E p : harm \ {<<"unfed", p>>} \subseteq harm'
  <2>1. ASSUME NEW m \in net, IngestPersistFails(m) \/ RestartInPersist(m)
        PROVE  harm \ {<<"unfed", m.to>>} \subseteq harm'
    BY <2>1 DEF IngestPersistFails, RestartInPersist, Harm
  <2>2. ASSUME NEW p \in Peers, RestartPeer(p) PROVE harm \ {<<"unfed", p>>} \subseteq harm'
    BY <2>2 DEF RestartPeer
  <2>3. ASSUME NEW m \in net, Handle(m) PROVE harm' = harm
    BY Zenon, <2>3 DEF Handle, OnHead, OnHave, OnWant, OnBlock, OnOwnBlock, history
  <2>. QED
    BY Zenon, <2>1, <2>2, <2>3 DEF Next, LocalAppend, AppendPersistFails, Harm, Announce, RestartOwner,
                            LoseStore, history, vars
<1>2. \A p : <<kind, Owner>> # <<"unfed", p>>
  OBVIOUS
<1>. QED  BY <1>1, <1>2

\* A replica that takes a block still follows a feed that all signed heads are prefixes of.
LEMMA TakesFollow ==
    ASSUME SyncInv, NEW p \in Peers, NEW m \in BlockFrames, Accepts(p, m),
           \A h \in signed : IsPrefixOf(h, saved), IsPrefixOf(rep[p].tree, saved)
    PROVE  IsPrefixOf(WithBlock(p, m).tree, saved)
<1> DEFINE t == rep[p].tree
<1>1. /\ WithBlock(p, m).tree = Append(t, m.head[Len(t) + 1])
      /\ m.head \in signed /\ Len(t) < Len(m.head)
  BY ReplicaTakes
<1>2. t \in Feeds /\ m.head \in Feeds /\ saved \in Feeds
  BY <1>1, Basics DEF SyncInv, Replicas
<1>3. /\ Len(t) \in Nat /\ Len(m.head) \in Nat /\ Len(saved) \in Nat
      /\ Len(m.head) <= Len(saved) /\ \A i \in 1 .. Len(m.head) : m.head[i] = saved[i]
  <2>1. Len(t) \in Nat /\ Len(m.head) \in Nat /\ Len(saved) \in Nat
    BY <1>2 DEF Feeds
  <2>2. IsPrefixOf(m.head, saved)
    BY <1>1
  <2>. QED  BY <1>2, <2>1, <2>2, PrefixMeans
<1>4. m.head[Len(t) + 1] = saved[Len(t) + 1] /\ Len(t) < Len(saved)
  BY <1>1, <1>3
<1>. QED  BY <1>1, <1>2, <1>4, NextEntryExtends

\* Every step keeps the replicas behind the owner's store.
LEMMA FollowStep ==
    ASSUME SyncInv, FollowInv, [Next]_vars
    PROVE  FollowInv'
<1> SUFFICES ASSUME harm' \cap {<<"lost", Owner>>, <<"unsaved", Owner>>} = {}
             PROVE  /\ local' = saved'
                    /\ \A h \in signed' : IsPrefixOf(h, saved')
                    /\ \A p \in Peers' : /\ IsPrefixOf(rep'[p].tree, saved')
                                         /\ IsPrefixOf(disk'[p].tree, saved')
  BY DEF FollowInv
<1>1. /\ local = saved /\ \A h \in signed : IsPrefixOf(h, saved)
      /\ \A p \in Peers : IsPrefixOf(rep[p].tree, saved) /\ IsPrefixOf(disk[p].tree, saved)
  BY HarmStays DEF FollowInv
<1>2. Peers' = Peers
  BY Zenon DEF Next, LocalAppend, AppendPersistFails, Harm, Fault, Announce, Handle, OnHead, OnHave,
         OnWant, OnBlock, OnOwnBlock, IngestPersistFails, RestartInPersist, RestartOwner, LoseStore,
         RestartPeer, history, vars, Peers
<1>3. /\ saved \in Feeds /\ signed \subseteq Feeds
      /\ \A p \in Peers : /\ rep[p].tree \in Feeds /\ disk[p].tree \in Feeds
                          /\ disk[p] \in Stores
  BY Basics DEF SyncInv, Replicas, Stores
<1>4. CASE LocalAppend
  <2> DEFINE new == Append(local, NewEntry)
  <2>1. /\ local' = new /\ saved' = new /\ signed' = signed \cup {new} /\ UNCHANGED <<rep, disk>>
    BY <1>4 DEF LocalAppend, peers
  <2>2. new \in Feeds /\ IsPrefixOf(saved, new) /\ IsPrefixOf(new, new)
    BY <1>1, <2>1, SignsNew, PrefixOrder
  <2> HIDE DEF new
  <2>3. \A s \in Feeds : IsPrefixOf(s, saved) => IsPrefixOf(s, new)
    BY <1>3, <2>2, PrefixOrder
  <2>. QED  BY <1>1, <1>2, <1>3, <2>1, <2>2, <2>3
<1>5. CASE AppendPersistFails \/ LoseStore
  BY Zenon, <1>5 DEF AppendPersistFails, LoseStore, Harm
<1>6. ASSUME NEW m \in net, OnBlock(m) \/ IngestPersistFails(m) \/ RestartInPersist(m)
      PROVE  /\ local' = saved' /\ \A h \in signed' : IsPrefixOf(h, saved')
             /\ \A p \in Peers : IsPrefixOf(rep'[p].tree, saved') /\ IsPrefixOf(disk'[p].tree, saved')
  <2> DEFINE r == WithBlock(m.to, m)
  <2>1. /\ m \in BlockFrames /\ m.to # Owner /\ Accepts(m.to, m)
        /\ UNCHANGED <<local, saved, signed>>
    BY Zenon, <1>6, FrameKinds DEF OnBlock, IngestPersistFails, RestartInPersist, ReopenPeer, owner, SyncInv
  <2>2. m.to \in Peers
    BY <2>1 DEF BlockFrames, Rooms
  <2>3. IsPrefixOf(r.tree, saved)
    BY Zenon, <1>1, <2>1, <2>2, TakesFollow
  <2>4. r \in Replicas /\ IsPrefixOf(rep[m.to].tree, r.tree)
    BY <2>1, <2>2, ReplicaTakes
  <2> HIDE DEF r
  <2>5. /\ Persisted(r).tree = r.tree /\ HalfPersisted(m.to, r).tree = r.tree
        /\ HalfPersisted(m.to, r) \in Stores
    BY <2>2, <2>4, StoreTakes
  <2>6. PICK d \in {disk[m.to], HalfPersisted(m.to, r), Persisted(r)} :
           disk' = [disk EXCEPT ![m.to] = d]
    <3>1. disk = [disk EXCEPT ![m.to] = disk[m.to]]
      BY <2>2 DEF SyncInv
    <3>. QED  BY <1>6, <3>1 DEF OnBlock, IngestPersistFails, RestartInPersist, ReopenPeer, r
  <2>7. IsPrefixOf(d.tree, saved)
    BY <1>1, <2>2, <2>3, <2>5, <2>6
  <2>8. \A p \in Peers : IsPrefixOf(disk'[p].tree, saved)
    BY <1>1, <2>2, <2>6, <2>7 DEF SyncInv
  <2>9. PICK q \in {r, Opened(HalfPersisted(m.to, r))} : rep' = [rep EXCEPT ![m.to] = q]
    BY <1>6 DEF OnBlock, IngestPersistFails, RestartInPersist, ReopenPeer, r
  <2>10. IsPrefixOf(q.tree, saved)
    <3> DEFINE o == Opened(HalfPersisted(m.to, r))
    <3>1. o.tree \in Feeds /\ IsPrefixOf(o.tree, r.tree) /\ r.tree \in Feeds
      BY <2>4, <2>5, ReplicaOpens DEF Replicas
    <3>2. IsPrefixOf(o.tree, saved)
      BY <1>3, <2>3, <3>1, PrefixOrder
    <3>. QED  BY <2>3, <2>9, <3>2
  <2>11. \A p \in Peers : IsPrefixOf(rep'[p].tree, saved)
    BY <1>1, <2>2, <2>9, <2>10 DEF SyncInv
  <2>. QED  BY <1>1, <2>1, <2>8, <2>11
<1>7. ASSUME NEW m \in net, OnOwnBlock(m) PROVE FALSE
  <2>1. m.head \in signed /\ Len(m.head) > Len(local)
    BY Zenon, <1>7 DEF OnOwnBlock, VerifyBlock
  <2>2. Len(m.head) <= Len(local) /\ Len(m.head) \in Nat /\ Len(local) \in Nat
    BY <1>1, <1>3, <2>1 DEF IsPrefixOf, Feeds
  <2>. QED  BY <2>1, <2>2
<1>8. CASE RestartOwner
  BY <1>1, <1>2, <1>8 DEF RestartOwner, Reopen, peers
<1>9. ASSUME NEW q \in Peers, RestartPeer(q)
      PROVE  /\ local' = saved' /\ \A h \in signed' : IsPrefixOf(h, saved')
             /\ \A p \in Peers : IsPrefixOf(rep'[p].tree, saved') /\ IsPrefixOf(disk'[p].tree, saved')
  <2>1. /\ rep' = [rep EXCEPT ![q] = Opened(disk[q])] /\ disk' = disk
        /\ UNCHANGED <<local, saved, signed>>
    BY <1>9 DEF RestartPeer, ReopenPeer, owner, SyncInv
  <2>2. IsPrefixOf(Opened(disk[q]).tree, disk[q].tree) /\ Opened(disk[q]).tree \in Feeds
    BY <1>3, ReplicaOpens
  <2>3. IsPrefixOf(Opened(disk[q]).tree, saved)
    BY <1>1, <1>3, <2>2, PrefixOrder
  <2>4. \A p \in Peers : rep'[p] = IF p = q THEN Opened(disk[q]) ELSE rep[p]
    BY <2>1 DEF SyncInv
  <2>. QED  BY <1>1, <2>1, <2>3, <2>4
<1>10. ASSUME \/ \E r \in Rooms : Announce(r)
              \/ \E m \in net : OnHead(m) \/ OnHave(m) \/ OnWant(m)
              \/ UNCHANGED vars
       PROVE  UNCHANGED <<local, saved, signed, rep, disk>>
  BY Zenon, <1>10 DEF Announce, OnHead, OnHave, OnWant, owner, peers, vars
<1>. QED
  BY Zenon, <1>1, <1>2, <1>4, <1>5, <1>6, <1>7, <1>8, <1>9, <1>10 DEF Next, Handle

\* Every step keeps a recovery from waiting for blocks it has: a recovery that is not over
\* lacks a block, or is for a feed that the local one contradicts.
LEMMA GoalStep ==
    ASSUME SyncInv, GoalInv, [Next]_vars
    PROVE  GoalInv'
<1>1. CASE UNCHANGED <<local, target, got>>
  BY <1>1 DEF GoalInv, Missing, IsPrefixOf
<1>2. CASE LocalAppend \/ AppendPersistFails
  BY <1>2 DEF LocalAppend, AppendPersistFails, CanAppend, GoalInv
<1>3. CASE RestartOwner \/ LoseStore
  BY <1>3 DEF RestartOwner, LoseStore, Reopen, GoalInv
<1>4. ASSUME NEW m \in net, OnHead(m), ~UNCHANGED <<target, got>> PROVE GoalInv'
  <2>1. m \in HeadFrames
    BY Zenon, <1>4, FrameKinds DEF OnHead, SyncInv
  <2>2. m.head \in Feeds /\ local \in Feeds
    BY <2>1, Basics DEF HeadFrames, SyncInv
  <2>3. target' = m.head /\ got' = {} /\ local' = local /\ Len(m.head) > Len(local)
    BY <1>4 DEF OnHead, BeginOwnRecovery
  <2>4. Len(m.head) \in Len(local) + 1 .. Len(m.head)
    BY <2>2, <2>3 DEF Feeds
  <2>5. Missing(m.head, {})' # {}
    BY <2>3, <2>4 DEF Missing
  <2>. QED  BY <2>3, <2>5 DEF GoalInv
<1>5. ASSUME NEW m \in net, OnOwnBlock(m) PROVE GoalInv'
  <2>1. PICK goal, mine :
           /\ goal \in Known /\ goal \in Feeds /\ Len(goal) > Len(local)
           /\ mine \subseteq {<<i, goal[i]>> : i \in 1 .. Len(goal)}
           /\ \/ goal = target /\ mine = got
              \/ Missing(goal, mine) # {}
              \/ ~VerifyArchivedFeed(WithSuffix(goal, mine), goal)
              \/ local' = WithSuffix(goal, mine)
           /\ \/ target' = NoHead
              \/ target' = goal /\ got' = mine /\ UNCHANGED local
    BY <1>5, OwnBlockGoal
  <2>2. CASE target' = NoHead
    BY <2>2 DEF GoalInv
  <2>3. CASE target' = goal /\ got' = mine /\ UNCHANGED local
    <3>1. goal # NoHead /\ goal \in signed /\ local \in Feeds
      <4>1. local \in Feeds /\ NoHead = <<>>
        BY Basics DEF SyncInv
      <4>2. Len(local) \in Nat /\ Len(<<>>) = 0
        BY <4>1 DEF Feeds
      <4>3. goal # <<>>
        BY <2>1, <4>2
      <4>. QED  BY <2>1, <4>1, <4>3 DEF Known
    <3>2. ASSUME Missing(goal, mine) = {}, IsPrefixOf(local, goal) PROVE FALSE
      <4>1. \A i \in Len(local) + 1 .. Len(goal) : \E b \in mine : b[1] = i
        BY <3>2 DEF Missing
      <4>2. WithSuffix(goal, mine) = goal
        BY Zenon, <2>1, <3>1, <3>2, <4>1, Rebuilt
      <4>3. VerifyArchivedFeed(WithSuffix(goal, mine), goal)
        BY <3>1, <4>2 DEF VerifyArchivedFeed
      <4>4. local # goal
        BY <2>1, <3>1 DEF Feeds
      <4>5. goal = target /\ mine = got
        BY <2>1, <2>3, <3>2, <4>2, <4>3, <4>4
      <4>. QED  BY <3>1, <3>2, <4>5 DEF GoalInv
    <3>3. Missing(goal, mine)' = Missing(goal, mine)
      BY <2>3 DEF Missing
    <3>. QED  BY <2>1, <2>3, <3>2, <3>3 DEF GoalInv
  <2>. QED  BY <2>1, <2>2, <2>3
<1>6. ASSUME NEW m \in net, OnHave(m) \/ OnWant(m) \/ OnBlock(m) \/ IngestPersistFails(m)
                            \/ RestartInPersist(m)
      PROVE  UNCHANGED <<local, target, got>>
  BY Zenon, <1>6 DEF OnHave, OnWant, OnBlock, IngestPersistFails, RestartInPersist, ReopenPeer, owner
<1>7. ASSUME \/ \E p \in Peers : RestartPeer(p)
             \/ \E r \in Rooms : Announce(r)
             \/ UNCHANGED vars
      PROVE  UNCHANGED <<local, target, got>>
  BY <1>7 DEF RestartPeer, ReopenPeer, Announce, owner, vars
<1>8. ASSUME NEW m \in net, OnHead(m) PROVE UNCHANGED local
  BY <1>8 DEF OnHead
<1>. QED
  BY <1>1, <1>2, <1>3, <1>4, <1>5, <1>6, <1>7, <1>8 DEF Next, Handle
-----------------------------------------------------------------------------
\* What is stored, shown, recovered and announced is always signed.
LEMMA SyncInvHolds == Spec => []SyncInv
<1>1. SyncInv /\ [Next]_vars => SyncInv'
  BY SyncStep
<1>. QED  BY <1>1, SyncInit, PTL DEF Spec

\* The owner never has, in memory, in its store or as the goal of a recovery, a feed that it
\* did not sign, and a recovery with all its blocks is over unless the local feed contradicts
\* it: through every restart, lost store and failed persist, for blocks from anybody in any
\* order (recover_own_block, recover_signed_suffix).
THEOREM RecoversOnlySigned == Spec => []RecoverySound
<1>1. SyncInv /\ GoalInv => RecoverySound
  BY NoHeadAssumption DEF SyncInv, GoalInv, RecoverySound, Known
<1>2. SyncInv /\ GoalInv /\ [Next]_vars => GoalInv'
  BY GoalStep
<1>. QED  BY <1>1, <1>2, SyncInit, SyncInvHolds, PTL DEF Spec

\* No replica, in memory or on disk, at any relay, ever holds an entry that a restart of the
\* owner could replace, unless the owner's store was lost or failed.
THEOREM ReplicasAlwaysFollow == Spec => []ReplicasFollow
<1>1. SyncInv /\ FollowInv /\ [Next]_vars => FollowInv'
  BY FollowStep
<1>2. FollowInv => ReplicasFollow
  BY DEF FollowInv, ReplicasFollow
<1>. QED  BY <1>1, <1>2, SyncInit, SyncInvHolds, PTL DEF Spec
=============================================================================
