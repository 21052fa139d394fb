------------------------------ MODULE RoomFold ------------------------------
(***************************************************************************)
(* What a Room of crates/roomnet (room.rs) does with the confirmed order   *)
(* of its Linearizer: it folds it into the finalized projection, queues a  *)
(* delta for every entry it folds, hands the queue to the driver's caller, *)
(* refolds when the indexers are reconfigured, and rebuilds all of it from *)
(* the stored feeds when it is reopened.                                   *)
(*                                                                         *)
(* The state of a projection is the sequence of the entries folded into    *)
(* it.  A restart loses the queue, the pinned base and the indexers of a   *)
(* later term.  The room's own feed is stored whole; the replica of        *)
(* another writer that ran ahead of its verified head is reopened shorter, *)
(* and what it lost is delivered again later, the same entries as before.  *)
(***************************************************************************)
EXTENDS Linearizer

CONSTANTS
    None,
    Local,          \* the writer whose room this is
    MaxEvents,      \* bound on entries, reconfigurations and restarts together
    MaxRestarts     \* bound on the restarts

ASSUME LocalAssumption == Local \in Writers

VARIABLES
    seen,           \* every entry the room ever had, as clocks
    folded,         \* finalized_proj, finalized_len entries long
    queue,          \* finalized_since_poll
    told,           \* the node of the last delta handed out for each version
    restarts

roomVars == <<vars, seen, folded, queue, told, restarts>>

RoomInit == /\ Init /\ seen = EmptyDag
            /\ folded = <<>> /\ queue = <<>> /\ told = [v \in 1 .. MaxNodes |-> None]
            /\ restarts = 0

Bounded == Cardinality(Nodes(seen)) + configs + restarts < MaxEvents

\* The deltas of the entries of fin past the first n, with their versions.
Deltas(fin, n) == [i \in 1 .. Len(fin) - n |-> [version |-> n + i, node |-> fin[n + i]]]

\* advance, when the fold stands at old.
AdvanceFrom(old) ==
    /\ folded' = old \o SubSeq(finalized', Len(old) + 1, Len(finalized'))
    /\ queue' = queue \o Deltas(finalized', Len(old))

\* local_append and ingest_remote_block: the linearizer takes a node.  An entry that a
\* restart cut off comes back as it was; a writer's new entry follows all of its earlier ones
\* (local_append returns OwnFeedPending while entries of its own feed wait).
Delivered ==
    /\ \E w \in Writers : \E cut \in Cuts :
           LET feed == AddNode(dag, w, cut)[w]
               known == Len(feed) <= Len(seen[w])
           IN /\ IF known THEN IsPrefixOf(feed, seen[w]) ELSE Cardinality(Nodes(seen)) < MaxNodes /\ Bounded
              /\ Add(w, cut)
              /\ seen' = IF known THEN seen ELSE [seen EXCEPT ![w] = feed]
    /\ AdvanceFrom(folded)
    /\ UNCHANGED <<told, restarts>>

\* How many leading entries two orders share.
Kept(before, after) == Max({n \in 0 .. Len(before) : IsPrefixOf(SubSeq(before, 1, n), after)})

\* Mutant: nothing is refolded.
RefoldedNever(after) == folded

\* What reconfigure leaves folded before it advances.
Refolded(after) ==
    LET kept == Kept(finalized, after)
    IN IF Len(folded) > kept THEN SubSeq(after, 1, kept) ELSE folded

ReconfigureRoom(through, next) ==
    /\ Bounded
    /\ Reconfigure(through, next)
    /\ AdvanceFrom(Refolded(finalized'))
    /\ UNCHANGED <<seen, told, restarts>>

\* What the caller knows of a version once it has the queue.
Told(v) == LET at == {i \in 1 .. Len(queue) : queue[i].version = v}
           IN IF at = {} THEN told[v] ELSE queue[Max(at)].node

\* poll_finalized in a driver tick: the caller gets the queue.
Poll ==
    /\ queue # <<>>
    /\ told' = [v \in 1 .. MaxNodes |-> Told(v)]
    /\ queue' = <<>>
    /\ UNCHANGED <<vars, seen, folded, restarts>>

\* What the stores give back: the replicas of the other writers cut to their verified heads,
\* wherever these are (Replica::open), the room's own feed whole, and of all that, replay adds
\* the entries whose dependencies are there.
Survivors ==
    LET cuts == Cuts
    IN {c \in cuts : \A d \in cuts :
            (\A w \in Writers \ {Local} : d[w] <= c[w]) => d[Local] <= c[Local]}
Replayed(c) == [w \in Writers |-> SubSeq(dag[w], 1, c[w])]

\* Mutant: the room comes back with no committee but its own writer.
RestartAlone ==
    /\ restarts < MaxRestarts /\ Bounded
    /\ restarts' = restarts + 1
    /\ indexers' = {Local} /\ base' = <<>>
    /\ \E c \in Survivors : dag' = Replayed(c)
    /\ finalized' = ConfirmedView(dag', {Local}, <<>>)
    /\ folded' = finalized' /\ queue' = <<>>
    /\ UNCHANGED <<seen, configs, told>>

\* The process ends at any point; open and replay follow, with the configured indexers.
Restart ==
    /\ restarts < MaxRestarts /\ Bounded
    /\ restarts' = restarts + 1
    /\ indexers' = FirstIndexers /\ base' = <<>>
    /\ \E c \in Survivors : dag' = Replayed(c)
    /\ finalized' = ConfirmedView(dag', FirstIndexers, <<>>)
    /\ folded' = finalized'
    /\ queue' = <<>>
    /\ UNCHANGED <<seen, configs, told>>

RoomNext ==
    \/ Delivered
    \/ \E through \in 0 .. MaxNodes, next \in IndexerSets : ReconfigureRoom(through, next)
    \/ Poll
    \/ Restart

RoomSpec == RoomInit /\ [][RoomNext]_roomVars
-----------------------------------------------------------------------------
\* The finalized projection has folded exactly the confirmed order: folding only what is
\* new, and refolding only from the entries a reconfiguration drops, never leaves an entry
\* out, folds one twice or keeps one in a place it no longer has.  And the deltas tell the
\* whole story: for every finalized entry, the last delta with its version, drained or still
\* queued, is that entry.  After a restart a delta may be missing (replay queues nothing),
\* but none that was handed out before or after is wrong, reconfigurations aside.
FoldFaithful ==
    /\ folded = finalized
    /\ restarts = 0 => \A v \in 1 .. Len(folded) : Told(v) = folded[v]
    /\ configs = 0 => \A v \in 1 .. Len(folded) : Told(v) \in {None, folded[v]}

\* What is finalized is never reordered.  A restart rebuilds the projection from what the
\* stores kept: it may fall behind, when a replica had run ahead of its head, but what it has
\* and what it had are prefixes one of the other, and nothing is taken back when no replica
\* was cut.  A reconfiguration keeps the base it pins, and only a restart after one forgets it.
NeverUnfolded ==
    [][CASE configs' # configs -> IsPrefixOf(base', folded')
         [] restarts' # restarts ->
                configs = 0 => IF dag' = dag THEN folded' = folded
                               ELSE IsPrefixOf(folded, folded') \/ IsPrefixOf(folded', folded)
         [] OTHER -> IsPrefixOf(folded, folded')]_roomVars
=============================================================================
