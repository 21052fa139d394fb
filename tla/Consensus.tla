----------------------------- MODULE Consensus -----------------------------
(***************************************************************************)
(* The ordering and confirmation algorithm of crates/autobase              *)
(* (linearizer.rs): a deterministic order of a causal DAG of the nodes of  *)
(* many writers, and the prefix of it a quorum of indexers confirms.       *)
(*                                                                         *)
(* Writers are numbered in the order of their keys.  Everything the code   *)
(* reads from the DAG is reachability, so a node stands for its vector     *)
(* clock: dag[w][s + 1] is the clock of node <<w, s>>, and a node's heads  *)
(* are whatever set of delivered nodes has that clock as its join.         *)
(*                                                                         *)
(* The operators read a record c: the DAG, the indexers and what the code  *)
(* calls removed, the number of nodes of each writer that are confirmed    *)
(* already.                                                                *)
(***************************************************************************)
EXTENDS Integers, Sequences, FiniteSets, FiniteSetsExt

CONSTANTS
    Writers,        \* 1 .. n
    MaxDegree       \* where the model stops counting quorum degrees

Key(n) == n[1]
Seqno(n) == n[2]

Nodes(d) == UNION {{w} \X (0 .. Len(d[w]) - 1) : w \in Writers}
Holds(c, n) == Seqno(n) < Len(c.dag[Key(n)])
Clock(c, n) == c.dag[Key(n)][Seqno(n) + 1]
Sees(c, a, b) == Clock(c, a)[Key(b)] > Seqno(b)

\* NodeId's Ord: the key, then the seq.
Before(a, b) == Key(a) < Key(b) \/ (Key(a) = Key(b) /\ Seqno(a) < Seqno(b))
Least(S) == CHOOSE n \in S : \A m \in S : m = n \/ Before(n, m)

\* S is a majority of the indexers.
Many(c, S) == Cardinality(S) >= Cardinality(c.indexers) \div 2 + 1

\* Clock::raise for every node of a batch.
Raise(clock, batch) ==
    [w \in Writers |-> Max({clock[w]} \cup {Seqno(n) + 1 : n \in {m \in batch : Key(m) = w}})]

Removed(c, n) == c.removed[Key(n)] > Seqno(n)

-----------------------------------------------------------------------------
\* is_merge
IsMerge(c, n) ==
    LET seen(i) == <<i, Clock(c, n)[i] - 1 - (IF i = Key(n) THEN 1 ELSE 0)>>
        heads == {h \in {seen(i) : i \in c.indexers} : Seqno(h) >= 0 /\ ~Removed(c, h)}
    IN Cardinality({h \in heads : \A o \in heads \ {h} : ~Sees(c, o, h)}) > 1

\* merge_nodes
MergeNodes(c) ==
    {n \in Nodes(c.dag) : Key(n) \in c.indexers /\ ~Removed(c, n) /\ IsMerge(c, n)}

\* indexer_tails
IndexerTails(c) ==
    LET oldest == {n \in {<<i, c.removed[i]>> : i \in c.indexers} : Holds(c, n)}
    IN {t \in oldest : \A o \in oldest \ {t} : ~Sees(c, t, o)}

\* strictly_newer
StrictlyNewer(c, object, parent) ==
    /\ Sees(c, parent, object)
    /\ \A i \in c.indexers :
         LET latest == Clock(c, parent)[i]
             length == Max({Clock(c, object)[i], c.removed[i]})
         IN \/ latest <= c.removed[i] \/ latest = length
            \/ latest > length /\ Sees(c, <<i, length>>, object)

\* acks
Acks(c, target) ==
    LET first(i) == <<i, Max({Clock(c, target)[i], c.removed[i]})>>
    IN {n \in {target} : Key(n) \in c.indexers} \cup
       {n \in {first(i) : i \in c.indexers \ {Key(target)}} :
            Holds(c, n) /\ StrictlyNewer(c, target, n)}

\* acked_at
AckedAt(c, acks, n) == Many(c, {a \in acks : Sees(c, n, a)})

\* confirms.  The scan goes down from the newest node; it ends at the first strictly
\* newer one, or before it at a node (not the newest) that sees too few acks.  Older nodes
\* of a writer see less, so the strictly newer node decides.
Confirms(c, indexer, target, acks, length) ==
    LET newer == {s \in 0 .. length - 1 : StrictlyNewer(c, target, <<indexer, s>>)}
    IN IF length <= c.removed[indexer] \/ newer = {} THEN "Unseen"
       ELSE IF AckedAt(c, acks, <<indexer, Max(newer)>>) THEN "Acked"
       ELSE IF Max(newer) = length - 1 THEN "Newer"
       ELSE "Unseen"

\* is_confirmed with no parent.
IsConfirmed(c, target) ==
    LET acks == Acks(c, target)
        how == [i \in c.indexers |-> Confirms(c, i, target, acks, Len(c.dag[i]))]
    IN /\ Many(c, acks)
       /\ \/ Many(c, {i \in c.indexers : how[i] = "Acked"})
          \/ \A i \in c.indexers : how[i] # "Unseen"

\* is_confirmable_at
IsConfirmableAt(c, target, parent, acks, confs) ==
    LET length(i) == Clock(c, parent)[i]
        ambiguous(i) == /\ length(i) > Clock(c, target)[i]
                        /\ length(i) > c.removed[i]
                        /\ ~StrictlyNewer(c, target, <<i, length(i) - 1>>)
    IN /\ AckedAt(c, acks, parent)
       /\ Many(c, confs \cup {i \in c.indexers : ~ambiguous(i)})

\* is_confirmed relative to a parent.
IsConfirmedAt(c, target, parent) ==
    LET acks == Acks(c, target)
        length(i) == IF i = Key(parent) THEN Seqno(parent) ELSE Clock(c, parent)[i]
        confs == {i \in c.indexers : Confirms(c, i, target, acks, length(i)) = "Acked"}
    IN /\ Many(c, acks)
       /\ Many(c, confs) \/ IsConfirmableAt(c, target, parent, acks, confs)

-----------------------------------------------------------------------------
\* yield_next from a confirmed merge: tails before merges, each in NodeId order.
RECURSIVE YieldNext(_, _, _)
YieldNext(c, n, tails) ==
    LET arm == {t \in tails : Sees(c, n, t)}
        merges == {m \in MergeNodes(c) \ ({n} \cup arm) : Sees(c, n, m)}
        sure == {t \in arm : IsConfirmedAt(c, t, n)}
        next == IF sure # {} THEN sure ELSE {m \in merges : IsConfirmedAt(c, m, n)}
    IN IF n \in tails THEN {n}
       ELSE IF next # {} THEN YieldNext(c, Least(next), tails)
       ELSE arm

\* Mutant: the first tail is yielded, confirmed or not.
ShiftUnsure(c) == IF IndexerTails(c) # {} THEN {Least(IndexerTails(c))} ELSE {}

\* shift_once: the batch of nodes it yields.
Shift(c) ==
    LET tails == IndexerTails(c)
        sure == {t \in tails : IsConfirmed(c, t)}
        merges == {m \in MergeNodes(c) : IsConfirmed(c, m)}
    IN IF sure # {} THEN {Least(sure)}
       ELSE IF merges # {} THEN YieldNext(c, Least(merges), tails)
       ELSE {}

\* Mutant: the order of the keys alone.
RECURSIVE KeyOrder(_, _)
KeyOrder(c, nodes) == IF nodes = {} THEN <<>>
                      ELSE <<Least(nodes)>> \o KeyOrder(c, nodes \ {Least(nodes)})

\* topo_key_order of nodes whose other dependencies are emitted already.
RECURSIVE TopoKeyOrder(_, _)
TopoKeyOrder(c, nodes) ==
    IF nodes = {} THEN <<>>
    ELSE LET n == Least({m \in nodes : \A o \in nodes \ {m} : ~Sees(c, m, o)})
         IN <<n>> \o TopoKeyOrder(c, nodes \ {n})

Elements(s) == {s[i] : i \in 1 .. Len(s)}

\* confirmed_view's loop: out is what was emitted so far.
RECURSIVE Drive(_, _)
Drive(c, out) ==
    LET batch == Shift(c)
        fresh == {n \in Nodes(c.dag) : (\E m \in batch : Sees(c, m, n)) /\ n \notin Elements(out)}
    IN IF batch = {} THEN out
       ELSE Drive([c EXCEPT !.removed = Raise(@, batch)], out \o TopoKeyOrder(c, fresh))

\* confirmed_view: after a reconfiguration it goes on from the pinned base.
ConfirmedView(d, ix, b) ==
    LET nothing == [w \in Writers |-> 0]
    IN Drive([dag |-> d, indexers |-> ix, removed |-> Raise(nothing, Elements(b))], b)

\* The rest of order, after the confirmed view.
Unconfirmed(d, view) == TopoKeyOrder([dag |-> d], Nodes(d) \ Elements(view))

\* The degree node v witnesses over target in quorum_degree: -1 when it does not see it.
\* Degrees grow along a writer's nodes, so the latest node of a writer that v saw decides.
RECURSIVE Degree(_, _, _)
Degree(c, target, v) ==
    LET others == {i \in c.indexers \ {Key(v)} : Clock(c, v)[i] > 0}
        pre == {<<i, Degree(c, target, <<i, Clock(c, v)[i] - 1>>)>> : i \in others}
        votes(level) == {p[1] : p \in {q \in pre : q[2] >= level}} \cup ({Key(v)} \cap c.indexers)
    IN IF ~Sees(c, v, target) THEN -1
       ELSE Max({0} \cup {d \in 1 .. MaxDegree : \A e \in 1 .. d : Many(c, votes(e - 1))})

\* quorum_degree
QuorumDegree(d, ix, target) ==
    Max({Degree([dag |-> d, indexers |-> ix], target, v) : v \in Nodes(d)})

EmptyDag == [w \in Writers |-> <<>>]

\* add of the next node of writer w, whose heads are those of the nodes below cut.
AddNode(d, w, cut) == [d EXCEPT ![w] = Append(@, [cut EXCEPT ![w] = @ + 1])]

IsPrefixOf(s, t) == Len(s) <= Len(t) /\ SubSeq(t, 1, Len(s)) = s
=============================================================================
