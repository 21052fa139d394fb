---------------------------- MODULE Linearizer -----------------------------
(***************************************************************************)
(* One Linearizer of crates/autobase (linearizer.rs) as nodes arrive and   *)
(* its indexers are reconfigured.  The writer of a new node has seen some  *)
(* causally closed part of the DAG that includes all it saw before; a      *)
(* peer's linearizer that is behind holds such a part too, so its steps    *)
(* are steps of this module as well.                                       *)
(***************************************************************************)
EXTENDS Consensus

CONSTANTS
    IndexerSets,    \* the sets of indexers used, before or after a reconfiguration
    FirstIndexers,  \* the set with_indexers was given
    MaxSeq,         \* bound on the nodes of one writer
    MaxNodes,       \* bound on the nodes of all writers
    MaxConfigs      \* bound on the reconfigurations

ASSUME IndexersAssumption ==
    FirstIndexers \in IndexerSets /\ IndexerSets \subseteq SUBSET Writers

VARIABLES
    dag,            \* deps, as clocks
    indexers,
    base,           \* the pinned base
    configs,        \* reconfigurations so far
    finalized       \* finalized(), as a caller that reads it after every step saw it

vars == <<dag, indexers, base, configs, finalized>>

Init == /\ dag = EmptyDag
        /\ indexers = FirstIndexers
        /\ base = <<>> /\ configs = 0 /\ finalized = <<>>

\* The causally closed parts of the DAG, as clocks.
Cuts == {c \in [Writers -> 0 .. MaxSeq] :
            \A w \in Writers : /\ c[w] <= Len(dag[w])
                               /\ c[w] > 0 => \A x \in Writers : dag[w][c[w]][x] <= c[x]}

\* add of the next node of writer w, which saw the nodes below cut.
Add(w, cut) ==
    /\ Len(dag[w]) < MaxSeq /\ Cardinality(Nodes(dag)) < MaxNodes
    /\ cut[w] = Len(dag[w])
    /\ dag' = AddNode(dag, w, cut)
    /\ UNCHANGED <<indexers, base, configs>>
    /\ finalized' = ConfirmedView(dag', indexers, base)

\* reconfigure, which hands the prefix of the confirmed view to reconfigure_at.
Reconfigure(through, next) ==
    /\ configs < MaxConfigs
    /\ through \in Len(base) .. Len(finalized)
    /\ base' = SubSeq(finalized, 1, through)
    /\ indexers' = next
    /\ configs' = configs + 1
    /\ UNCHANGED dag
    /\ finalized' = ConfirmedView(dag, next, base')

-----------------------------------------------------------------------------
\* A node the indexers finalized past the base is one a majority of them references: the
\* confirmation machine never gets ahead of what quorum_degree counts.  And a degree is one
\* that some node witnesses, so it is no more than the nodes there are, provided there are
\* two indexers (with one, its own vote is a majority at every level).
FinalizedByQuorum ==
    /\ \A i \in Len(base) + 1 .. Len(finalized) : QuorumDegree(dag, indexers, finalized[i]) >= 1
    /\ Cardinality(indexers) > 1 =>
           \A n \in Nodes(dag) : QuorumDegree(dag, indexers, n) <= Cardinality(Nodes(dag))

\* The order lists every node once, after all it depends on; the finalized prefix is
\* therefore causally closed.
OrderSound ==
    LET order == finalized \o Unconfirmed(dag, finalized) IN
    /\ Len(order) = Cardinality(Nodes(dag)) /\ Elements(order) = Nodes(dag)
    /\ \A i, j \in 1 .. Len(order) : i < j => ~Sees([dag |-> dag], order[i], order[j])
=============================================================================
