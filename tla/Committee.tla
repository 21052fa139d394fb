----------------------------- MODULE Committee -----------------------------
(***************************************************************************)
(* Finality in a room whose members run crates/roomnet (room.rs): a member *)
(* appends ops, receives the nodes of the others in causal order, and, at  *)
(* each driver tick, an indexer that holds unfinalized ops of others       *)
(* appends an empty entry, a checkpoint, that references all it has.       *)
(*                                                                         *)
(* Every member is a writer.  A member's Linearizer holds a causally       *)
(* closed part of the DAG; blocks that came too early wait in pending, so  *)
(* a node counts as delivered once the linearizer took it.                 *)
(***************************************************************************)
EXTENDS Consensus, SequencesExt

CONSTANTS
    Committees      \* the rooms considered: [indexers, opWriters, maxOps, maxEntries]

VARIABLES
    room,           \* the committee, the members whose clients append ops, how many each of
                    \* them appends, and a bound on all entries, checkpoints included
    lin,            \* the DAG each member's linearizer holds, as clocks
    ops,            \* the nodes with a payload; the others are checkpoints
    final           \* the finalized order each member last folded, finalized_len long

vars == <<room, lin, ops, final>>

Init == /\ room \in Committees
        /\ lin = [m \in Writers |-> EmptyDag] /\ ops = {}
        /\ final = [m \in Writers |-> <<>>]

\* Every entry signed so far: each writer holds its own.
Signed == UNION {Nodes(lin[m]) : m \in Writers}

Now(m) == [w \in Writers |-> Len(lin[m][w])]

\* advance folds what the confirmed view has beyond finalized_len.
FoldNew(old, view) == old \o SubSeq(view, Len(old) + 1, Len(view))

\* Mutant: advance folds the whole order, confirmed or not.
TakeOrder(m, d) ==
    LET view == ConfirmedView(d, room.indexers, <<>>)
    IN /\ UNCHANGED room
       /\ lin' = [lin EXCEPT ![m] = d]
       /\ final' = [final EXCEPT ![m] = FoldNew(@, view \o Unconfirmed(d, view))]

\* The member's linearizer takes a node, and advance follows.
Take(m, d) == /\ UNCHANGED room
              /\ lin' = [lin EXCEPT ![m] = d]
              /\ final' = [final EXCEPT ![m] = FoldNew(@, ConfirmedView(d, room.indexers, <<>>))]

\* local_append: the entry references every head of what the member holds.
LocalAppend(m) ==
    /\ Cardinality(Signed) < room.maxEntries
    /\ Take(m, AddNode(lin[m], m, Now(m)))

AppendOp(m) ==
    /\ m \in room.opWriters /\ Cardinality({n \in ops : Key(n) = m}) < room.maxOps
    /\ LocalAppend(m)
    /\ ops' = ops \cup {<<m, Len(lin[m][m])>>}

\* ingest_remote_block of the next node of w, once its dependencies are there.
Deliver(m, w) ==
    /\ Len(lin[m][w]) < Len(lin[w][w])
    /\ LET clock == lin[w][w][Len(lin[m][w]) + 1]
       IN /\ \A x \in Writers \ {w} : clock[x] <= Len(lin[m][x])
          /\ Take(m, [lin[m] EXCEPT ![w] = Append(@, clock)])
    /\ UNCHANGED ops

\* Mutant: any entry that references everything will do.
ReferencedByAny(m) == \E w \in Writers : Len(lin[m][w]) > 0 /\ Last(lin[m][w]) = Now(m)

\* The only head a member has is its own latest entry.
Referenced(m) == Len(lin[m][m]) > 0 /\ Last(lin[m][m]) = Now(m)

\* The unfinalized ops of other writers, for which a checkpoint is made.
PendingOps(m) == {n \in ops \ Elements(final[m]) : Key(n) # m /\ n \in Nodes(lin[m])}

NeedsCheckpoint(m) == m \in room.indexers /\ ~Referenced(m) /\ PendingOps(m) # {}

Checkpoint(m) == NeedsCheckpoint(m) /\ LocalAppend(m) /\ UNCHANGED ops

Next == \E m \in Writers : \/ AppendOp(m)
                           \/ Checkpoint(m)
                           \/ \E w \in Writers : Deliver(m, w)

Spec == Init /\ [][Next]_vars
-----------------------------------------------------------------------------
\* Members never finalize different orders: what one of them folded is a prefix of what
\* the other folded, or the other way around, whatever part of the DAG each has seen.
MembersAgree == \A m, n \in Writers : \/ IsPrefixOf(final[m], final[n])
                                      \/ IsPrefixOf(final[n], final[m])

\* When everyone has received everything and no driver tick would append a checkpoint, the
\* room is at rest until someone appends, and every op is final at every member by then:
\* needs_checkpoint never says no too early.  It leaves out the ops of the indexer itself, so
\* there is one exception: an indexer's op in a committee of two, of which the other one's
\* checkpoint is never answered.
AtRest == \A m \in Writers : Nodes(lin[m]) = Signed /\ ~NeedsCheckpoint(m)
StopsWhenFinal ==
    AtRest => \A n \in ops, m \in Writers :
                  \/ n \in Elements(final[m])
                  \/ Cardinality(room.indexers) = 2 /\ Key(n) \in room.indexers
=============================================================================
