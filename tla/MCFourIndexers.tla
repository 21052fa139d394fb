--------------------------- MODULE MCFourIndexers ---------------------------
(* Four writers that all index, and one history of theirs: the writer of each entry and how *)
(* many entries of every writer it had seen.                                                *)
EXTENDS RoomFold

FourWriters == 1 .. 4
OneCommittee == {FourWriters}

History == <<<<3, <<0, 0, 0, 0>>>>,
             <<2, <<0, 0, 1, 0>>>>,
             <<4, <<0, 0, 0, 0>>>>,
             <<1, <<0, 1, 1, 0>>>>,
             <<4, <<0, 1, 1, 1>>>>,
             <<4, <<1, 1, 1, 2>>>>,
             <<2, <<1, 1, 1, 3>>>>,
             <<2, <<1, 2, 1, 3>>>>,
             <<4, <<1, 1, 1, 3>>>>,
             <<2, <<1, 3, 1, 4>>>>,
             <<2, <<1, 4, 1, 4>>>>,
             <<3, <<1, 5, 1, 4>>>>,
             <<1, <<1, 5, 2, 4>>>>,
             <<4, <<1, 5, 1, 4>>>>>>

\* The room takes the entries of the history one by one.
Arrives(entry) == dag' = AddNode(dag, entry[1], entry[2]) /\ Delivered

HistoryNext ==
    /\ Cardinality(Nodes(dag)) < Len(History)
    /\ Arrives(History[Cardinality(Nodes(dag)) + 1])

HistorySpec == RoomInit /\ [][HistoryNext]_roomVars
=============================================================================
