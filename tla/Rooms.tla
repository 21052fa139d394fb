------------------------------- MODULE Rooms --------------------------------
(***************************************************************************)
(* The two views of a room's order side by side: a behaviour is one of     *)
(* RoomFold, a single member through reconfigurations and restarts, or of  *)
(* Committee, several members that drive each other's finality with        *)
(* checkpoints, as part says.                                              *)
(***************************************************************************)
EXTENDS RoomFold

CONSTANTS Committees    \* the rooms of Committee

ASSUME CommitteeAssumption ==
    \A c \in Committees : c.indexers \subseteq Writers /\ c.opWriters \subseteq Writers

VARIABLES
    part,                   \* which of the two it is
    room, lin, ops, final   \* the state of Committee

Com == INSTANCE Committee

committeeVars == <<room, lin, ops, final>>

RoomsInit == /\ RoomInit /\ Com!Init
             /\ part \in {"fold", "members"}
             /\ part = "fold" => room = CHOOSE r \in Committees : TRUE

RoomsNext ==
    /\ UNCHANGED part
    /\ \/ part = "fold" /\ RoomNext /\ UNCHANGED committeeVars
       \/ part = "members" /\ Com!Next /\ UNCHANGED roomVars

RoomsSpec == RoomsInit /\ [][RoomsNext]_<<part, roomVars, committeeVars>>
-----------------------------------------------------------------------------
\* Members never finalize different orders: what one of them folded is a prefix of what
\* the other folded, or the other way around, whatever part of the DAG each has seen
\* (Linearizer::finalized and Room::advance of two members of one room).
MembersAgree == Com!MembersAgree

\* When everyone has received everything and no driver tick would append a checkpoint,
\* every op is final at every member: Room::needs_checkpoint never says no too early.  The
\* exception is an indexer's own op in a committee of two.
StopsWhenFinal == Com!StopsWhenFinal
=============================================================================
