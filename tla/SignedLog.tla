----------------------------- MODULE SignedLog -----------------------------
(***************************************************************************)
(* What a single-writer signed log promises its readers, without the store *)
(* behind it: the log is only ever extended, or cut back to one of its     *)
(* prefixes under the next fork number; what the writer signs is the log   *)
(* and the fork it has at that moment.  Hypercore implements it; Replica   *)
(* reads it.                                                               *)
(***************************************************************************)
EXTENDS Integers, Sequences

CONSTANTS
    Values,     \* encoded block contents
    MaxLen,     \* bound on the length of the log
    MaxFork     \* bound on the fork counter

VARIABLES
    log,        \* the blocks the writer's Merkle tree commits to
    fork,       \* the writer's fork counter
    signed      \* every head the writer ever signed

logVars == <<log, fork, signed>>

Sign(l, f) == signed' = signed \cup {[fork |-> f, root |-> l]}

SignedLogInit == log = <<>> /\ fork = 0 /\ signed = {}

\* append, commit, copy_prologue; an unfinished copy_prologue does not sign.
Grow(blocks) ==
    /\ Len(log) + Len(blocks) <= MaxLen
    /\ log' = log \o blocks
    /\ fork' = fork
    /\ Sign(log', fork) \/ signed' = signed

\* truncate
Rewind(n) ==
    /\ fork < MaxFork /\ n < Len(log)
    /\ log' = SubSeq(log, 1, n)
    /\ fork' = fork + 1
    /\ Sign(log', fork')

SignedLogNext ==
    \/ \E n \in 0 .. MaxLen : \E blocks \in [1 .. n -> Values] : Grow(blocks)
    \/ \E n \in 0 .. MaxLen : Rewind(n)

SignedLogSpec == SignedLogInit /\ [][SignedLogNext]_logVars
=============================================================================
