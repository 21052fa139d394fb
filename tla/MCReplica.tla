----------------------------- MODULE MCReplica -----------------------------
\* Instances of Replica for model checking.
EXTENDS Replica

CONSTANTS a, b

MCValues == {a, b}
=============================================================================
