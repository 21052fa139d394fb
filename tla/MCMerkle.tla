------------------------------ MODULE MCMerkle ------------------------------
(* Blocks with and without bytes; other logs that differ in one block or in none. *)
EXTENDS Merkle

CONSTANTS x, y

TwoBlocks == {<<x, 0>>, <<y, 2>>}
OtherLogs == {[k \in 1 .. n |-> IF k = d THEN <<x, 0>> ELSE <<y, 2>>] : n \in {3, 4, 6, 7}, d \in 0 .. 7}
=============================================================================
