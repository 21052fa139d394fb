---------------------------- MODULE Enumeration ----------------------------
(* Finite sets of numbers in increasing order. *)
EXTENDS Naturals, FiniteSets

\* The sequence of the elements of S, the smallest first: what iterating a BTreeMap, or
\* sorting by key and dropping repetitions, visits.
Ascending(S) ==
    CHOOSE q \in [1 .. Cardinality(S) -> S] :
        \A i, j \in 1 .. Cardinality(S) : i < j => q[i] < q[j]
=============================================================================
