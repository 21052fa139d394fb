------------------------------ MODULE FlatTree ------------------------------
(***************************************************************************)
(* The index arithmetic of crates/merkle (flat.rs): leaves have the even   *)
(* indexes, block k the index 2k, and parents the odd ones.                *)
(***************************************************************************)
EXTENDS Integers, Sequences

\* trailing_zeros of i + 1.
Depth(i) == CHOOSE d \in 0 .. i + 1 : (i + 1) % 2^d = 0 /\ (i + 1) % 2^(d + 1) # 0
Offset(i) == ((i + 1) \div 2^Depth(i) - 1) \div 2
Index(depth, offset) == (1 + 2 * offset) * 2^depth - 1

Parent(i) == Index(Depth(i) + 1, Offset(i) \div 2)
Sibling(i) == Index(Depth(i), IF Offset(i) % 2 = 0 THEN Offset(i) + 1 ELSE Offset(i) - 1)
LeftChild(i) == Index(Depth(i) - 1, 2 * Offset(i))
RightChild(i) == Index(Depth(i) - 1, 2 * Offset(i) + 1)

\* block_range, [first, end).
First(i) == Offset(i) * 2^Depth(i)
End(i) == First(i) + 2^Depth(i)

\* full_roots of the n blocks from block offset on: the largest subtree, then the rest.
RECURSIVE RootsFrom(_, _)
RootsFrom(offset, n) ==
    LET d == CHOOSE e \in 0 .. n : 2^e <= n /\ n < 2^(e + 1)
    IN IF n = 0 THEN <<>>
       ELSE <<offset * 2 + 2^d - 1>> \o RootsFrom(offset + 2^d, n - 2^d)
FullRoots(n) == RootsFrom(0, n)
=============================================================================
