--------------------------- MODULE NaturalLemmas ----------------------------
(***************************************************************************)
(* Induction and recursion over the natural numbers, stated for sets and   *)
(* functions so that they can be cited as facts, and the enumeration of a  *)
(* finite set in increasing order.  The proofs about loops rest on them.   *)
(***************************************************************************)
EXTENDS Enumeration, FiniteSetTheorems, WellFoundedInduction, TLAPS

\* The order of the natural numbers as a set of pairs.
Less == {p \in Nat \X Nat : p[1] < p[2]}

\* It is well founded.
LEMMA LessWellFounded == IsWellFoundedOn(Less, Nat)
BY NatLessThanWellFounded DEF OpToRel, Less

\* A set of natural numbers that is not empty has a least element.
LEMMA LeastNat ==
    ASSUME NEW T, T \subseteq Nat, T # {}
    PROVE  \E x \in T : \A y \in T : x <= y
<1>1. PICK x \in T : \A y \in T : ~ (<<y, x>> \in Less)
  BY WFMin, LessWellFounded
<1>2. ASSUME NEW y \in T PROVE x <= y
  <2>1. x \in Nat /\ y \in Nat /\ <<y, x>> \in Nat \X Nat
    OBVIOUS
  <2> QED
    BY <1>1, <2>1 DEF Less
<1> QED
  BY <1>2

\* Induction: a set that holds 0 and the successor of each of its members holds every number.
LEMMA Induction ==
    ASSUME NEW S, 0 \in S, \A n \in Nat : n \in S => n + 1 \in S
    PROVE  \A n \in Nat : n \in S
<1> DEFINE T == {n \in Nat : n \notin S}
<1> SUFFICES ASSUME T # {} PROVE FALSE
  OBVIOUS
<1>1. PICK x \in T : \A y \in T : x <= y
  BY LeastNat
<1>2. x \in Nat /\ x # 0 /\ x \notin S
  OBVIOUS
<1>3. x - 1 \in Nat /\ x - 1 \notin T
  BY <1>1, <1>2
<1> QED
  BY <1>2, <1>3

\* h follows the recursion from v by the step g up to turn n.
Recurs(h, n, V, v, g) == /\ h \in [0 .. n -> V] /\ h[0] = v
                         /\ \A i \in 0 .. n - 1 : h[i + 1] = g[<<i, h[i]>>]

\* Two functions that follow the same recursion agree as far as both do.
LEMMA RecursionUnique ==
    ASSUME NEW V, NEW v, NEW g, NEW n \in Nat, NEW m \in Nat, n <= m,
           NEW h, Recurs(h, n, V, v, g), NEW k, Recurs(k, m, V, v, g)
    PROVE  h[n] = k[n]
<1> DEFINE S == {i \in Nat : i <= n => h[i] = k[i]}
<1>1. 0 \in S
  BY DEF Recurs
<1>2. ASSUME NEW i \in Nat, i \in S PROVE i + 1 \in S
  <2> SUFFICES ASSUME i + 1 <= n PROVE h[i + 1] = k[i + 1]
    OBVIOUS
  <2>1. i \in 0 .. n - 1 /\ i \in 0 .. m - 1 /\ h[i] = k[i]
    BY <1>2
  <2> QED
    BY <2>1 DEF Recurs
<1>3. \A i \in Nat : i \in S
  <2> HIDE DEF S
  <2> QED
    BY <1>1, <1>2, Induction
<1> QED
  BY <1>3

\* The step g, which depends on the number of the turn, stays in V.
StaysIn(g, V) == \A n \in Nat, s \in V : g[<<n, s>>] \in V

\* h follows the recursion from v by the step g for ever.
Follows(h, V, v, g) == h \in [Nat -> V] /\ h[0] = v /\ \A n \in Nat : h[n + 1] = g[<<n, h[n]>>]

\* Recursion: a start and a step define a function.
LEMMA Recursion ==
    ASSUME NEW V, NEW v \in V, NEW g, StaysIn(g, V)
    PROVE  \E h : Follows(h, V, v, g)
<1> DEFINE S == {n \in Nat : \E h : Recurs(h, n, V, v, g)}
<1>1. 0 \in S
  <2>1. Recurs([i \in 0 .. 0 |-> v], 0, V, v, g)
    BY DEF Recurs
  <2> QED
    BY <2>1
<1>2. ASSUME NEW n \in Nat, n \in S PROVE n + 1 \in S
  <2>1. PICK h : Recurs(h, n, V, v, g)
    BY <1>2
  <2> DEFINE k == [i \in 0 .. n + 1 |-> IF i <= n THEN h[i] ELSE g[<<n, h[n]>>]]
  <2>2. h[n] \in V /\ g[<<n, h[n]>>] \in V
    BY <2>1 DEF Recurs, StaysIn
  <2>3. k \in [0 .. n + 1 -> V] /\ k[0] = v
    BY <2>1, <2>2 DEF Recurs
  <2>4. ASSUME NEW i \in 0 .. (n + 1) - 1 PROVE k[i + 1] = g[<<i, k[i]>>]
    <3>1. CASE i = n
      <4>1. n + 1 \in 0 .. n + 1 /\ n \in 0 .. n + 1 /\ ~ (n + 1 <= n) /\ n <= n
        OBVIOUS
      <4>2. k[n + 1] = g[<<n, h[n]>>] /\ k[n] = h[n]
        BY <4>1
      <4> QED
        BY <3>1, <4>2
    <3>2. CASE i # n
      <4>1. i \in 0 .. n - 1 /\ i + 1 <= n /\ i <= n
        BY <3>2
      <4> QED
        BY <2>1, <4>1 DEF Recurs
    <3> QED
      BY <3>1, <3>2
  <2>5. Recurs(k, n + 1, V, v, g)
    BY <2>3, <2>4 DEF Recurs
  <2> QED
    BY <2>5
<1>3. \A n \in Nat : n \in S
  <2> HIDE DEF S
  <2> QED
    BY <1>1, <1>2, Induction
<1> DEFINE part == [n \in Nat |-> CHOOSE h : Recurs(h, n, V, v, g)]
           all == [n \in Nat |-> part[n][n]]
<1>4. \A n \in Nat : Recurs(part[n], n, V, v, g)
  BY <1>3
<1> HIDE DEF part
<1>5. all \in [Nat -> V] /\ all[0] = v
  BY <1>4 DEF Recurs
<1>6. ASSUME NEW n \in Nat PROVE all[n + 1] = g[<<n, all[n]>>]
  <2>1. Recurs(part[n], n, V, v, g) /\ Recurs(part[n + 1], n + 1, V, v, g)
    BY <1>4
  <2>2. n + 1 \in Nat /\ n <= n + 1 /\ n \in 0 .. n /\ n \in 0 .. (n + 1) - 1
    OBVIOUS
  <2>3. part[n][n] = part[n + 1][n]
    BY <2>1, <2>2, RecursionUnique
  <2>4. part[n + 1][n + 1] = g[<<n, part[n + 1][n]>>]
    BY <2>1, <2>2 DEF Recurs
  <2> QED
    BY <2>2, <2>3, <2>4
<1>7. Follows(all, V, v, g)
  <2> HIDE DEF all
  <2> QED
    BY <1>5, <1>6 DEF Follows
<1> QED
  BY <1>7

\* A finite set of natural numbers can be listed in increasing order.
LEMMA AscendingList ==
    ASSUME NEW S \in SUBSET Nat, IsFiniteSet(S)
    PROVE  /\ Cardinality(S) \in Nat
           /\ Ascending(S) \in [1 .. Cardinality(S) -> S]
           /\ \A i, j \in 1 .. Cardinality(S) : i < j => Ascending(S)[i] < Ascending(S)[j]
<1> DEFINE Lists(A, n, q) == /\ q \in [1 .. n -> A]
                             /\ \A i, j \in 1 .. n : i < j => q[i] < q[j]
           N == {n \in Nat : \A A \in SUBSET Nat :
                                IsFiniteSet(A) /\ Cardinality(A) = n => \E q : Lists(A, n, q)}
<1>1. 0 \in N
  <2> SUFFICES ASSUME NEW A \in SUBSET Nat PROVE \E q : Lists(A, 0, q)
    OBVIOUS
  <2>1. Lists(A, 0, [i \in 1 .. 0 |-> 0])
    OBVIOUS
  <2> QED
    BY <2>1
<1>2. ASSUME NEW n \in Nat, n \in N PROVE n + 1 \in N
  <2> SUFFICES ASSUME NEW A \in SUBSET Nat, IsFiniteSet(A), Cardinality(A) = n + 1
               PROVE  \E q : Lists(A, n + 1, q)
    OBVIOUS
  <2>1. A # {}
    BY FS_EmptySet
  <2>2. PICK x \in A : \A y \in A : x <= y
    BY <2>1, LeastNat
  <2>3. IsFiniteSet(A \ {x}) /\ Cardinality(A \ {x}) = n
    <3>1. IsFiniteSet(A \ {x}) /\ Cardinality(A \ {x}) = Cardinality(A) - 1
      BY FS_RemoveElement
    <3> QED
      BY <3>1
  <2>4. PICK q : Lists(A \ {x}, n, q)
    BY <1>2, <2>3
  <2> DEFINE r == [i \in 1 .. n + 1 |-> IF i = 1 THEN x ELSE q[i - 1]]
  <2>5. ASSUME NEW i \in 1 .. n + 1, i # 1
        PROVE  i - 1 \in 1 .. n /\ r[i] = q[i - 1] /\ r[i] \in A /\ r[i] # x
    BY <2>4, <2>5
  <2>6. r \in [1 .. n + 1 -> A]
    BY <2>5
  <2>7. ASSUME NEW i \in 1 .. n + 1, NEW j \in 1 .. n + 1, i < j PROVE r[i] < r[j]
    <3>1. j # 1 /\ r[j] \in A /\ r[j] # x /\ r[j] = q[j - 1] /\ j - 1 \in 1 .. n
      BY <2>5, <2>7
    <3>2. CASE i = 1
      <4>1. r[i] = x
        BY <3>2
      <4>2. x \in Nat /\ r[j] \in Nat /\ x <= r[j]
        BY <2>2, <3>1
      <4> QED
        BY <3>1, <4>1, <4>2
    <3>3. CASE i # 1
      <4>1. i - 1 \in 1 .. n /\ r[i] = q[i - 1] /\ i - 1 < j - 1
        BY <2>5, <2>7, <3>3
      <4> QED
        BY <2>4, <3>1, <4>1
    <3> QED
      BY <3>2, <3>3
  <2> QED
    BY <2>6, <2>7
<1>3. \A n \in Nat : n \in N
  <2> HIDE DEF N
  <2> QED
    BY <1>1, <1>2, Induction
<1>4. Cardinality(S) \in Nat
  BY FS_CardinalityType
<1>5. PICK q : Lists(S, Cardinality(S), q)
  BY <1>3, <1>4
<1> QED
  BY <1>4, <1>5 DEF Ascending
=============================================================================
