--------------------------- MODULE ManifestProofs ---------------------------
(***************************************************************************)
(* What a quorum of a manifest means, and what a replica under a manifest  *)
(* holds, for every manifest, every number of cores and secrets, and every *)
(* list of signatures it is offered.                                       *)
(***************************************************************************)
EXTENDS ManifestCore, NaturalLemmas

\* The signers a list of partial signatures names.
Named(sigs) == {sigs[i].signer : i \in 1 .. Len(sigs)}

\* An interval from 1, such as the signers of a manifest, has as many elements as its end.
LEMMA IntervalSize ==
    ASSUME NEW n \in Nat
    PROVE  IsFiniteSet(1 .. n) /\ Cardinality(1 .. n) = n
<1>1. /\ IsFiniteSet(1 .. n)
      /\ Cardinality(1 .. n) = IF 1 > n THEN 0 ELSE n - 1 + 1
  BY FS_Interval, 1 \in Int, n \in Int
<1> QED
  BY <1>1

\* The loop of verify counts every signer once: a list it accepts names at least quorum
\* distinct signers of the manifest (Manifest::verify).
LEMMA QuorumCounts ==
    ASSUME NEW m, NEW root, NEW sigs, Len(sigs) \in Nat, Len(m.signers) \in Nat,
           m.quorum \in Nat, Quorum(m, root, sigs)
    PROVE  /\ Named(sigs) \subseteq Signers(m)
           /\ IsFiniteSet(Named(sigs))
           /\ Cardinality(Named(sigs)) \in Nat
           /\ Cardinality(Named(sigs)) >= m.quorum
<1> DEFINE N == 1 .. Len(sigs)
           f == [i \in N |-> sigs[i].signer]
<1>1. Named(sigs) \subseteq Signers(m)
  BY DEF Named, Quorum
<1>2. \A i, j \in N : f[i] = f[j] => i = j
  <2> SUFFICES ASSUME NEW i \in N, NEW j \in N, sigs[i].signer = sigs[j].signer, i # j
               PROVE  FALSE
    OBVIOUS
  <2>1. i \in 1 .. j - 1 \/ j \in 1 .. i - 1
    OBVIOUS
  <2> QED
    BY <2>1 DEF Quorum
<1>3. f \in Bijection(N, Named(sigs))
  <2>1. f \in [N -> Named(sigs)]
    BY DEF Named
  <2>2. \A s \in Named(sigs) : \E i \in N : f[i] = s
    BY DEF Named
  <2> QED
    BY <1>2, <2>1, <2>2 DEF Bijection, Injection, Surjection, IsInjective
<1>4. IsFiniteSet(N) /\ Cardinality(N) = Len(sigs)
  BY IntervalSize
<1>5. IsFiniteSet(Named(sigs)) /\ Cardinality(Named(sigs)) = Len(sigs)
  <2>1. ExistsBijection(N, Named(sigs))
    BY <1>3 DEF ExistsBijection
  <2> QED
    BY <1>4, <2>1, FS_Bijection
<1> QED
  BY <1>1, <1>5 DEF Quorum

\* Two heads that a manifest authorizes past its prologue have at least 2 * quorum - n of its
\* n signers in common (Manifest::verify).
THEOREM QuorumsIntersect ==
    ASSUME NEW m, Len(m.signers) \in Nat, m.quorum \in Nat,
           NEW r1, NEW s1, Len(s1) \in Nat, Quorum(m, r1, s1),
           NEW r2, NEW s2, Len(s2) \in Nat, Quorum(m, r2, s2)
    PROVE  2 * m.quorum <= Len(m.signers) + Cardinality(Named(s1) \cap Named(s2))
<1> DEFINE A == Named(s1)
           B == Named(s2)
<1>1. /\ A \subseteq Signers(m) /\ IsFiniteSet(A)
      /\ Cardinality(A) \in Nat /\ Cardinality(A) >= m.quorum
  BY QuorumCounts
<1>2. /\ B \subseteq Signers(m) /\ IsFiniteSet(B)
      /\ Cardinality(B) \in Nat /\ Cardinality(B) >= m.quorum
  BY QuorumCounts
<1>3. IsFiniteSet(Signers(m)) /\ Cardinality(Signers(m)) = Len(m.signers)
  BY IntervalSize DEF Signers
<1>4. Cardinality(A \cup B) <= Len(m.signers)
  BY <1>1, <1>2, <1>3, A \cup B \subseteq Signers(m), FS_Subset
<1>5. Cardinality(A \cup B) = Cardinality(A) + Cardinality(B) - Cardinality(A \cap B)
  BY <1>1, <1>2, FS_Union
<1>6. Cardinality(A \cap B) \in Nat /\ Cardinality(A \cup B) \in Nat
  <2>1. IsFiniteSet(A \cap B)
    BY <1>1, FS_Intersection
  <2>2. IsFiniteSet(A \cup B)
    BY <1>1, <1>2, FS_Union
  <2> QED
    BY <2>1, <2>2, FS_CardinalityType
<1> HIDE DEF A, B
<1>7. ASSUME NEW q \in Nat, NEW n \in Nat, NEW a \in Nat, NEW b \in Nat, NEW u \in Nat, NEW i \in Nat,
             a >= q, b >= q, u <= n, u = a + b - i
      PROVE  2 * q <= n + i
  BY <1>7
<1>8. 2 * m.quorum <= Len(m.signers) + Cardinality(A \cap B)
  BY <1>1, <1>2, <1>4, <1>5, <1>6, <1>7
<1> QED
  BY <1>8 DEF A, B

\* Under default_quorum two authorized heads share a signer, and both heads carry its
\* signature: if they contradict each other, it signed two histories
\* (Manifest::default_quorum, Manifest::new, Manifest::verify).
THEOREM MajoritySignerSignedBoth ==
    ASSUME NEW signers, Len(signers) \in Nat, NEW m,
           m = New(DefaultQuorum(Len(signers)), signers), m # None,
           NEW r1, NEW s1, Len(s1) \in Nat, Verify(m, r1, s1),
           NEW r2, NEW s2, Len(s2) \in Nat, Verify(m, r2, s2)
    PROVE  \E s \in Signers(m), i \in 1 .. Len(s1), j \in 1 .. Len(s2) :
               /\ s1[i].sig = Sig(m, m.signers[s], r1)
               /\ s2[j].sig = Sig(m, m.signers[s], r2)
<1>1. /\ m.signers = signers /\ m.prologue = None
      /\ m.quorum = (Len(signers) \div 2) + 1 /\ m.quorum \in Nat
  BY DEF New, Policy, DefaultQuorum
<1>2. Quorum(m, r1, s1) /\ Quorum(m, r2, s2)
  BY <1>1 DEF Verify, PrologueDecides
<1>3. 2 * m.quorum <= Len(m.signers) + Cardinality(Named(s1) \cap Named(s2))
  BY <1>1, <1>2, QuorumsIntersect
<1>4. 2 * ((Len(signers) \div 2) + 1) > Len(signers)
  OBVIOUS
<1>5. Named(s1) \cap Named(s2) # {}
  <2> SUFFICES ASSUME Named(s1) \cap Named(s2) = {} PROVE FALSE
    OBVIOUS
  <2>1. Cardinality(Named(s1) \cap Named(s2)) = 0
    BY FS_EmptySet
  <2> QED
    BY <1>1, <1>3, <1>4, <2>1
<1>6. PICK s : s \in Named(s1) /\ s \in Named(s2)
  BY <1>5
<1>7. PICK i \in 1 .. Len(s1) : s = s1[i].signer
  BY <1>6 DEF Named
<1>8. PICK j \in 1 .. Len(s2) : s = s2[j].signer
  BY <1>6 DEF Named
<1>9. /\ s \in Signers(m)
      /\ s1[i].sig = Sig(m, m.signers[s], r1)
      /\ s2[j].sig = Sig(m, m.signers[s], r2)
  BY <1>2, <1>7, <1>8 DEF Quorum
<1> QED
  BY <1>9

-----------------------------------------------------------------------------
\* What has to be known of the logs, the setup and the replica's store.
CoreType ==
    /\ setup \in Setups
    /\ tree \in [Cores -> Seq(Values)] /\ \A c \in Cores : Len(tree[c]) <= MaxLen
    /\ rTree \in Seq(Values)
    /\ rStore \in [1 .. MaxLen -> Values \cup {None}]

\* The verified head is a log, so that what it commits to can be compared with the tree.
VouchInv == CoreType /\ ReplicaVouched /\ (verified # None => verified.root \in Seq(Values))

\* A log a core had a head for is a log of blocks.
LEMMA RootType ==
    ASSUME CoreType, NEW root \in Roots
    PROVE  root \in Seq(Values) /\ Len(root) \in 0 .. MaxLen
<1>1. PICK c \in Cores : root \in Prefixes(tree[c])
  BY DEF Roots, Heads
<1>2. PICK l \in 0 .. Len(tree[c]) : root = SubSeq(tree[c], 1, l)
  BY <1>1 DEF Prefixes
<1>3. tree[c] \in Seq(Values) /\ Len(tree[c]) \in Nat /\ Len(tree[c]) <= MaxLen
  BY DEF CoreType
<1> QED
  BY <1>2, <1>3, ManifestBounds

\* A list of signatures that verify accepts carries those of a quorum of distinct signers,
\* each of them made by a core that had the log (Manifest::verify).
LEMMA AcceptedAuthorized ==
    ASSUME CoreType, NEW root, NEW sigs \in Accepted(root)
    PROVE  Authorized(root)
<1> DEFINE m == setup.replica
<1>1. Verify(m, root, sigs) /\ sigs \in Offers
  BY DEF Accepted
<1>2. CASE PrologueDecides(m, root)
  BY <1>1, <1>2 DEF Verify, Authorized
<1>3. CASE ~PrologueDecides(m, root)
  <2>1. Quorum(m, root, sigs)
    BY <1>1, <1>3 DEF Verify
  <2>2. m.quorum \in Nat /\ Len(m.signers) \in Nat
    BY ManifestSetups DEF CoreType
  <2>3. PICK n \in 0 .. MaxSigs : sigs \in [1 .. n -> Partials]
    BY <1>1 DEF Offers
  <2>4. Len(sigs) = n /\ Len(sigs) \in Nat
    BY <2>3, ManifestBounds
  <2>5. /\ Named(sigs) \subseteq Signers(m) /\ Cardinality(Named(sigs)) \in Nat
        /\ Cardinality(Named(sigs)) >= m.quorum
    BY <2>1, <2>2, <2>4, QuorumCounts
  <2>6. Named(sigs) \subseteq SignedBy(root)
    <3> SUFFICES ASSUME NEW i \in 1 .. Len(sigs)
                 PROVE  sigs[i].signer \in SignedBy(root)
      BY DEF Named
    <3>1. sigs[i] \in Partials
      BY <2>3, <2>4
    <3>2. sigs[i].sig \in Published
      BY <3>1 DEF Partials
    <3>3. sigs[i].signer \in Signers(m) /\ sigs[i].sig = Sig(m, m.signers[sigs[i].signer], root)
      BY <2>1 DEF Quorum
    <3> QED
      BY <3>2, <3>3 DEF SignedBy
  <2>7. IsFiniteSet(SignedBy(root))
    <3>1. SignedBy(root) \subseteq 1 .. Len(m.signers)
      BY DEF SignedBy, Signers
    <3> QED
      BY <2>2, <3>1, IntervalSize, FS_Subset
  <2>8. Cardinality(Named(sigs)) <= Cardinality(SignedBy(root)) /\ Cardinality(SignedBy(root)) \in Nat
    BY <2>6, <2>7, FS_Subset, FS_CardinalityType
  <2>9. m.quorum > 0
    BY <2>1, <2>2 DEF Quorum
  <2> QED
    BY <1>3, <2>2, <2>5, <2>8, <2>9 DEF Authorized
<1> QED
  BY <1>2, <1>3

\* A log that grows keeps the logs it had a head for.
LEMMA HeadsGrow ==
    ASSUME NEW s \in Seq(Values), NEW v \in Values
    PROVE  Prefixes(s) \subseteq Prefixes(Append(s, v))
<1> SUFFICES ASSUME NEW l \in 0 .. Len(s)
             PROVE  SubSeq(s, 1, l) \in Prefixes(Append(s, v))
  BY DEF Prefixes
<1>1. SubSeq(s, 1, l) = SubSeq(Append(s, v), 1, l) /\ l \in 0 .. Len(Append(s, v))
  OBVIOUS
<1> QED
  BY <1>1 DEF Prefixes

\* Cores only ever sign more.
LEMMA SignaturesStay ==
    ASSUME CoreType, UNCHANGED setup,
           \A c \in Cores : Prefixes(tree[c]) \subseteq Prefixes(tree'[c])
    PROVE  /\ Roots \subseteq Roots'
           /\ \A root : Authorized(root) => Authorized(root)'
<1>1. \A c \in Cores : Heads(c) \subseteq Heads(c)' /\ Declared(c)' = Declared(c)
  BY DEF Heads, Declared
<1>2. Roots \subseteq Roots'
  BY <1>1 DEF Roots
<1>3. Published \subseteq Published'
  <2> SUFFICES ASSUME NEW c \in Cores, NEW k \in Declared(c), NEW root \in Heads(c)
               PROVE  Sig(setup.manifest[c], k, root) \in Published'
    BY DEF Published
  <2> QED
    BY <1>1 DEF Published
<1>4. ASSUME NEW root, Authorized(root)
      PROVE  Authorized(root)'
  <2>1. CASE PrologueDecides(setup.replica, root)
    BY <1>4, <2>1 DEF Authorized
  <2>2. CASE ~PrologueDecides(setup.replica, root)
    <3>1. SignedBy(root) \subseteq SignedBy(root)'
      BY <1>3 DEF SignedBy
    <3>2. setup.replica.quorum \in Nat /\ Len(setup.replica.signers) \in Nat
      BY ManifestSetups DEF CoreType
    <3>3. SignedBy(root)' \subseteq 1 .. Len(setup.replica.signers)
      BY DEF SignedBy, Signers
    <3>4. IsFiniteSet(SignedBy(root)')
      BY <3>2, <3>3, IntervalSize, FS_Subset
    <3>5. IsFiniteSet(SignedBy(root)) /\ Cardinality(SignedBy(root)) <= Cardinality(SignedBy(root)')
      BY <3>1, <3>4, FS_Subset
    <3>6. Cardinality(SignedBy(root)) \in Nat /\ Cardinality(SignedBy(root)') \in Nat
      BY <3>4, <3>5, FS_CardinalityType
    <3> QED
      BY <1>4, <2>2, <3>2, <3>5, <3>6 DEF Authorized
  <2> QED
    BY <2>1, <2>2
<1> QED
  BY <1>2, <1>4

\* A step of the cores leaves the replica as vouched for as it was.
LEMMA CoresKeep ==
    ASSUME VouchInv, UNCHANGED <<setup, replicaVars>>,
           tree' \in [Cores -> Seq(Values)], \A c \in Cores : Len(tree'[c]) <= MaxLen,
           \A c \in Cores : Prefixes(tree[c]) \subseteq Prefixes(tree'[c])
    PROVE  VouchInv'
<1>1. CoreType' /\ UNCHANGED <<rTree, rStore, verified>>
  BY DEF VouchInv, CoreType, replicaVars
<1>2. Roots \subseteq Roots' /\ \A root : Authorized(root) => Authorized(root)'
  BY SignaturesStay DEF VouchInv
<1>3. ReplicaVouched'
  <2>1. ASSUME NEW i \in 1 .. Len(rTree)
        PROVE  \E root \in Roots' : Authorized(root)' /\ i <= Len(root) /\ root[i] = rTree[i]
    <3>1. PICK root \in Roots : Authorized(root) /\ i <= Len(root) /\ root[i] = rTree[i]
      BY DEF VouchInv, ReplicaVouched
    <3> QED
      BY <1>2, <3>1
  <2>2. \A i \in 1 .. Len(rTree) : rStore[i] = rTree[i]
    BY DEF VouchInv, ReplicaVouched
  <2>3. verified # None => Authorized(verified.root)' /\ IsPrefix(verified.root, rTree)
    <3>1. verified # None => Authorized(verified.root) /\ IsPrefix(verified.root, rTree)
      BY DEF VouchInv, ReplicaVouched
    <3>2. Authorized(verified.root) => Authorized(verified.root)'
      <4>1. ASSUME NEW root PROVE Authorized(root) => Authorized(root)'
        BY <1>2
      <4> QED
        BY <1>1, <4>1 DEF Authorized, SignedBy
    <3> QED
      BY <3>1, <3>2
  <2> QED
    BY <1>1, <2>1, <2>2, <2>3 DEF ReplicaVouched, IsPrefix
<1> QED
  BY <1>1, <1>3 DEF VouchInv

\* A block that add_block accepts belongs to an authorized log, and goes where it is there
\* (ManifestReplica::add_block).
LEMMA AddKeeps ==
    ASSUME VouchInv, NEW root \in Roots, NEW sigs \in Accepted(root), NEW v \in Values,
           AddBlock(root, sigs, v) \/ AddBlockFails(root, sigs, v)
    PROVE  VouchInv'
<1> DEFINE n == Len(rTree)
<1>1. /\ CoreType /\ rTree \in Seq(Values) /\ n \in Nat
      /\ rStore \in [1 .. MaxLen -> Values \cup {None}]
      /\ root \in Seq(Values) /\ Len(root) \in 0 .. MaxLen /\ Authorized(root)
  BY RootType, AcceptedAuthorized DEF VouchInv, CoreType
<1>2. /\ n + 1 <= Len(root) /\ v = root[n + 1]
      /\ rStore' = rStore \/ rStore' = [rStore EXCEPT ![n + 1] = v]
      /\ UNCHANGED <<setup, tree>>
  BY DEF AddBlock, AddBlockFails, VerifyBlock, coreVars
<1>3. /\ rStore' \in [1 .. MaxLen -> Values \cup {None}]
      /\ \A i \in 1 .. n : i \in 1 .. MaxLen /\ rStore'[i] = rStore[i]
  BY <1>1, <1>2, ManifestBounds
<1>4. /\ Roots' = Roots
      /\ \A r : Authorized(r)' <=> Authorized(r)
  BY <1>2 DEF Roots, Heads, Authorized, SignedBy, Published, Declared
<1>5. \A i \in 1 .. n : /\ rStore'[i] = rTree[i]
                        /\ \E r \in Roots : Authorized(r) /\ i <= Len(r) /\ r[i] = rTree[i]
  BY <1>3 DEF VouchInv, ReplicaVouched
<1>6. CASE AddBlockFails(root, sigs, v)
  <2>1. UNCHANGED <<rTree, verified>>
    BY <1>6 DEF AddBlockFails
  <2>2. CoreType'
    BY <1>2, <1>3, <2>1 DEF VouchInv, CoreType
  <2>3. ReplicaVouched'
    BY <1>4, <1>5, <2>1 DEF VouchInv, ReplicaVouched, IsPrefix
  <2> QED
    BY <2>1, <2>2, <2>3 DEF VouchInv
<1>7. CASE AddBlock(root, sigs, v)
  <2>1. /\ rTree' = Append(rTree, v) /\ rStore' = [rStore EXCEPT ![n + 1] = v]
        /\ \/ rTree' = root /\ verified' = [root |-> root, sigs |-> sigs]
           \/ verified' = verified
    BY <1>7 DEF AddBlock
  <2>2. /\ rTree' \in Seq(Values) /\ Len(rTree') = n + 1 /\ rTree'[n + 1] = v
        /\ \A i \in 1 .. n : rTree'[i] = rTree[i]
    BY <1>1, <2>1
  <2>3. rStore'[n + 1] = v
    BY <1>1, <1>2, <2>1, ManifestBounds
  <2>4. CoreType'
    BY <1>2, <1>3, <2>2 DEF VouchInv, CoreType
  <2>5. ASSUME NEW i \in 1 .. n + 1
        PROVE  /\ rStore'[i] = rTree'[i]
               /\ \E r \in Roots : Authorized(r) /\ i <= Len(r) /\ r[i] = rTree'[i]
    <3>1. CASE i = n + 1
      BY <1>1, <1>2, <2>2, <2>3, <3>1
    <3>2. CASE i \in 1 .. n
      BY <1>5, <2>2, <3>2
    <3> QED
      BY <1>1, <3>1, <3>2
  <2>6. /\ verified' # None => Authorized(verified'.root) /\ IsPrefix(verified'.root, rTree')
        /\ verified' # None => verified'.root \in Seq(Values)
    <3>1. CASE rTree' = root /\ verified' = [root |-> root, sigs |-> sigs]
      BY <1>1, <3>1 DEF IsPrefix
    <3>2. CASE verified' = verified /\ verified # None
      <4>1. verified.root \in Seq(Values) /\ Authorized(verified.root) /\ IsPrefix(verified.root, rTree)
        BY <3>2 DEF VouchInv, ReplicaVouched
      <4>2. Len(verified.root) \in 0 .. n
        BY <1>1, <4>1 DEF IsPrefix
      <4>3. SubSeq(rTree', 1, Len(verified.root)) = SubSeq(rTree, 1, Len(verified.root))
        BY <1>1, <2>1, <4>2
      <4> QED
        BY <2>2, <3>2, <4>1, <4>2, <4>3, <1>1 DEF IsPrefix
    <3> QED
      BY <2>1, <3>1, <3>2
  <2>7. ReplicaVouched'
    <3>1. Authorized(verified.root)' <=> Authorized(verified'.root)
      BY <1>2 DEF Authorized, SignedBy, Published, Heads, Declared
    <3> QED
      BY <1>4, <2>2, <2>5, <2>6, <3>1 DEF ReplicaVouched, IsPrefix
  <2> QED
    BY <2>4, <2>6, <2>7 DEF VouchInv
<1> QED
  BY <1>6, <1>7

\* Every step keeps the invariant.
LEMMA VouchStep ==
    ASSUME VouchInv, [Next]_vars
    PROVE  VouchInv'
<1>1. ASSUME NEW c \in Cores, NEW v \in Values, AppendBlock(c, v)
      PROVE  VouchInv'
  <2>1. /\ tree \in [Cores -> Seq(Values)] /\ Len(tree[c]) < MaxLen /\ Len(tree[c]) \in Nat
        /\ tree' = [tree EXCEPT ![c] = Append(@, v)] /\ UNCHANGED <<setup, replicaVars>>
    BY <1>1 DEF AppendBlock, VouchInv, CoreType
  <2>2. tree' \in [Cores -> Seq(Values)] /\ \A d \in Cores : Len(tree'[d]) <= MaxLen
    <3>1. Append(tree[c], v) \in Seq(Values) /\ Len(Append(tree[c], v)) <= MaxLen
      BY <2>1, ManifestBounds
    <3> QED
      BY <2>1, <3>1 DEF VouchInv, CoreType
  <2>3. \A d \in Cores : Prefixes(tree[d]) \subseteq Prefixes(tree'[d])
    BY <2>1, HeadsGrow
  <2> QED
    BY <2>1, <2>2, <2>3, CoresKeep
<1>2. ASSUME (\E c \in Cores, v \in Values : AppendFails(c, v)) \/ UNCHANGED vars
      PROVE  VouchInv'
  <2>1. UNCHANGED <<setup, replicaVars, tree>>
    BY <1>2 DEF AppendFails, vars, replicaVars
  <2> QED
    BY <2>1, CoresKeep DEF VouchInv, CoreType
<1> QED
  BY <1>1, <1>2, AddKeeps DEF Next

\* Whatever it is offered and whoever sends it, a replica holds only blocks of logs that a
\* quorum of distinct signers of its manifest signed, or of the prologue, and reports a head
\* only when it has every block of it (ManifestReplica::add_block, Manifest::verify).
THEOREM ReplicaStaysVouched == Spec => []ReplicaVouched
<1>1. Init => VouchInv
  BY ManifestBounds DEF Init, VouchInv, CoreType, ReplicaVouched, Blank
<1>2. VouchInv /\ [Next]_vars => VouchInv'
  BY VouchStep
<1>3. VouchInv => ReplicaVouched
  BY DEF VouchInv
<1> QED
  BY <1>1, <1>2, <1>3, PTL DEF Spec

-----------------------------------------------------------------------------
\* A core's head is its own signing of the log it holds.
HeadInv == \A c \in Cores : head[c] # None => tree[c] # <<>> /\ head[c] = Resigned(c, tree[c])

MeetInv == VouchInv /\ DOMAIN head = Cores /\ HeadInv

\* Each append signs again, and nothing else touches a log or its head.
LEMMA MeetStep ==
    ASSUME MeetInv, [Next]_vars
    PROVE  MeetInv'
<1>1. VouchInv'
  BY VouchStep DEF MeetInv
<1>2. ASSUME NEW c \in Cores, NEW v \in Values, AppendBlock(c, v)
      PROVE  DOMAIN head' = Cores /\ HeadInv'
  <2>1. /\ tree' = [tree EXCEPT ![c] = Append(@, v)]
        /\ head' = [head EXCEPT ![c] = Resigned(c, tree'[c])]
        /\ UNCHANGED setup
    BY <1>2 DEF AppendBlock
  <2>2. DOMAIN head' = Cores /\ DOMAIN tree = Cores /\ tree[c] \in Seq(Values)
    BY <2>1 DEF MeetInv, VouchInv, CoreType
  <2>4. ASSUME NEW d \in Cores, head'[d] # None
        PROVE  tree'[d] # <<>> /\ head'[d] = Resigned(d, tree[d])'
    <3>1. CASE d = c
      <4>1. tree'[c] = Append(tree[c], v) /\ head'[c] = Resigned(c, tree'[c])
        BY <2>1, <2>2 DEF MeetInv
      <4>2. Append(tree[c], v) # <<>>
        BY <2>2
      <4>3. Slots(c)' = Slots(c)
        BY <2>1 DEF Slots
      <4>4. Resigned(c, tree[c])' = Resigned(c, tree'[c])
        BY <2>1, <4>3 DEF Resigned
      <4> QED
        BY <3>1, <4>1, <4>2, <4>4
    <3>2. CASE d # c
      <4>1. tree'[d] = tree[d] /\ head'[d] = head[d]
        BY <2>1, <2>2, <3>2 DEF MeetInv
      <4>2. Slots(d)' = Slots(d)
        BY <2>1 DEF Slots
      <4>3. Resigned(d, tree[d])' = Resigned(d, tree'[d])
        BY <2>1, <4>2 DEF Resigned
      <4> QED
        BY <2>4, <4>1, <4>3 DEF MeetInv, HeadInv
    <3> QED
      BY <3>1, <3>2
  <2> QED
    BY <2>2, <2>4 DEF HeadInv
<1>3. ASSUME UNCHANGED <<setup, tree, head>>
      PROVE  DOMAIN head' = Cores /\ HeadInv'
  <2>1. ASSUME NEW c \in Cores PROVE Resigned(c, tree[c])' = Resigned(c, tree[c])
    <3>1. Slots(c)' = Slots(c)
      BY <1>3 DEF Slots
    <3> QED
      BY <1>3, <3>1 DEF Resigned
  <2> QED
    BY <1>3, <2>1 DEF MeetInv, HeadInv
<1>4. CASE \E c \in Cores, v \in Values : AppendBlock(c, v)
  BY <1>1, <1>2, <1>4 DEF MeetInv
<1>5. CASE UNCHANGED <<setup, tree, head>>
  BY <1>1, <1>3, <1>5 DEF MeetInv
<1> QED
  BY <1>4, <1>5 DEF Next, AppendFails, AddBlock, AddBlockFails, coreVars, vars

\* The signers of a head a core ratifies itself are signers that signed its log.
LEMMA HeadSigned ==
    ASSUME MeetInv, NEW c \in Cores, setup.manifest[c] = setup.replica, head[c] # None,
           Quorum(setup.replica, tree[c], head[c].sigs)
    PROVE  /\ IsFiniteSet(SignedBy(tree[c]))
           /\ Cardinality(SignedBy(tree[c])) \in Nat
           /\ Cardinality(SignedBy(tree[c])) >= setup.replica.quorum
<1> DEFINE m == setup.replica
           sigs == head[c].sigs
<1>1. m.quorum \in Nat /\ Len(m.signers) \in Nat
  BY ManifestSetups DEF MeetInv, VouchInv, CoreType
<1>2. tree[c] \in Seq(Values) /\ tree[c] # <<>> /\ head[c] = Resigned(c, tree[c])
  BY DEF MeetInv, VouchInv, CoreType, HeadInv
<1>3. Slots(c) \subseteq 1 .. Len(m.signers)
  BY DEF Slots, Places, Signers
<1>4. /\ IsFiniteSet(Slots(c)) /\ Cardinality(Slots(c)) \in Nat
      /\ Ascending(Slots(c)) \in [1 .. Cardinality(Slots(c)) -> Slots(c)]
  <2>1. IsFiniteSet(Slots(c)) /\ Slots(c) \in SUBSET Nat
    BY <1>1, <1>3, IntervalSize, FS_Subset
  <2> QED
    BY <2>1, AscendingList
<1>5. /\ sigs = [i \in 1 .. Cardinality(Slots(c)) |-> PartialSig(m, Ascending(Slots(c))[i], tree[c])]
      /\ Len(sigs) = Cardinality(Slots(c))
  BY <1>2, <1>4 DEF Resigned
<1>6. /\ Named(sigs) \subseteq Signers(m) /\ IsFiniteSet(Named(sigs))
      /\ Cardinality(Named(sigs)) \in Nat /\ Cardinality(Named(sigs)) >= m.quorum
  BY <1>1, <1>4, <1>5, QuorumCounts
<1>7. tree[c] \in Heads(c)
  <2>1. Len(tree[c]) \in 0 .. Len(tree[c]) /\ tree[c] = SubSeq(tree[c], 1, Len(tree[c]))
    BY <1>2
  <2> QED
    BY <1>2, <2>1 DEF Heads, Prefixes
<1>8. Named(sigs) \subseteq SignedBy(tree[c])
  <2> SUFFICES ASSUME NEW i \in 1 .. Len(sigs)
               PROVE  sigs[i].signer \in SignedBy(tree[c])
    BY DEF Named
  <2> DEFINE s == Ascending(Slots(c))[i]
  <2>1. sigs[i].signer = s /\ s \in Slots(c)
    BY <1>4, <1>5 DEF PartialSig
  <2> HIDE DEF s
  <2>2. PICK k \in Range(setup.secrets[c]) : s \in Places(m, k)
    BY <2>1 DEF Slots
  <2>3. s \in Signers(m) /\ m.signers[s] = k /\ k \in Declared(c)
    BY <2>2 DEF Places, Declared
  <2>4. Sig(m, m.signers[s], tree[c]) \in Published
    BY <1>7, <2>3 DEF Published
  <2> QED
    BY <2>1, <2>3, <2>4 DEF SignedBy
<1>9. IsFiniteSet(SignedBy(tree[c]))
  <2>1. SignedBy(tree[c]) \subseteq 1 .. Len(m.signers)
    BY DEF SignedBy, Signers
  <2> QED
    BY <1>1, <2>1, IntervalSize, FS_Subset
<1>10. Cardinality(Named(sigs)) <= Cardinality(SignedBy(tree[c])) /\ Cardinality(SignedBy(tree[c])) \in Nat
  BY <1>8, <1>9, FS_Subset, FS_CardinalityType
<1> QED
  BY <1>1, <1>6, <1>9, <1>10

\* Two sets of signers with a majority each have one in common.
LEMMA MajoritiesOverlap ==
    ASSUME NEW n \in Nat, NEW q \in Nat, 2 * q > n,
           NEW A, A \subseteq 1 .. n, Cardinality(A) >= q,
           NEW B, B \subseteq 1 .. n, Cardinality(B) >= q
    PROVE  A \cap B # {}
<1> SUFFICES ASSUME A \cap B = {} PROVE FALSE
  OBVIOUS
<1>1. IsFiniteSet(1 .. n) /\ Cardinality(1 .. n) = n
  BY IntervalSize
<1>2. IsFiniteSet(A) /\ IsFiniteSet(B) /\ Cardinality(A \cup B) <= n
  <2>1. A \in SUBSET (1 .. n) /\ B \in SUBSET (1 .. n) /\ A \cup B \in SUBSET (1 .. n)
    OBVIOUS
  <2>2. Cardinality(A \cup B) <= Cardinality(1 .. n)
    BY <1>1, <2>1, FS_Subset
  <2> QED
    BY <1>1, <2>1, <2>2, FS_Subset
<1>3. Cardinality(A) \in Nat /\ Cardinality(B) \in Nat
  BY <1>2, FS_CardinalityType
<1>4. Cardinality(A \cup B) = Cardinality(A) + Cardinality(B)
  <2>1. Cardinality(A \cup B) = Cardinality(A) + Cardinality(B) - Cardinality(A \cap B)
    BY <1>2, FS_Union
  <2>2. Cardinality(A \cap B) = 0
    BY FS_EmptySet
  <2> QED
    BY <1>3, <2>1, <2>2
<1> QED
  BY <1>2, <1>3, <1>4

\* Under a majority quorum two heads that contradict each other, the one a replica reports and
\* the one a core ratifies itself, were both signed by some signer, whoever assembled them
\* (Manifest::default_quorum, ManifestCore::resign, verify_head, ManifestReplica::add_block).
THEOREM MajoritiesAlwaysMeet == Spec => []MajoritiesMeet
<1>1. Init => MeetInv
  <2>1. Init => VouchInv
    BY ManifestBounds DEF Init, VouchInv, CoreType, ReplicaVouched, Blank
  <2> QED
    BY <2>1 DEF Init, MeetInv, HeadInv
<1>2. MeetInv /\ [Next]_vars => MeetInv'
  BY MeetStep
<1>3. MeetInv => MajoritiesMeet
  <2> DEFINE m == setup.replica
             n == Len(m.signers)
  <2> SUFFICES ASSUME MeetInv, NEW c \in Cores, verified # None, head[c] # None,
                      setup.manifest[c] = m, m = New(DefaultQuorum(n), m.signers), VerifyHead(c)
               PROVE  SignedBy(verified.root) \cap SignedBy(tree[c]) # {}
    BY DEF MajoritiesMeet
  <2>1. m.quorum \in Nat /\ n \in Nat
    BY ManifestSetups DEF MeetInv, VouchInv, CoreType
  <2>2. Verify(m, tree[c], head[c].sigs)
    BY DEF VerifyHead
  <2>3. Authorized(verified.root)
    BY DEF MeetInv, VouchInv, ReplicaVouched
  <2>4. m.prologue = None /\ m.quorum = (n \div 2) + 1
    <3>1. m # None
      BY ManifestSetups DEF MeetInv, VouchInv, CoreType
    <3>2. m = Policy(DefaultQuorum(n), m.signers, None)
      BY <3>1 DEF New
    <3> HIDE DEF m
    <3> QED
      BY <3>2 DEF Policy, DefaultQuorum
  <2>5. Quorum(m, tree[c], head[c].sigs)
    BY <2>2, <2>4 DEF Verify, PrologueDecides
  <2>6. Cardinality(SignedBy(verified.root)) >= m.quorum
    BY <2>3, <2>4 DEF Authorized, PrologueDecides
  <2>7. Cardinality(SignedBy(tree[c])) >= m.quorum
    BY <2>5, HeadSigned
  <2>8. SignedBy(verified.root) \subseteq 1 .. n /\ SignedBy(tree[c]) \subseteq 1 .. n
    BY DEF SignedBy, Signers
  <2> DEFINE A == SignedBy(verified.root)
             B == SignedBy(tree[c])
             q == m.quorum
  <2> HIDE DEF A, B, q, n
  <2>9. 2 * q > n
    <3>1. \A i \in Nat : 2 * ((i \div 2) + 1) > i
      OBVIOUS
    <3>2. n \in Nat /\ q = (n \div 2) + 1
      BY <2>1, <2>4 DEF q, n
    <3> QED
      BY <3>1, <3>2
  <2>10. A \cap B # {}
    BY <2>1, <2>6, <2>7, <2>8, <2>9, MajoritiesOverlap DEF A, B, q, n
  <2> QED
    BY <2>10 DEF A, B
<1> QED
  BY <1>1, <1>2, <1>3, PTL DEF Spec
=============================================================================
