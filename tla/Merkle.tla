------------------------------- MODULE Merkle -------------------------------
(***************************************************************************)
(* The Merkle tree of crates/merkle (tree.rs, proof.rs): nodes in a map by *)
(* flat-tree index, rolled up as blocks are appended, cut by truncate,     *)
(* taken over by reorg, lost and recovered one by one; and the proofs made *)
(* from them: of a block, a range, a length extension, a byte offset, a    *)
(* node.                                                                   *)
(*                                                                         *)
(* A hash is the term that was hashed.  A block is a pair of a content and *)
(* its size in bytes.                                                      *)
(***************************************************************************)
EXTENDS FlatTree, FiniteSets, SequencesExt, TLC

CONSTANTS
    Blocks,         \* the blocks appended: <<content, size>>
    Others,         \* the logs of the trees reorg follows and proofs come from
    None,
    MaxLen,         \* bound on the length
    MaxMissing,     \* bound on the nodes missing at a time
    MaxRepair       \* bound on the length of a tree that loses nodes

ASSUME OthersAssumption == \A s \in Others : s \in Seq(Blocks) /\ Len(s) <= MaxLen

VARIABLES
    nodes, length,
    blocks          \* history: the log the tree is of

vars == <<nodes, length, blocks>>

Node(i, hash, size) == [index |-> i, hash |-> hash, size |-> size]
Leaf(k, b) == Node(2 * k, <<"leaf", b>>, b[2])

\* parent_hash binds the hashes and the sizes of the two children.
Combine(a, b) ==
    LET l == IF a.index < b.index THEN a ELSE b
        r == IF a.index < b.index THEN b ELSE a
    IN Node(Parent(a.index), <<"parent", l.hash, l.size, r.hash, r.size>>, l.size + r.size)
TreeHash(roots) == <<"tree", roots>>

-----------------------------------------------------------------------------
\* append climbs while there is a left sibling.
RECURSIVE RollUp(_, _)
RollUp(ns, cur) ==
    IF Sibling(cur) > cur \/ Sibling(cur) \notin DOMAIN ns THEN ns
    ELSE RollUp((Parent(cur) :> Combine(ns[Sibling(cur)], ns[cur])) @@ ns, Parent(cur))
Appended(ns, n, b) == RollUp((2 * n :> Leaf(n, b)) @@ ns, 2 * n)

\* The nodes of a tree that got the blocks of s one by one.
RECURSIVE Built(_)
Built(s) == IF s = <<>> THEN <<>> ELSE Appended(Built(Front(s)), Len(s) - 1, Last(s))

\* The tree of every log.
TreeOf == [s \in BoundedSeq(Blocks, MaxLen) |-> Built(s)]

\* Mutant: every node that starts in the prefix stays.
CutStarting(ns, n) == [i \in {j \in DOMAIN ns : First(j) < n} |-> ns[i]]

\* truncate keeps the nodes that lie in the prefix.
Cut(ns, n) == [i \in {j \in DOMAIN ns : End(j) <= n} |-> ns[i]]

\* prefix_roots, roots and try_roots: None when one is missing.
PrefixRoots(ns, n) ==
    IF Range(FullRoots(n)) \subseteq DOMAIN ns
    THEN [k \in 1 .. Len(FullRoots(n)) |-> ns[FullRoots(n)[k]]] ELSE None
PrefixRootHash(ns, n) == TreeHash(PrefixRoots(ns, n))

\* Two trees agree on their first a blocks.
Agree(ms, ns, a) == \/ a = 0
                    \/ /\ PrefixRoots(ms, a) # None /\ PrefixRoots(ns, a) # None
                       /\ PrefixRootHash(ms, a) = PrefixRootHash(ns, a)

\* lowest_common_ancestor: a binary search.
RECURSIVE Search(_, _, _, _)
Search(ms, ns, lo, hi) ==
    LET mid == (lo + hi + 1) \div 2
    IN IF lo >= hi THEN lo
       ELSE IF Agree(ms, ns, mid) THEN Search(ms, ns, mid, hi)
       ELSE Search(ms, ns, lo, mid - 1)
LowestCommonAncestor(ms, m, ns, n) == Search(ms, ns, 0, IF m < n THEN m ELSE n)

\* missing_nodes
MissingNodes(ns, n) == {i \in 0 .. 2 * n - 1 : End(i) <= n /\ i \notin DOMAIN ns}

-----------------------------------------------------------------------------
\* The siblings from a node up to its root.
RECURSIVE Path(_, _, _)
Path(ns, roots, cur) == IF cur \in roots THEN <<>>
                        ELSE <<ns[Sibling(cur)]>> \o Path(ns, roots, Parent(cur))
Indexes(roots) == {roots[k].index : k \in 1 .. Len(roots)}

\* The climb every verification makes.
RECURSIVE Climb(_, _)
Climb(node, siblings) ==
    IF siblings = <<>> THEN node
    ELSE IF Head(siblings).index # Sibling(node.index) THEN None
    ELSE Climb(Combine(Head(siblings), node), Tail(siblings))

\* Mutant: the copies of the roots in the proof are trusted.
SubstitutedNone(roots, tops) == IF {t.index : t \in tops} \subseteq Indexes(roots) THEN roots ELSE None

\* The roots of a proof with the recomputed ones in their place.
Substituted(roots, tops) ==
    IF {t.index : t \in tops} \subseteq Indexes(roots)
    THEN [k \in 1 .. Len(roots) |->
             IF \E t \in tops : t.index = roots[k].index
             THEN CHOOSE t \in tops : t.index = roots[k].index ELSE roots[k]]
    ELSE None

\* Whether a node reaches the expected root hash over its siblings and the given roots.
Reaches(node, siblings, roots, expected) ==
    LET top == Climb(node, siblings)
    IN /\ top # None /\ Substituted(roots, {top}) # None
       /\ TreeHash(Substituted(roots, {top})) = expected

\* node_proof; proof is that of a leaf, with the size in place of the node.
NodeProof(ns, n, i) ==
    LET roots == PrefixRoots(ns, n)
    IN [node |-> ns[i], siblings |-> Path(ns, Indexes(roots), i), roots |-> roots]

\* Mutant: only the roots are checked.
VerifyNodeRoots(p, expected) == TreeHash(p.roots) = expected

VerifyNode(p, expected) == Reaches(p.node, p.siblings, p.roots, expected)

\* Proof::verify: the leaf is made from the data.
Verify(p, data, expected) ==
    data[2] = p.node.size /\ Reaches(Leaf(p.node.index \div 2, data), p.siblings, p.roots, expected)
-----------------------------------------------------------------------------
\* The node the climb of a range takes next: depth by depth, from the left.
NextUp(active, roots) ==
    CHOOSE c \in active \ roots :
        \A o \in active \ roots : \/ Depth(c) < Depth(o)
                                  \/ Depth(c) = Depth(o) /\ c <= o

\* The nodes range_proof supplies: the siblings that are not in the range or above it.
RECURSIVE Boundary(_, _)
Boundary(active, roots) ==
    LET c == NextUp(active, roots)
    IN IF active \subseteq roots THEN {}
       ELSE (IF Sibling(c) \in active THEN {} ELSE {Sibling(c)})
            \cup Boundary((active \ {c, Sibling(c)}) \cup {Parent(c)}, roots)

\* The climb of RangeProof::verify from the recomputed leaves.
RECURSIVE RangeClimb(_, _, _)
RangeClimb(have, given, roots) ==
    LET c == NextUp(DOMAIN have, roots)
        sib == IF Sibling(c) \in DOMAIN have THEN have[Sibling(c)] ELSE given[Sibling(c)]
        rest == [i \in DOMAIN have \ {c, Sibling(c)} |-> have[i]]
    IN IF DOMAIN have \subseteq roots THEN have
       ELSE IF Sibling(c) \notin DOMAIN have \cup DOMAIN given THEN None
       ELSE RangeClimb((Parent(c) :> Combine(have[c], sib)) @@ rest, given, roots)

\* range_proof of the blocks start .. end - 1, and its verification for the given data.
RangeProof(ns, n, start, end) ==
    LET roots == PrefixRoots(ns, n)
        off == Boundary({2 * k : k \in start .. end - 1}, Indexes(roots))
    IN [start |-> start, given |-> [i \in off |-> ns[i]], roots |-> roots,
        sizes |-> [k \in 1 .. end - start |-> ns[2 * (start + k - 1)].size]]

VerifyRange(p, data, expected) ==
    LET leaves == [i \in {2 * (p.start + k - 1) : k \in 1 .. Len(data)} |->
                      Leaf(i \div 2, data[i \div 2 - p.start + 1])]
        tops == RangeClimb(leaves, p.given, Indexes(p.roots))
    IN /\ data # <<>> /\ Len(data) = Len(p.sizes)
       /\ \A k \in 1 .. Len(data) : data[k][2] = p.sizes[k]
       /\ tops # None
       /\ TreeHash(Substituted(p.roots, Range(tops))) = expected

\* collect_upgrade: the largest subtrees of new blocks.
RECURSIVE Collect(_, _)
Collect(i, old) == IF End(i) <= old THEN {}
                   ELSE IF First(i) >= old THEN {i}
                   ELSE Collect(LeftChild(i), old) \cup Collect(RightChild(i), old)

UpgradeProof(ns, old, new) ==
    LET fresh == UNION {Collect(r, old) : r \in Range(FullRoots(new))}
    IN [old |-> old, new |-> new, given |-> [i \in fresh |-> ns[i]]]

\* Siblings are combined until nothing changes.
RECURSIVE Folded(_)
Folded(known) ==
    LET lefts == {c \in DOMAIN known : /\ c < Sibling(c) /\ Sibling(c) \in DOMAIN known
                                      /\ Parent(c) \notin DOMAIN known}
        above == {Combine(known[c], known[Sibling(c)]) : c \in lefts}
    IN IF lefts = {} THEN known
       ELSE Folded([i \in {a.index : a \in above} |-> CHOOSE a \in above : a.index = i] @@ known)

\* UpgradeProof::verify from the verifier's own roots.
VerifyUpgrade(p, oldRoots, expected) ==
    LET old == [i \in Indexes(oldRoots) |-> CHOOSE r \in Range(oldRoots) : r.index = i]
        roots == PrefixRoots(Folded(p.given @@ old), p.new)
    IN /\ p.old \in 1 .. p.new - 1
       /\ Indexes(oldRoots) = Range(FullRoots(p.old))
       /\ \A i \in DOMAIN p.given : First(i) >= p.old /\ End(i) <= p.new
       /\ roots # None /\ TreeHash(roots) = expected
-----------------------------------------------------------------------------
\* Mutant: the last byte of a block counts as the first one of the next.
RECURSIVE DescendEarly(_, _, _)
DescendEarly(ns, i, bytes) ==
    LET left == ns[LeftChild(i)].size
    IN IF i % 2 = 0 THEN <<i \div 2, bytes>>
       ELSE IF left > bytes + 1 THEN DescendEarly(ns, LeftChild(i), bytes)
       ELSE DescendEarly(ns, RightChild(i), bytes - left)

\* seek_descend
RECURSIVE Descend(_, _, _)
Descend(ns, i, bytes) ==
    LET left == ns[LeftChild(i)].size
    IN IF i % 2 = 0 THEN <<i \div 2, bytes>>
       ELSE IF left > bytes THEN Descend(ns, LeftChild(i), bytes)
       ELSE Descend(ns, RightChild(i), bytes - left)

\* seek: past the end it gives the length.
RECURSIVE SeekIn(_, _, _, _)
SeekIn(ns, n, roots, bytes) ==
    IF roots = <<>> THEN <<n, bytes>>
    ELSE IF Head(roots).size > bytes THEN Descend(ns, Head(roots).index, bytes)
    ELSE SeekIn(ns, n, Tail(roots), bytes - Head(roots).size)
Seek(ns, n, bytes) == SeekIn(ns, n, PrefixRoots(ns, n), bytes)

SizeOf(some) == MapThenSumSet(LAMBDA x : x.size, some)

\* SeekProof::verify: what is left of the block is read off the siblings and the roots.
VerifySeek(p, bytes, expected) ==
    LET top == Climb(p.node, p.siblings)
        before == SizeOf({s \in Range(p.siblings) : s.index < p.node.index})
                  + SizeOf({r \in Range(p.roots) : r.index < top.index})
    IN IF /\ p.node.index % 2 = 0 /\ Reaches(p.node, p.siblings, p.roots, expected)
          /\ bytes >= before /\ bytes - before < p.node.size
       THEN <<p.node.index \div 2, bytes - before>> ELSE None
-----------------------------------------------------------------------------
Init == nodes = <<>> /\ length = 0 /\ blocks = <<>>

\* try_append: a tree with missing nodes is not extended.
TryAppend(b) ==
    /\ MissingNodes(nodes, length) = {} /\ length < MaxLen
    /\ nodes' = Appended(nodes, length, b)
    /\ length' = length + 1 /\ blocks' = Append(blocks, b)

Truncate(n) ==
    /\ n < length
    /\ nodes' = Cut(nodes, n)
    /\ length' = n /\ blocks' = SubSeq(blocks, 1, n)

\* reorg onto the tree of the log s.
Reorg(s) ==
    /\ LET other == TreeOf[s]
       IN nodes' = other @@ Cut(nodes, LowestCommonAncestor(nodes, length, other, Len(s)))
    /\ length' = Len(s) /\ blocks' = s

RemoveNode(i) ==
    /\ i \in DOMAIN nodes /\ length <= MaxRepair
    /\ Cardinality(MissingNodes(nodes, length)) < MaxMissing
    /\ nodes' = [j \in DOMAIN nodes \ {i} |-> nodes[j]]
    /\ UNCHANGED <<length, blocks>>

\* The root hash of the signed head.
Signed == PrefixRootHash(TreeOf[blocks], Len(blocks))

\* What a holder of the tree of s answers; its own node i may be that of the log t.
Answer(i, s, t) == NodeProof((i :> TreeOf[t][i]) @@ TreeOf[s], Len(s), i)

\* recover_node of a node the caller found in missing_nodes.
RecoverNode(i, s, t) ==
    /\ i \in DOMAIN TreeOf[s] \cap DOMAIN TreeOf[t]
    /\ LET p == Answer(i, s, t)
       IN nodes' = IF VerifyNode(p, Signed) THEN (i :> p.node) @@ nodes ELSE nodes
    /\ UNCHANGED <<length, blocks>>

Next == \/ \E b \in Blocks : TryAppend(b)
        \/ \E n \in 0 .. MaxLen : Truncate(n)
        \/ \E s \in Others : Reorg(s)
        \/ \E i \in 0 .. 2 * MaxLen : RemoveNode(i)
        \/ \E i \in MissingNodes(nodes, length), t \in Others \cup {blocks} :
               RecoverNode(i, t, t) \/ RecoverNode(i, blocks, t)

Spec == Init /\ [][Next]_vars
-----------------------------------------------------------------------------
Intact == MissingNodes(nodes, length) = {}
Hash == PrefixRootHash(nodes, length)

\* The node over the blocks of i, by its definition.
RECURSIVE SubTree(_, _)
SubTree(s, i) == IF i % 2 = 0 THEN Leaf(i \div 2, s[i \div 2 + 1])
                 ELSE Combine(SubTree(s, LeftChild(i)), SubTree(s, RightChild(i)))

\* After any appends, truncations, reorgs, losses and recoveries, also in repair mode, the
\* tree stores only nodes of its present log: a kept node never covers a block that is
\* gone, and no proof made from another log gets a node in.
NodesGenuine == \A i \in DOMAIN nodes : End(i) <= length /\ nodes[i] = SubTree(blocks, i)

\* Data of every content and size.
Data == {<<b[1], d[2]>> : b, d \in Blocks}

BlocksProved ==
    \A k \in 0 .. length - 1, b \in Data :
        Verify(NodeProof(nodes, length, 2 * k), b, Hash) <=> b = blocks[k + 1]

RangesProved ==
    \A start, end \in 0 .. length : start < end =>
        LET p == RangeProof(nodes, length, start, end)
            data == SubSeq(blocks, start + 1, end)
        IN \A k \in 1 .. Len(data), b \in Data :
               VerifyRange(p, [data EXCEPT ![k] = b], Hash) <=> b = data[k]

UpgradesProved ==
    \A new \in 1 .. length : \A old \in 1 .. new - 1 :
        \A t \in {u \in Others \cup {blocks} : Len(u) >= old} :
            VerifyUpgrade(UpgradeProof(nodes, old, new), PrefixRoots(TreeOf[t], old),
                          PrefixRootHash(nodes, new))
            <=> SubSeq(t, 1, old) = SubSeq(blocks, 1, old)

\* Every proof a whole tree makes verifies for the truth and for nothing else: the proof of a
\* block or of a range for its blocks and for none of them replaced; the proof that a head
\* extends another for a verifier whose log is a prefix of it and for no other one
\* (proof, range_proof, upgrade_proof against the verify of each).
ProofsSound == Intact => BlocksProved /\ RangesProved /\ UpgradesProved

\* The descent finds the block a scan over all sizes finds, blocks of size 0 included, and
\* the proof of it verifies to the same place.
Bytes(n) == SizeOf({nodes[2 * k] : k \in 0 .. n - 1})
SeekAgrees ==
    Intact => \A bytes \in 0 .. Bytes(length) :
        LET found == Seek(nodes, length, bytes)
            k == found[1]
        IN IF bytes = Bytes(length) THEN found = <<length, 0>>
           ELSE /\ bytes = Bytes(k) + found[2] /\ bytes < Bytes(k + 1)
                /\ VerifySeek(NodeProof(nodes, length, 2 * k), bytes, Hash) = found

\* A lost node can be recovered from every holder of the log, and neither from the tree of
\* another log nor from a holder whose own node is wrong.
NodesRecoverable ==
    \A i \in MissingNodes(nodes, length), t \in Others \cup {blocks} : i \in DOMAIN TreeOf[t] =>
        /\ VerifyNode(Answer(i, t, t), Signed) <=> t = blocks
        /\ VerifyNode(Answer(i, blocks, t), Signed) <=> TreeOf[t][i] = SubTree(blocks, i)
=============================================================================
