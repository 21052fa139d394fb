------------------------------ MODULE Hyperbee ------------------------------
(***************************************************************************)
(* The copy-on-write B-tree of crates/hyperbee (btree.rs) over the blocks  *)
(* of one Hypercore.  A block is a node, a child pointer is the position   *)
(* of a block, and the last block is the root: put and del rewrite the     *)
(* path they touch, the root last.                                         *)
(*                                                                         *)
(* Keys are byte strings, sequences over 0 .. MaxByte, in bytewise order.  *)
(* Positions count from 1.  Every operation on the tree is an operator on  *)
(* the log it reads, the staged blocks of an open batch included, and      *)
(* gives the log with what it appended.                                    *)
(***************************************************************************)
EXTENDS Integers, Sequences, FiniteSets, SequencesExt

CONSTANTS
    Keys, Values, None,
    MaxByte,        \* the largest byte, 0xff in the code
    MaxChildren,    \* MAX_CHILDREN: a node splits once it would hold as many keys
    Starts,         \* sequences of keys; the tree starts with one of them put in order
    Subs,           \* the prefixes of the sub-databases read
    Bounds,         \* the bounds of the ranges read
    MaxOps          \* bound on the operations after the start

ASSUME KeysAssumption == Keys \subseteq Seq(0 .. MaxByte) /\ None \notin Values
ASSUME StartsAssumption == Starts \subseteq Seq(Keys)
ASSUME MaxChildrenAssumption == MaxChildren \in Nat /\ MaxChildren >= 3

VARIABLES
    core,       \* the blocks of the Hypercore
    pending,    \* the staged blocks of the open batch, None without one
    content,    \* history: the map the operations made, those of the open batch included
    versions,   \* history: every version an operation ended at, and the map it had then
    changes,    \* history: every change an operation made, in order
    torn,       \* history: an operation failed between two of its appends
    reshaped,   \* history: a delete borrowed from a sibling, merged, or dropped a level
    ops

vars == <<core, pending, content, versions, changes, torn, reshaped, ops>>

MinKeys == (MaxChildren - 1) \div 2
Leaf(node) == node.children = <<>>

\* Bytewise order.
Less(s, t) ==
    \E n \in 0 .. Len(s) : /\ n < Len(t) /\ SubSeq(s, 1, n) = SubSeq(t, 1, n)
                           /\ n = Len(s) \/ s[n + 1] < t[n + 1]

\* binary_search_by: whether the key is in the node, and where it is or belongs.
Has(node, k) == \E i \in DOMAIN node.entries : node.entries[i][1] = k
Slot(node, k) == 1 + Cardinality({i \in DOMAIN node.entries : Less(node.entries[i][1], k)})
-----------------------------------------------------------------------------
\* Ins: the log, whose last block is the rewritten node, or whose last two are its halves.
Down(log) == [log |-> log, split |-> FALSE]

\* finish: the median of a full node moves up.
Finish(log, node) ==
    LET mid == Len(node.entries) \div 2
        Half(a, b) == [entries |-> SubSeq(node.entries, a, b),
                       children |-> IF Leaf(node) THEN <<>> ELSE SubSeq(node.children, a, b + 1)]
    IN IF Len(node.entries) < MaxChildren THEN Down(Append(log, node))
       ELSE [split |-> TRUE, median |-> node.entries[mid + 1],
             log |-> log \o << Half(1, mid), Half(mid + 2, Len(node.entries)) >>]

RECURSIVE Insert(_, _, _, _)
Insert(log, seq, k, v) ==
    LET node == log[seq]
        i == Slot(node, k)
        below == Insert(log, node.children[i], k, v)
        last == Len(below.log)
    IN CASE Has(node, k) -> Down(Append(log, [node EXCEPT !.entries[i] = <<k, v>>]))
         [] ~Has(node, k) /\ Leaf(node) ->
              Finish(log, [node EXCEPT !.entries = InsertAt(@, i, <<k, v>>)])
         [] OTHER ->
              IF below.split
              THEN Finish(below.log, [entries |-> InsertAt(node.entries, i, below.median),
                                      children |-> InsertAt([node.children EXCEPT ![i] = last - 1],
                                                            i + 1, last)])
              ELSE Down(Append(below.log, [node EXCEPT !.children[i] = last]))

\* Mutant: a key in the root is overwritten in place.
PutInPlace(log, k, v) ==
    LET done == Insert(log, Len(log), k, v)
        last == Len(done.log)
    IN IF log = <<>> THEN << [entries |-> << <<k, v>> >>, children |-> <<>>] >>
       ELSE IF Has(Last(log), k)
       THEN [log EXCEPT ![Len(log)].entries[Slot(Last(log), k)] = <<k, v>>]
       ELSE IF done.split
       THEN Append(done.log, [entries |-> <<done.median>>, children |-> <<last - 1, last>>])
       ELSE done.log

\* put
Put(log, k, v) ==
    LET done == Insert(log, Len(log), k, v)
        last == Len(done.log)
    IN IF log = <<>> THEN << [entries |-> << <<k, v>> >>, children |-> <<>>] >>
       ELSE IF done.split
       THEN Append(done.log, [entries |-> <<done.median>>, children |-> <<last - 1, last>>])
       ELSE done.log
-----------------------------------------------------------------------------
\* rebalance: the underfull child i borrows from a sibling, the left one first, or is merged.
BorrowLeft(log, node, i) ==
    LET left == log[node.children[i - 1]]
        child == log[node.children[i]]
        moved == IF Leaf(left) THEN <<>> ELSE <<Last(left.children)>>
    IN [log |-> log \o << [entries |-> Front(left.entries),
                           children |-> IF Leaf(left) THEN <<>> ELSE Front(left.children)],
                          [entries |-> <<node.entries[i - 1]>> \o child.entries,
                           children |-> moved \o child.children] >>,
        node |-> [entries |-> [node.entries EXCEPT ![i - 1] = Last(left.entries)],
                  children |-> [node.children EXCEPT ![i - 1] = Len(log) + 1,
                                                     ![i] = Len(log) + 2]]]

\* Mutant: the separator stays in the parent, and the sibling's key replaces it nowhere.
BorrowRightKeepsSeparator(log, node, i) ==
    LET right == log[node.children[i + 1]]
        child == log[node.children[i]]
        moved == IF Leaf(right) THEN <<>> ELSE <<Head(right.children)>>
    IN [log |-> log \o << [entries |-> Append(child.entries, Head(right.entries)),
                           children |-> child.children \o moved],
                          [entries |-> Tail(right.entries),
                           children |-> IF Leaf(right) THEN <<>> ELSE Tail(right.children)] >>,
        node |-> [node EXCEPT !.children = [@ EXCEPT ![i] = Len(log) + 1, ![i + 1] = Len(log) + 2]]]

BorrowRight(log, node, i) ==
    LET right == log[node.children[i + 1]]
        child == log[node.children[i]]
        moved == IF Leaf(right) THEN <<>> ELSE <<Head(right.children)>>
    IN [log |-> log \o << [entries |-> Append(child.entries, node.entries[i]),
                           children |-> child.children \o moved],
                          [entries |-> Tail(right.entries),
                           children |-> IF Leaf(right) THEN <<>> ELSE Tail(right.children)] >>,
        node |-> [entries |-> [node.entries EXCEPT ![i] = Head(right.entries)],
                  children |-> [node.children EXCEPT ![i] = Len(log) + 1,
                                                     ![i + 1] = Len(log) + 2]]]

\* Nodes li and li + 1 become one, with their separator.
Merge(log, node, li) ==
    LET left == log[node.children[li]]
        right == log[node.children[li + 1]]
    IN [log |-> Append(log, [entries |-> Append(left.entries, node.entries[li]) \o right.entries,
                             children |-> left.children \o right.children]),
        node |-> [entries |-> RemoveAt(node.entries, li),
                  children |-> [RemoveAt(node.children, li + 1) EXCEPT ![li] = Len(log) + 1]]]

Spare(log, node, i) == i \in DOMAIN node.children /\ Len(log[node.children[i]].entries) > MinKeys
Rebalance(log, node, i) ==
    CASE Spare(log, node, i - 1) -> BorrowLeft(log, node, i)
      [] ~Spare(log, node, i - 1) /\ Spare(log, node, i + 1) -> BorrowRight(log, node, i)
      [] OTHER -> Merge(log, node, IF i > 1 THEN i - 1 ELSE i)

\* Mutant: the node that is appended counts as full enough.
FixChildOnce(log, node, i, under) ==
    LET fixed == IF under THEN Rebalance(log, node, i) ELSE [log |-> log, node |-> node]
    IN [found |-> TRUE, log |-> Append(fixed.log, fixed.node), under |-> FALSE]

\* Del: the log, whose last block is the rewritten node, and whether that is underfull.
FixChild(log, node, i, under) ==
    LET fixed == IF under THEN Rebalance(log, node, i) ELSE [log |-> log, node |-> node]
    IN [found |-> TRUE, log |-> Append(fixed.log, fixed.node),
        under |-> Len(fixed.node.entries) < MinKeys]

\* delete_min and delete_max: the entry taken, and the rewritten subtree.
RECURSIVE DeleteEnd(_, _, _)
DeleteEnd(log, seq, least) ==
    LET node == log[seq]
        i == IF least THEN 1 ELSE Len(node.children)
        below == DeleteEnd(log, node.children[i], least)
        fixed == FixChild(below.log, [node EXCEPT !.children[i] = Len(below.log)], i, below.under)
        e == IF least THEN 1 ELSE Len(node.entries)
    IN IF Leaf(node)
       THEN [entry |-> node.entries[e]]
            @@ FixChild(log, [node EXCEPT !.entries = RemoveAt(@, e)], 1, FALSE)
       ELSE [entry |-> below.entry] @@ fixed

RECURSIVE BoundaryLeafLen(_, _, _)
BoundaryLeafLen(log, seq, leftmost) ==
    LET node == log[seq]
    IN IF Leaf(node) THEN Len(node.entries)
       ELSE BoundaryLeafLen(log, IF leftmost THEN Head(node.children) ELSE Last(node.children),
                            leftmost)

NotFound(log) == [found |-> FALSE, log |-> log, under |-> FALSE]

\* delete of the separator i of an internal node: a neighbour from a boundary leaf replaces it.
DeleteSeparator(log, node, i) ==
    LET fewer == BoundaryLeafLen(log, node.children[i], FALSE)
                    < BoundaryLeafLen(log, node.children[i + 1], TRUE)
        c == IF fewer THEN i + 1 ELSE i
        taken == DeleteEnd(log, node.children[c], fewer)
    IN FixChild(taken.log, [entries |-> [node.entries EXCEPT ![i] = taken.entry],
                            children |-> [node.children EXCEPT ![c] = Len(taken.log)]],
                c, taken.under)

RECURSIVE Delete(_, _, _)
Delete(log, seq, k) ==
    LET node == log[seq]
        i == Slot(node, k)
        below == Delete(log, node.children[i], k)
    IN CASE Has(node, k) /\ Leaf(node) ->
              FixChild(log, [node EXCEPT !.entries = RemoveAt(@, i)], 1, FALSE)
         [] Has(node, k) /\ ~Leaf(node) -> DeleteSeparator(log, node, i)
         [] ~Has(node, k) /\ Leaf(node) -> NotFound(log)
         [] OTHER ->
              IF below.found
              THEN FixChild(below.log, [node EXCEPT !.children[i] = Len(below.log)], i, below.under)
              ELSE NotFound(log)

\* del: the tree loses a level when its root is left without a key.
Emptied(node) == node.entries = <<>> /\ ~Leaf(node)
Del(log, k) ==
    LET done == IF log = <<>> THEN NotFound(log) ELSE Delete(log, Len(log), k)
        root == Last(done.log)
    IN IF done.found /\ Emptied(root)
       THEN Append(done.log, done.log[root.children[1]]) ELSE done.log
-----------------------------------------------------------------------------
\* get_from
RECURSIVE GetFrom(_, _, _)
GetFrom(log, seq, k) ==
    LET node == log[seq]
    IN CASE Has(node, k) -> node.entries[Slot(node, k)][2]
         [] ~Has(node, k) /\ Leaf(node) -> None
         [] OTHER -> GetFrom(log, node.children[Slot(node, k)], k)

\* get, get_at and Checkout::get: a version is the position of its root, 0 the empty tree.
Get(log, version, k) == IF version = 0 THEN None ELSE GetFrom(log, version, k)

\* collect: in-order traversal.
RECURSIVE Collect(_, _)
Collect(log, seq) ==
    LET node == log[seq]
    IN IF Leaf(node) THEN node.entries
       ELSE FlattenSeq([i \in DOMAIN node.entries |->
                           Append(Collect(log, node.children[i]), node.entries[i])])
            \o Collect(log, Last(node.children))

InBounds(b, k) == /\ b.gt # None => Less(b.gt, k)
                  /\ b.gte # None => ~Less(k, b.gte)
                  /\ b.lt # None => Less(k, b.lt)
                  /\ b.lte # None => ~Less(b.lte, k)
Limited(b, s) == IF b.limit # None /\ b.limit < Len(s) THEN SubSeq(s, 1, b.limit) ELSE s

\* range_from, of range, range_at, peek and Checkout::range
RangeFrom(log, version, b) ==
    LET all == IF version = 0 THEN <<>> ELSE Collect(log, version)
        kept == SelectSeq(all, LAMBDA e : InBounds(b, e[1]))
    IN Limited(b, IF b.reverse THEN Reverse(kept) ELSE kept)

ChildSlot(b, n, slot) == IF b.reverse THEN n - slot \div 2 ELSE slot \div 2

\* RangeIter: what next gives from a stack of nodes and their next slots on.
RECURSIVE Iterate(_, _, _, _)
Iterate(log, stack, b, remaining) ==
    LET node == log[Last(stack)[1]]
        slot == Last(stack)[2]
        n == Len(node.entries)
        nth == IF Leaf(node) THEN slot ELSE slot \div 2
        entry == node.entries[IF b.reverse THEN n - nth ELSE nth + 1]
        over == IF Leaf(node) THEN slot >= n ELSE slot > 2 * n
        on == [stack EXCEPT ![Len(stack)][2] = slot + 1]
    IN CASE remaining = 0 \/ stack = <<>> -> <<>>
         [] remaining # 0 /\ stack # <<>> /\ over -> Iterate(log, Front(stack), b, remaining)
         [] remaining # 0 /\ stack # <<>> /\ ~over /\ ~Leaf(node) /\ slot % 2 = 0 ->
              Iterate(log, Append(on, <<node.children[ChildSlot(b, n, slot) + 1], 0>>), b, remaining)
         [] OTHER ->
              IF InBounds(b, entry[1])
              THEN <<entry>> \o Iterate(log, on, b,
                                        IF remaining = None THEN None ELSE remaining - 1)
              ELSE Iterate(log, on, b, remaining)
Iter(log, version, b) == Iterate(log, IF version = 0 THEN <<>> ELSE << <<version, 0>> >>, b, b.limit)

\* prefix_successor
RECURSIVE PrefixSuccessor(_)
PrefixSuccessor(p) == CASE p = <<>> -> None
                        [] p # <<>> /\ Last(p) < MaxByte -> [p EXCEPT ![Len(p)] = @ + 1]
                        [] OTHER -> PrefixSuccessor(Front(p))

\* Sub::range: the bounds it hands to the tree, and the keys without their prefix.
SubBounds(p, b) ==
    LET Pre(k) == IF k = None THEN None ELSE p \o k
    IN [b EXCEPT !.gt = Pre(@), !.lte = Pre(@),
                 !.gte = IF b.gt = None /\ b.gte = None THEN p ELSE Pre(@),
                 !.lt = IF b.lt = None /\ b.lte = None THEN PrefixSuccessor(p) ELSE Pre(@)]
Strip(p, k) == SubSeq(k, Len(p) + 1, Len(k))
SubRange(log, p, b) ==
    LET found == RangeFrom(log, Len(log), SubBounds(p, b))
    IN [i \in DOMAIN found |-> <<Strip(p, found[i][1]), found[i][2]>>]

Unbounded == [gt |-> None, gte |-> None, lt |-> None, lte |-> None, reverse |-> FALSE, limit |-> None]

\* diff: a merge of two sorted listings.
RECURSIVE Merged(_, _)
Merged(a, b) ==
    CASE a = <<>> /\ b = <<>> -> <<>>
      [] a # <<>> /\ (b = <<>> \/ Less(a[1][1], b[1][1])) ->
           << <<a[1][1], a[1][2], None>> >> \o Merged(Tail(a), b)
      [] b # <<>> /\ (a = <<>> \/ Less(b[1][1], a[1][1])) ->
           << <<b[1][1], None, b[1][2]>> >> \o Merged(a, Tail(b))
      [] OTHER -> (IF a[1][2] = b[1][2] THEN <<>> ELSE << <<a[1][1], a[1][2], b[1][2]>> >>)
                  \o Merged(Tail(a), Tail(b))
Diff(log, old, new) == Merged(RangeFrom(log, old, Unbounded), RangeFrom(log, new, Unbounded))

\* Mutant: every block counts as the end of an operation.
OpRootsAll(log) == [s \in DOMAIN log |-> s]

\* history: the differences between consecutive blocks that no block refers to.
OpRoots(log) == LET referenced == UNION {ToSet(log[s].children) : s \in DOMAIN log}
                IN SelectSeq([s \in DOMAIN log |-> s], LAMBDA s : s \notin referenced)
History(log) ==
    LET roots == <<0>> \o OpRoots(log)
        Told(i) == LET d == Diff(log, roots[i], roots[i + 1])
                   IN [j \in DOMAIN d |-> <<d[j][1], d[j][3]>>]
    IN FlattenSeq([i \in 1 .. Len(roots) - 1 |-> Told(i)])
-----------------------------------------------------------------------------
NoContent == [k \in Keys |-> None]
AnyValue == CHOOSE v \in Values : TRUE

Init ==
    /\ \E keys \in Starts :
         /\ core = FoldLeft(LAMBDA log, k : Put(log, k, AnyValue), <<>>, keys)
         /\ content = [k \in Keys |-> IF k \in ToSet(keys) THEN AnyValue ELSE None]
         /\ changes = [i \in DOMAIN keys |-> <<keys[i], AnyValue>>]
    /\ versions = {[at |-> 0, content |-> NoContent], [at |-> Len(core), content |-> content]}
    /\ pending = None /\ torn = FALSE /\ reshaped = FALSE /\ ops = 0

\* What the tree reads and extends: the staged blocks of a batch are the latest.
View == IF pending = None THEN core ELSE core \o pending.staged

Step == ops < MaxOps /\ ops' = ops + 1
Version(log, map) == IF torn THEN versions ELSE versions \cup {[at |-> Len(log), content |-> map]}

\* append_node: the blocks of an operation go to the open batch, or to the core.
AppendNodes(log) ==
    IF pending = None
    THEN core' = log /\ versions' = Version(log, content') /\ UNCHANGED pending
    ELSE /\ pending' = [pending EXCEPT !.staged = SubSeq(log, Len(core) + 1, Len(log))]
         /\ UNCHANGED <<core, versions>>
Note(k, v) ==
    /\ content' = [content EXCEPT ![k] = v]
    /\ changes' = IF content[k] = v THEN changes ELSE Append(changes, <<k, v>>)

PutKey(k, v) == /\ Step /\ Note(k, v)
                /\ AppendNodes(Put(View, k, v))
                /\ UNCHANGED <<torn, reshaped>>

RECURSIVE Depth(_, _)
Depth(log, seq) == IF Leaf(log[seq]) THEN 1 ELSE 1 + Depth(log, Head(log[seq].children))
Reshapes(log, new) == log # <<>> /\ Len(new) > Len(log) + Depth(log, Len(log))

\* A root left without a key by an operation that failed: a delete that leaves its only
\* child underfull looks for a sibling that is not there, and panics.
Panics(log, k) == /\ log # <<>> /\ Emptied(Last(log))
                  /\ Delete(log, Head(Last(log).children), k).under

DelKey(k) == /\ Step /\ Note(k, None) /\ ~Panics(View, k)
             /\ AppendNodes(Del(View, k))
             /\ reshaped' = (reshaped \/ Reshapes(View, Del(View, k)))
             /\ UNCHANGED torn

\* put_cas and del_cas do nothing unless the value is the expected one.
PutCas(k, v, expected) == Get(View, Len(View), k) = expected /\ PutKey(k, v)
DelCas(k, expected) == Get(View, Len(View), k) = expected /\ DelKey(k)

\* An append in the middle of an operation fails: the blocks before it stay.
Tear(log) ==
    /\ Step /\ pending = None
    /\ \E n \in Len(core) + 1 .. Len(log) - 1 : core' = SubSeq(log, 1, n)
    /\ torn' = TRUE
    /\ UNCHANGED <<pending, content, versions, changes, reshaped>>
PutFails(k, v) == Tear(Put(core, k, v))
DelFails(k) == ~Panics(core, k) /\ Tear(Del(core, k))

\* batch, and the commit or the drop that ends it.
OpenBatch ==
    /\ ops < MaxOps /\ pending = None
    /\ pending' = [staged |-> <<>>, content |-> content, changes |-> changes, reshaped |-> reshaped]
    /\ UNCHANGED <<core, content, versions, changes, torn, reshaped, ops>>
Commit ==
    /\ pending # None
    /\ core' = View /\ versions' = Version(View, content) /\ pending' = None
    /\ UNCHANGED <<content, changes, torn, reshaped, ops>>

\* Dropped, or the commit failed: the core took back what it had written.
Discard ==
    /\ pending # None
    /\ pending' = None /\ content' = pending.content /\ changes' = pending.changes
    /\ reshaped' = pending.reshaped
    /\ UNCHANGED <<core, versions, torn, ops>>

Next == \/ \E k \in Keys, v \in Values : PutKey(k, v) \/ PutFails(k, v)
        \/ \E k \in Keys : DelKey(k) \/ DelFails(k)
        \/ \E k \in Keys, v \in Values, e \in Values \cup {None} : PutCas(k, v, e) \/ DelCas(k, e)
        \/ OpenBatch \/ Commit \/ Discard

Spec == Init /\ [][Next]_vars
-----------------------------------------------------------------------------
\* What every reader should give: the entries of a map whose keys start with p, without p,
\* in key order and within bounds.
InOrder == [i \in 1 .. Cardinality(Keys) |->
               CHOOSE k \in Keys : Cardinality({j \in Keys : Less(j, k)}) = i - 1]
Listing(map, p, b) ==
    LET keys == SelectSeq(InOrder, LAMBDA k : /\ IsPrefix(p, k) /\ map[k] # None
                                              /\ InBounds(b, Strip(p, k)))
        all == [i \in DOMAIN keys |-> <<Strip(p, keys[i]), map[keys[i]]>>]
    IN Limited(b, IF b.reverse THEN Reverse(all) ELSE all)

\* Point reads, ranges, the lazy iterator and sub-databases give the map that the
\* operations made, the staged ones of a batch included, unless an operation failed
\* between its appends: then the last block that was written is taken for the root.
ReadsAgree ==
    ~torn =>
        /\ \A k \in Keys : Get(View, Len(View), k) = content[k]
        /\ \A b \in Bounds :
             /\ RangeFrom(View, Len(View), b) = Listing(content, <<>>, b)
             /\ Iter(View, Len(View), b) = Listing(content, <<>>, b)
             /\ \A p \in Subs : SubRange(View, p, b) = Listing(content, p, b)

\* Every version an operation ended at keeps its map for good, also when later operations
\* fail half way, and diff tells exactly what changed between two of them.
VersionsKept ==
    \A v, w \in versions :
        /\ RangeFrom(core, v.at, Unbounded) = Listing(v.content, <<>>, Unbounded)
        /\ LET changed == SelectSeq(InOrder, LAMBDA k : v.content[k] # w.content[k])
           IN Diff(core, v.at, w.at)
                = [i \in DOMAIN changed |->
                     <<changed[i], v.content[changed[i]], w.content[changed[i]]>>]

\* Splits, borrows and merges keep a B-tree: every leaf at the same depth, every node but
\* the root filled between its bounds, one more child than keys.
RECURSIVE Shaped(_, _)
Shaped(log, seq) ==
    LET node == log[seq]
    IN /\ Len(node.entries) < MaxChildren
       /\ ~Leaf(node) => /\ Len(node.children) = Len(node.entries) + 1
                         /\ \A i \in DOMAIN node.children :
                              /\ Len(log[node.children[i]].entries) >= MinKeys
                              /\ Depth(log, node.children[i]) = Depth(log, Head(node.children))
                              /\ Shaped(log, node.children[i])
TreeShaped == ~torn /\ View # <<>> => Shaped(View, Len(View)) /\ ~Emptied(Last(View))

\* history gives every change, in order, as long as no delete had to reshape the tree.
HistoryTells == ~torn /\ ~reshaped => History(View) = changes

=============================================================================
