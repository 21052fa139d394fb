----------------------------- MODULE Hypercore -----------------------------
(***************************************************************************)
(* The single-writer signed log of crates/hypercore (core.rs) over a Store *)
(* whose operations may fail, with the process crashing and reopening.     *)
(*                                                                         *)
(* Blocks are members of Values.  A Merkle tree is the sequence of blocks  *)
(* it commits to, and its root hash is that same sequence (the hash is     *)
(* collision free), so a prefix's root is the prefix.  A signed head is a  *)
(* pair of a fork and a root; its length is the length of the root.  Block *)
(* index i of the code is position i + 1 here.                             *)
(***************************************************************************)
EXTENDS Integers, Sequences, FiniteSets

CONSTANTS
    Values,     \* encoded block contents
    None,
    Prologues,  \* the prologues a core may be created with (None: no prologue)
    MaxLen,     \* bound on the length of the log
    MaxFork     \* bound on the fork counter

ASSUME ValuesAssumption == None \notin Values
ASSUME ProloguesAssumption == Prologues \subseteq Seq(Values) \cup {None}
ASSUME NoneAssumption == None \notin Seq(Values)
ASSUME NoneIsNoHead == None \notin [fork : Nat, root : Seq(Values)]
ASSUME BoundsAssumption == MaxLen \in Nat /\ MaxFork \in Nat

VARIABLES
    \* in the Store, kept across a crash
    store,      \* block position -> bytes, or None
    dTree,      \* KEY_TREE
    dPresence,  \* KEY_PRESENCE
    dMeta,      \* KEY_META
    \* the Hypercore value
    mode,       \* "up", "down", or "corrupt" when open returned Error::Corrupt
    tree, presence, fork, head, prologue,
    batch,      \* the open Batch, or None
    \* history
    signed,     \* every head resign ever signed
    saved       \* the state the last complete persist wrote, or None

durable == <<store, dTree, dPresence, dMeta>>
logical == <<tree, presence, fork, head, prologue>>
vars == <<durable, mode, logical, batch, signed, saved>>

Positions == 1 .. MaxLen
Logs == {s \in Seq(Values) : Len(s) <= MaxLen}
Heads == [fork : 0 .. MaxFork, root : Logs]
HeadOrNone == Heads \cup {None}
Metas == [fork : 0 .. MaxFork, head : HeadOrNone, prologue : Prologues \cup {None}]
ASSUME NoneIsNoState ==
    /\ None \notin Metas /\ \A S \in SUBSET Positions : S # None
    /\ None \notin [tree : Logs, meta : Metas]

Prefix(s, n) == SubSeq(s, 1, n)

\* s is a prefix of t.
IsPrefixOf(s, t) == Len(s) <= Len(t) /\ \A i \in 1 .. Len(s) : s[i] = t[i]

\* Mutant: the head is signed before the new blocks are folded into the tree.
ResignEarly(t, f) == /\ head' = [fork |-> f, root |-> tree]
                     /\ signed' = signed \cup {[fork |-> f, root |-> tree]}

\* resign: the only place a head is signed.
Resign(t, f) == /\ head' = [fork |-> f, root |-> t]
                /\ signed' = signed \cup {[fork |-> f, root |-> t]}

\* verify_head
VerifyHead(h, f, t) == IF h = None THEN t = <<>> ELSE h.fork = f /\ h.root = t

\* verify_prologue
VerifyPrologue(p, t) == p = None \/ IsPrefixOf(p, t)

\* A Store operation on position i that failed left it at the old or the new value.
FailedWrite(s, i, x) == {s, [s EXCEPT ![i] = x]}

Written(s, from, blocks) ==
    [i \in Positions |-> IF i > from /\ i <= from + Len(blocks) THEN blocks[i - from] ELSE s[i]]
Erased(s, gone) == [i \in Positions |-> IF i \in gone THEN None ELSE s[i]]

-----------------------------------------------------------------------------
\* new and with_prologue: the core a caller starts with, over an empty store.
Fresh(p) == /\ tree = <<>> /\ presence = {} /\ fork = 0 /\ head = None
            /\ prologue = p

Init == /\ store = [i \in Positions |-> None]
        /\ dTree = None /\ dPresence = None /\ dMeta = None
        /\ mode = "up"
        /\ \E p \in Prologues : Fresh(p)
        /\ batch = None
        /\ signed = {}
        /\ saved = None

\* Mutant: off by one, the block replaces the last one.
AppendOverLast(v) ==
    LET index == IF tree = <<>> THEN 1 ELSE Len(tree) IN
    /\ mode = "up"
    /\ store' = [store EXCEPT ![index] = v]
    /\ tree' = Prefix(tree, index - 1) \o <<v>>
    /\ presence' = presence \cup {index}
    /\ Resign(tree', fork)
    /\ UNCHANGED <<dTree, dPresence, dMeta, mode, fork, prologue, batch, saved>>

AppendBlock(v) ==
    /\ mode = "up" /\ Len(tree) < MaxLen
    /\ store' = [store EXCEPT ![Len(tree) + 1] = v]
    /\ tree' = tree \o <<v>>
    /\ presence' = presence \cup {Len(tree) + 1}
    /\ Resign(tree', fork)
    /\ UNCHANGED <<dTree, dPresence, dMeta, mode, fork, prologue, batch, saved>>

\* store.put failed: nothing else happens.
AppendFails(v) ==
    /\ mode = "up" /\ Len(tree) < MaxLen
    /\ store' \in FailedWrite(store, Len(tree) + 1, v)
    /\ UNCHANGED <<dTree, dPresence, dMeta, mode, logical, batch, signed, saved>>

\* Mutant: truncate may rewind below the prologue.
NoFloor(n) == n >= 0

\* truncate refuses to rewind into the committed prefix.
TruncateFloor(n) == prologue # None => n >= Len(prologue)

\* Mutant: the presence bits of the discarded tail stay set.
KeptPresence(n) == presence

RewoundPresence(n) == {i \in presence : i <= n}

NextFork == fork + 1

\* Mutant: truncating to the present length is not a no-op.
TruncateNothing(n) ==
    /\ mode = "up" /\ fork < MaxFork
    /\ TruncateFloor(n)
    /\ n <= Len(tree)
    /\ tree' = Prefix(tree, n)
    /\ presence' = RewoundPresence(n)
    /\ fork' = NextFork
    /\ Resign(tree', fork')
    /\ UNCHANGED <<durable, mode, prologue, batch, saved>>

\* Rewinds tree and presence in memory; the bytes stay in the store.
Truncate(n) ==
    /\ mode = "up" /\ fork < MaxFork
    /\ TruncateFloor(n)
    /\ n < Len(tree)
    /\ tree' = Prefix(tree, n)
    /\ presence' = RewoundPresence(n)
    /\ fork' = NextFork
    /\ Resign(tree', fork')
    /\ UNCHANGED <<durable, mode, prologue, batch, saved>>

\* batch: remembers the length only.
OpenBatch ==
    /\ mode = "up" /\ batch = None
    /\ batch' = [base |-> Len(tree), encoded |-> <<>>]
    /\ UNCHANGED <<durable, mode, logical, signed, saved>>

Stage(v) ==
    /\ mode = "up" /\ batch # None
    /\ batch.base + Len(batch.encoded) < MaxLen
    /\ batch' = [batch EXCEPT !.encoded = Append(@, v)]
    /\ UNCHANGED <<durable, mode, logical, signed, saved>>

\* commit on a stale base or of an empty batch changes nothing.
CommitNothing ==
    /\ mode = "up" /\ batch # None
    /\ batch.base # Len(tree) \/ batch.encoded = <<>>
    /\ batch' = None
    /\ UNCHANGED <<durable, mode, logical, signed, saved>>

Commit ==
    /\ mode = "up" /\ batch # None
    /\ batch.base = Len(tree) /\ batch.encoded # <<>>
    /\ store' = Written(store, Len(tree), batch.encoded)
    /\ tree' = tree \o batch.encoded
    /\ presence' = presence \cup (Len(tree) + 1 .. Len(tree) + Len(batch.encoded))
    /\ Resign(tree', fork)
    /\ batch' = None
    /\ UNCHANGED <<dTree, dPresence, dMeta, mode, fork, prologue, saved>>

\* The put of the j-th staged block failed; the blocks written before it are
\* deleted, and those deletes may fail too.
CommitFails(j) ==
    /\ mode = "up" /\ batch # None
    /\ batch.base = Len(tree) /\ j \in 1 .. Len(batch.encoded)
    /\ \E undone \in SUBSET (Len(tree) + 1 .. Len(tree) + j - 1) :
         LET wrote == Written(store, Len(tree), Prefix(batch.encoded, j - 1))
         IN store' \in FailedWrite(Erased(wrote, undone), Len(tree) + j, batch.encoded[j])
    /\ batch' = None
    /\ UNCHANGED <<dTree, dPresence, dMeta, mode, logical, signed, saved>>

\* clear of the range of positions from .. to.
Clear(from, to) ==
    /\ mode = "up" /\ to <= Len(tree)
    /\ store' = Erased(store, presence \cap (from .. to))
    /\ presence' = presence \ (from .. to)
    /\ UNCHANGED <<dTree, dPresence, dMeta, mode, tree, fork, head, prologue, batch, signed, saved>>

\* The delete at position to failed, after its presence bit was cleared.
ClearFails(from, to) ==
    /\ mode = "up" /\ to \in presence
    /\ store' \in FailedWrite(Erased(store, presence \cap (from .. to - 1)), to, None)
    /\ presence' = presence \ (from .. to)
    /\ UNCHANGED <<dTree, dPresence, dMeta, mode, tree, fork, head, prologue, batch, signed, saved>>

Sweep(keep) ==
    /\ mode = "up"
    /\ store' = Erased(store, presence \ keep)
    /\ presence' = presence \cap keep
    /\ UNCHANGED <<dTree, dPresence, dMeta, mode, tree, fork, head, prologue, batch, signed, saved>>

\* The delete at position i failed, before its presence bit is cleared.
SweepFails(keep, i) ==
    /\ mode = "up" /\ i \in presence \ keep
    /\ store' \in FailedWrite(Erased(store, {j \in presence \ keep : j < i}), i, None)
    /\ presence' = {j \in presence : j \in keep \/ j >= i}
    /\ UNCHANGED <<dTree, dPresence, dMeta, mode, tree, fork, head, prologue, batch, signed, saved>>

-----------------------------------------------------------------------------
\* copy_prologue of the first n blocks; n < Len(prologue) when a block of the
\* source was missing or a put failed half way.
CopyPrologue(n) ==
    /\ mode = "up" /\ prologue # None /\ tree = <<>>
    /\ n \in 0 .. Len(prologue)
    /\ LET wrote == Written(store, 0, Prefix(prologue, n)) IN
       IF n = Len(prologue) THEN store' = wrote
       ELSE store' \in FailedWrite(wrote, n + 1, prologue[n + 1])
    /\ tree' = Prefix(prologue, n)
    /\ presence' = presence \cup (1 .. n)
    /\ IF n = Len(prologue) THEN Resign(tree', fork) ELSE UNCHANGED <<head, signed>>
    /\ UNCHANGED <<dTree, dPresence, dMeta, mode, fork, prologue, batch, saved>>

\* Mutant: the fork is not saved.
MetaNoFork(f, h, p) == [fork |-> 0, head |-> h, prologue |-> p]

\* encode_meta
Meta(f, h, p) == [fork |-> f, head |-> h, prologue |-> p]

\* persist: KEY_TREE, then KEY_PRESENCE, then KEY_META.
Persist ==
    /\ mode = "up"
    /\ dTree' = tree /\ dPresence' = presence
    /\ dMeta' = Meta(fork, head, prologue)
    /\ saved' = [tree |-> tree, meta |-> dMeta']
    /\ UNCHANGED <<store, mode, logical, batch, signed>>

\* persist stopped, by an error or a crash, after the first k of its three puts.
PersistFails(k) ==
    /\ mode = "up" /\ k \in 1 .. 2
    /\ dTree' = tree
    /\ dPresence' = IF k = 2 THEN presence ELSE dPresence
    /\ UNCHANGED <<store, dMeta, mode, logical, batch, signed, saved>>

\* What recover_signed_suffix checks before it writes: the head is ours, at our
\* fork, and our stored blocks and the suffix are what it commits to.
Recoverable(h) ==
    /\ mode = "up" /\ h.fork = fork /\ Len(h.root) >= Len(tree)
    /\ \A i \in 1 .. Len(tree) : i \in presence /\ store[i] = h.root[i]

\* The presence map recover_signed_suffix rebuilds: every block is present.
AllBlocks(t) == 1 .. Len(t)

RecoverSignedSuffix(h) ==
    /\ Recoverable(h)
    /\ store' = Written(store, 0, h.root)
    /\ dTree' = h.root /\ dPresence' = AllBlocks(h.root)
    /\ dMeta' = Meta(fork, h, prologue)
    /\ tree' = h.root /\ presence' = AllBlocks(h.root) /\ head' = h
    /\ saved' = [tree |-> h.root, meta |-> dMeta']
    /\ UNCHANGED <<mode, fork, prologue, batch, signed>>

\* It stopped after n blocks of the suffix, or after all of them and k metadata puts.
RecoverFails(h, n, k) ==
    /\ Recoverable(h)
    /\ n \in Len(tree) .. Len(h.root) /\ (k > 0 => n = Len(h.root))
    /\ store' = Written(store, 0, Prefix(h.root, n))
    /\ dTree' = IF k > 0 THEN h.root ELSE dTree
    /\ dPresence' = IF k > 1 THEN AllBlocks(h.root) ELSE dPresence
    /\ UNCHANGED <<dMeta, mode, logical, batch, signed, saved>>

\* purge: every block and the reserved keys, then the value in memory.
Purge ==
    /\ mode = "up"
    /\ store' = Erased(store, 1 .. Len(tree))
    /\ dTree' = None /\ dPresence' = None /\ dMeta' = None
    /\ tree' = <<>> /\ presence' = {} /\ fork' = 0 /\ head' = None /\ prologue' = None
    /\ saved' = None
    /\ UNCHANGED <<mode, batch, signed>>

\* A delete failed after n blocks, or after all of them and k of KEY_META, KEY_TREE
\* and KEY_PRESENCE: memory still describes the whole log.
PurgeFails(n, k) ==
    /\ mode = "up" /\ n \in 0 .. Len(tree) /\ (k > 0 => n = Len(tree))
    /\ store' = Erased(store, 1 .. n)
    /\ dMeta' = IF k > 0 THEN None ELSE dMeta
    /\ dTree' = IF k > 1 THEN None ELSE dTree
    /\ dPresence' = IF k > 2 THEN None ELSE dPresence
    /\ saved' = IF k > 0 THEN None ELSE saved
    /\ UNCHANGED <<mode, logical, batch, signed>>

-----------------------------------------------------------------------------
Crash ==
    /\ mode = "up"
    /\ mode' = "down"
    /\ batch' = None
    /\ UNCHANGED <<durable, logical, signed, saved>>

NotPersisted == dMeta = None \/ dTree = None \/ dPresence = None

\* open found no core: the caller creates one, as it did the first time.
OpenNotPersisted(p) ==
    /\ mode = "down" /\ NotPersisted
    /\ mode' = "up"
    /\ tree' = <<>> /\ presence' = {} /\ fork' = 0 /\ head' = None
    /\ prologue' = p
    /\ UNCHANGED <<durable, batch, signed, saved>>

\* Mutant: open skips verify_head.
OpenUnchecked == TRUE

\* The check open makes of what it loaded.
OpenAccepts == VerifyHead(dMeta.head, dMeta.fork, dTree)

Open ==
    /\ mode = "down" /\ ~NotPersisted
    /\ IF OpenAccepts
       THEN /\ mode' = "up"
            /\ tree' = dTree /\ presence' = dPresence
            /\ fork' = dMeta.fork /\ head' = dMeta.head /\ prologue' = dMeta.prologue
       ELSE mode' = "corrupt" /\ UNCHANGED logical
    /\ UNCHANGED <<durable, batch, signed, saved>>

-----------------------------------------------------------------------------
\* What a running core does outside a batch, failures of the store included.
Logging ==
    \/ \E v \in Values : AppendBlock(v) \/ AppendFails(v)
    \/ \E n \in 0 .. MaxLen : Truncate(n) \/ CopyPrologue(n)
    \/ \E from \in Positions : \E to \in from .. MaxLen : Clear(from, to) \/ ClearFails(from, to)
    \/ \E keep \in SUBSET Positions : Sweep(keep)
    \/ Persist
    \/ \E k \in 1 .. 2 : PersistFails(k)
    \/ \E h \in signed : RecoverSignedSuffix(h)
    \/ \E h \in signed, n \in 0 .. MaxLen, k \in 0 .. 2 : RecoverFails(h, n, k)

Batching ==
    \/ \E v \in Values : Stage(v)
    \/ OpenBatch \/ CommitNothing \/ Commit
    \/ \E j \in Positions : CommitFails(j)

Running == Logging \/ Batching

Spec == Init /\ [][Running]_vars

\* The core may also be purged, and the process may crash and open the store again.
Next ==
    \/ Running
    \/ \E keep \in SUBSET Positions, i \in Positions : SweepFails(keep, i)
    \/ Purge
    \/ \E n \in 0 .. MaxLen, k \in 0 .. 3 : PurgeFails(n, k)
    \/ Crash
    \/ \E p \in Prologues : OpenNotPersisted(p)
    \/ Open

SpecCrash == Init /\ [][Next]_vars

-----------------------------------------------------------------------------
\* Every variable has its type.
TypeOK ==
    /\ store \in [Positions -> Values \cup {None}]
    /\ dTree \in Logs \cup {None}
    /\ dPresence \in (SUBSET Positions) \cup {None}
    /\ dMeta \in Metas \cup {None}
    /\ mode \in {"up", "down", "corrupt"}
    /\ tree \in Logs
    /\ presence \subseteq Positions
    /\ fork \in 0 .. MaxFork
    /\ head \in HeadOrNone
    /\ prologue \in Prologues \cup {None}
    /\ batch \in [base : 0 .. MaxLen, encoded : Logs] \cup {None}
    /\ batch # None => batch.base + Len(batch.encoded) <= MaxLen
    /\ signed \subseteq Heads
    /\ saved \in [tree : Logs, meta : Metas] \cup {None}

\* The head a running core shows is the one verify_head accepts: it signs the tree and
\* the fork the core has.  A core has no head only while it is empty or while
\* copy_prologue is unfinished.
HeadAuthentic ==
    mode = "up" => IF head = None THEN fork = 0 /\ (tree = <<>> \/ prologue # None)
                   ELSE VerifyHead(head, fork, tree)

\* Two heads signed at one fork never contradict each other: one commits to a prefix of
\* what the other commits to.  This is what conflicting_heads and ForkProof assume of
\* an honest writer, through appends, batches, failed commits, truncations and
\* recovered suffixes.
NoEquivocation ==
    \A g, h \in signed :
        g.fork = h.fork => IsPrefixOf(g.root, h.root) \/ IsPrefixOf(h.root, g.root)

\* Every head ever signed is at an earlier fork, or commits to a prefix of the log the
\* core has now: no append, commit, truncation or recovery leaves an older head of the
\* current fork behind.
SignedHeadsHold ==
    \A h \in signed : h.fork <= fork /\ (h.fork = fork => IsPrefixOf(h.root, tree))

\* A block the presence map lists is in the store, with the bytes the Merkle tree
\* commits to: has, get, block and snapshot rely on it, after any number of failed
\* puts, rollbacks whose deletes fail, clears whose delete fails, and truncations.  A sweep
\* whose delete fails is no step of Spec: it may leave a block that is gone marked present.
PresentReadable ==
    mode = "up" => \A i \in presence : i <= Len(tree) /\ store[i] = tree[i]

\* Once the log starts with the prologue it is bound to, no operation undoes it
\* (verify_prologue, truncate).
PrologueKept ==
    [][(mode = "up" /\ mode' = "up" /\ VerifyPrologue(prologue, tree))
         => VerifyPrologue(prologue', tree')]_vars

\* The log is only ever extended, unless the fork counter grows in the same step.
ReorgBumpsFork == [][IsPrefixOf(tree, tree') \/ fork' > fork]_vars

\* When open succeeds it gives back the log, fork, head and prologue of the last persist
\* that wrote all of its keys, however many later ones were cut short, and a new core
\* only when there is none.
OpenRestoresSaved ==
    [][(mode = "down" /\ mode' = "up")
         => IF saved = None THEN tree' = <<>> /\ fork' = 0 /\ head' = None
            ELSE tree' = saved.tree /\ Meta(fork', head', prologue') = saved.meta]_vars

\* open refuses a store only when KEY_TREE is not the one of the last complete persist, or
\* when that persist saved an unfinished prologue: nothing else that happens to the blocks
\* or the metadata, failed purges and recoveries included, makes a core unreadable.
RefusesOnlyTorn ==
    mode = "corrupt" => saved # None /\ (dTree # saved.tree \/ saved.meta.head = None)

\* Every step of a running core, failed ones included, is a step of the signed log its
\* readers rely on.
SL == INSTANCE SignedLog WITH log <- tree

Implements == SL!SignedLogSpec
=============================================================================
