------------------------------ MODULE Replica ------------------------------
(***************************************************************************)
(* The verify-only replica of crates/hypercore (replica.rs) reading the    *)
(* log of a writer that appends and truncates (SignedLog), over a store    *)
(* whose puts may fail, with the process crashing and reopening.           *)
(*                                                                         *)
(* The network is the set of heads the writer ever signed: a peer may hand *)
(* over any of them, and any block it covers, in any order, any number of  *)
(* times, or never.  A block with a valid inclusion proof for index i of a *)
(* head is block i of the head's root; whatever fails verification is      *)
(* refused without changing the replica, so it is a stuttering step.       *)
(***************************************************************************)
EXTENDS SignedLog

CONSTANTS
    None,
    MaxCrashes  \* bound on the crashes of the reader's process

ASSUME ReplicaNone == None \notin Values /\ None \notin Seq(Values)
ASSUME ReplicaNoneIsNoHead == None \notin [fork : Nat, root : Seq(Values)]
ASSUME ReplicaBounds == MaxLen \in Nat /\ MaxFork \in Nat /\ MaxCrashes \in Nat

VARIABLES
    \* in the Store, kept across a crash
    store,      \* block position -> bytes, or None
    dTree,      \* KEY_TREE
    dMeta,      \* KEY_META: the head persisted, or None in its place
    \* the Replica value
    mode,       \* "up", "down", or "corrupt" when open returned Error::Corrupt
    tree, head,
    \* its caller
    gated,      \* whether it calls verify_upgrade and reorg before it fetches
    target,     \* the head that passed the gate and is being fetched, or None
    \* history
    torn,       \* a persist has stopped half way
    crashes

durable == <<store, dTree, dMeta>>
replica == <<durable, mode, tree, head, gated, target, torn, crashes>>
vars == <<logVars, replica>>

history == <<gated, torn, crashes>>

Positions == 1 .. MaxLen
Logs == {s \in Seq(Values) : Len(s) <= MaxLen}
Heads == [fork : 0 .. MaxFork, root : Logs]

Prefix(s, n) == SubSeq(s, 1, n)

\* s is a prefix of t.
IsPrefixOf(s, t) == Len(s) <= Len(t) /\ \A i \in 1 .. Len(s) : s[i] = t[i]

Init == /\ SignedLogInit
        /\ store = [i \in Positions |-> None] /\ dTree = None /\ dMeta = None
        /\ mode = "up" /\ tree = <<>> /\ head = None
        /\ gated \in BOOLEAN /\ target = None
        /\ torn = FALSE /\ crashes = 0

\* The writer's side.
Write == SignedLogNext /\ UNCHANGED replica

-----------------------------------------------------------------------------
\* Mutant: a later head is not taken over.
MatchedOnce(t, h) == IF t = h.root /\ head = None THEN h ELSE head

\* The verified head after the tree became t under head h.
Matched(t, h) == IF t = h.root THEN h ELSE head

\* Mutant: the block is hashed but not stored.
AddBlockUnstored(h) ==
    /\ mode = "up" /\ Len(tree) < Len(h.root)
    /\ tree' = Append(tree, h.root[Len(tree) + 1])
    /\ head' = Matched(tree', h)
    /\ UNCHANGED <<logVars, store, dTree, dMeta, mode, target, history>>

\* add_block of the next block, with its proof under h.
AddBlock(h) ==
    /\ mode = "up" /\ Len(tree) < Len(h.root)
    /\ store' = [store EXCEPT ![Len(tree) + 1] = h.root[Len(tree) + 1]]
    /\ tree' = Append(tree, h.root[Len(tree) + 1])
    /\ head' = Matched(tree', h)
    /\ UNCHANGED <<logVars, dTree, dMeta, mode, target, history>>

\* store.put failed, with or without having written.
AddBlockFails(h) ==
    /\ mode = "up" /\ Len(tree) < Len(h.root)
    /\ store' = [store EXCEPT ![Len(tree) + 1] = h.root[Len(tree) + 1]]
    /\ UNCHANGED <<logVars, dTree, dMeta, mode, tree, head, target, history>>

\* Mutant: the extension is not folded onto the replica's own roots.
VerifyUpgradeLength(h) == tree # <<>> /\ Len(h.root) > Len(tree)

\* verify_upgrade; an upgrade proof needs a non-empty tree to start from.
VerifyUpgrade(h) ==
    tree # <<>> /\ Len(h.root) > Len(tree) /\ Prefix(h.root, Len(tree)) = tree

\* Mutant: any fork will do.
VerifyReorgAnyFork(h, n) ==
    /\ head # None /\ n <= Len(tree) /\ n <= Len(h.root)
    /\ Prefix(tree, n) = Prefix(h.root, n)

\* verify_reorg
VerifyReorg(h, n) ==
    /\ head # None /\ h.fork > head.fork
    /\ n <= Len(tree) /\ n <= Len(h.root)
    /\ IF n = Len(h.root) THEN Prefix(tree, n) = h.root
       ELSE n = 0 \/ Prefix(tree, n) = Prefix(h.root, n)

\* The caller takes h as the head to fetch: an extension of what it holds, or the first.
Fetch(h) ==
    /\ mode = "up" /\ (tree = <<>> \/ VerifyUpgrade(h))
    /\ target' = h
    /\ UNCHANGED <<logVars, durable, mode, tree, head, history>>

\* reorg, after which the caller fetches the rest of h.
Reorg(h, n) ==
    /\ mode = "up" /\ VerifyReorg(h, n)
    /\ tree' = Prefix(tree, n)
    /\ head' = IF tree' = h.root THEN h ELSE None
    /\ target' = h
    /\ UNCHANGED <<logVars, durable, mode, history>>

-----------------------------------------------------------------------------
\* persist: KEY_TREE, then KEY_META.
Persist ==
    /\ mode = "up"
    /\ dTree' = tree /\ dMeta' = [head |-> head]
    /\ UNCHANGED <<logVars, store, mode, tree, head, target, history>>

\* persist stopped, by an error or a crash, after KEY_TREE.
PersistFails ==
    /\ mode = "up"
    /\ dTree' = tree /\ torn' = TRUE
    /\ UNCHANGED <<logVars, store, dMeta, mode, tree, head, gated, target, crashes>>

Crash ==
    /\ mode = "up" /\ crashes < MaxCrashes
    /\ mode' = "down" /\ target' = None /\ crashes' = crashes + 1
    /\ UNCHANGED <<logVars, durable, tree, head, gated, torn>>

NotPersisted == dTree = None \/ dMeta = None

\* open found nothing: the caller starts a new replica.
OpenNotPersisted ==
    /\ mode = "down" /\ NotPersisted
    /\ mode' = "up" /\ tree' = <<>> /\ head' = None
    /\ UNCHANGED <<logVars, durable, target, history>>

\* Mutant: blocks that ran ahead of the head are kept.
LoadedWhole(t, h) == t

\* The tree open resumes from: what the persisted head vouches for.
Loaded(t, h) == IF h # None /\ Len(t) > Len(h.root) THEN Prefix(t, Len(h.root)) ELSE t

Open ==
    /\ mode = "down" /\ ~NotPersisted
    /\ LET t == Loaded(dTree, dMeta.head) IN
       IF dMeta.head = None \/ t = dMeta.head.root
       THEN mode' = "up" /\ tree' = t /\ head' = dMeta.head
       ELSE mode' = "corrupt" /\ UNCHANGED <<tree, head>>
    /\ UNCHANGED <<logVars, durable, target, history>>

-----------------------------------------------------------------------------
Storing == Persist \/ PersistFails \/ Crash \/ OpenNotPersisted \/ Open

\* A streaming caller applies blocks as they come, as a Room does.
AddAny == ~gated /\ \E h \in signed : AddBlock(h)

\* A gated caller applies verify_upgrade before it fetches a longer head, and reorg to
\* follow a higher fork, as their documentation asks.
AddTarget == target # None /\ AddBlock(target)

Next ==
    \/ Write
    \/ AddAny
    \/ ~gated /\ \E h \in signed : AddBlockFails(h)
    \/ gated /\ \E h \in signed : Fetch(h)
    \/ gated /\ \E h \in signed, n \in 0 .. MaxLen : Reorg(h, n)
    \/ AddTarget
    \/ target # None /\ AddBlockFails(target)
    \/ Storing

\* Blocks keep arriving, and a crashed reader is restarted.
Fairness == WF_vars(AddAny) /\ WF_vars(OpenNotPersisted) /\ WF_vars(Open)

Spec == Init /\ [][Next]_vars /\ Fairness

-----------------------------------------------------------------------------
\* Every variable has its type.
TypeOK ==
    /\ log \in Logs /\ fork \in 0 .. MaxFork /\ signed \subseteq Heads
    /\ store \in [Positions -> Values \cup {None}]
    /\ dTree \in Logs \cup {None}
    /\ dMeta \in [head : Heads \cup {None}] \cup {None}
    /\ mode \in {"up", "down", "corrupt"}
    /\ tree \in Logs
    /\ head \in Heads \cup {None}
    /\ target \in signed \cup {None}
    /\ gated \in BOOLEAN /\ torn \in BOOLEAN
    /\ crashes \in 0 .. MaxCrashes

\* The verified head is one the writer signed, and the replica holds every block it
\* commits to, however far blocks of other heads ran ahead of it (add_block, reorg, open).
\* A gated replica never holds a mix of two histories: its blocks are the start of a log the
\* writer signed (verify_upgrade, verify_reorg).
TreeAuthored ==
    mode = "up" => /\ head # None => head \in signed /\ IsPrefixOf(head.root, tree)
                   /\ gated => tree = <<>> \/ \E h \in signed : IsPrefixOf(tree, h.root)

\* The bytes get and block return are the ones the replica's tree commits to, as long as no
\* crash takes a replica that follows reorgs back to a tree whose blocks were rewritten.
BytesVerified == mode = "up" /\ (gated => crashes = 0) => \A i \in 1 .. Len(tree) : store[i] = tree[i]

\* A persisted replica can always be opened again, also after a torn persist, unless that
\* persist was to save a reorg.
NeverCorrupt == mode = "corrupt" => gated /\ torn

\* What a gated replica verified stays, unless the writer signed a higher fork that rewrote it.
VerifiedKept ==
    [][gated /\ mode = "up" /\ mode' = "up" /\ head # None
         => \/ IsPrefixOf(head.root, tree')
            \/ \E h \in signed : h.fork > head.fork /\ IsPrefixOf(tree', h.root)]_vars

\* Some head is fully replicated that covers everything signed.
CaughtUp == \A h \in signed : h.root = <<>> \/ (head # None /\ IsPrefixOf(h.root, head.root))

\* A reader of a log that is never truncated keeps catching up with it, after failed puts
\* and crashes, as long as no persist is torn.
Converges == ~gated /\ [](fork = 0 /\ ~torn) => []<>CaughtUp
=============================================================================
