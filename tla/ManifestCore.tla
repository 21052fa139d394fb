---------------------------- MODULE ManifestCore ----------------------------
(***************************************************************************)
(* Logs governed by a manifest (crates/hypercore/src/manifest_core.rs):    *)
(* cores that hold some of the secrets and append, each on its own, and a  *)
(* replica that holds the manifest only and takes blocks and heads from    *)
(* anyone, heads with signatures put together from several cores included. *)
(* A Merkle proof is the block it proves (module Merkle).                  *)
(***************************************************************************)
EXTENDS Manifest, Enumeration, SequencesExt

CONSTANTS
    Values,     \* encoded blocks
    Cores,
    Setups,     \* what a behaviour starts from: [replica |-> manifest,
                \*   manifest |-> [Cores -> manifests], secrets |-> [Cores -> sequences of keys]]
    MaxLen,     \* bound on the blocks of a core
    MaxSigs,    \* bound on the signatures of an offered head
    MaxFails    \* bound on the failed puts

ASSUME ManifestBounds == MaxLen \in Nat /\ MaxSigs \in Nat
ASSUME ManifestSetups ==
    \A s \in Setups : /\ s.replica # None
                       /\ s.replica.quorum \in Nat /\ Len(s.replica.signers) \in Nat

VARIABLES
    setup,
    tree, store, head,              \* per core
    rTree, rStore, verified,        \* the replica
    fails

vars == <<setup, tree, store, head, rTree, rStore, verified, fails>>
coreVars == <<tree, store, head>>
replicaVars == <<rTree, rStore, verified>>

Blank == [i \in 1 .. MaxLen |-> None]

Init == /\ setup \in Setups
        /\ tree = [c \in Cores |-> <<>>] /\ store = [c \in Cores |-> Blank]
        /\ head = [c \in Cores |-> None]
        /\ rTree = <<>> /\ rStore = Blank /\ verified = None
        /\ fails = 0

\* The signers a core has the secrets of.
Slots(c) == UNION {Places(setup.manifest[c], k) : k \in Range(setup.secrets[c])}

\* resign: the partial signatures of the declared secrets, by signer, without repetitions.
Resigned(c, root) ==
    [root |-> root,
     sigs |-> [i \in 1 .. Cardinality(Slots(c)) |->
                  PartialSig(setup.manifest[c], Ascending(Slots(c))[i], root)]]

AppendBlock(c, v) ==
    /\ Len(tree[c]) < MaxLen
    /\ store' = [store EXCEPT ![c][Len(tree[c]) + 1] = v]
    /\ tree' = [tree EXCEPT ![c] = Append(@, v)]
    /\ head' = [head EXCEPT ![c] = Resigned(c, tree'[c])]
    /\ UNCHANGED <<setup, replicaVars, fails>>

\* The put failed and append returned its error: the block is there or not.
AppendFails(c, v) ==
    /\ Len(tree[c]) < MaxLen /\ fails < MaxFails /\ fails' = fails + 1
    /\ store' \in {store, [store EXCEPT ![c][Len(tree[c]) + 1] = v]}
    /\ UNCHANGED <<setup, tree, head, replicaVars>>

\* verify_head
VerifyHead(c) == IF head[c] = None THEN tree[c] = <<>>
                 ELSE head[c].root = tree[c] /\ Verify(setup.manifest[c], tree[c], head[c].sigs)

-----------------------------------------------------------------------------
\* The logs the cores had a head for, and what their secrets signed.
Heads(c) == Prefixes(tree[c]) \ {<<>>}
Roots == UNION {Heads(c) : c \in Cores}
Declared(c) == {k \in Range(setup.secrets[c]) : Places(setup.manifest[c], k) # {}}
Published == UNION {{Sig(setup.manifest[c], k, root) : k \in Declared(c), root \in Heads(c)} : c \in Cores}

\* Any signatures under any signer, out of range too, in any order.
Partials == [signer : 1 .. Len(setup.replica.signers) + 1, sig : Published]
Offers == UNION {[1 .. n -> Partials] : n \in 0 .. MaxSigs}

\* The heads over a root that can change anything: a refused head ends add_block at once.
Accepted(root) == {sigs \in Offers : Verify(setup.replica, root, sigs)}

\* verify_manifest_block: the proof gives the block the root has at index.
VerifyBlock(root, sigs, index, data) ==
    Verify(setup.replica, root, sigs) /\ index <= Len(root) /\ data = root[index]

\* add_block, accepting; a refused block changes nothing.
AddBlock(root, sigs, v) ==
    LET index == Len(rTree) + 1 IN
    /\ VerifyBlock(root, sigs, index, v)
    /\ rStore' = [rStore EXCEPT ![index] = v]
    /\ rTree' = Append(rTree, v)
    /\ verified' = IF rTree' = root THEN [root |-> root, sigs |-> sigs] ELSE verified
    /\ UNCHANGED <<setup, coreVars, fails>>

AddBlockFails(root, sigs, v) ==
    LET index == Len(rTree) + 1 IN
    /\ VerifyBlock(root, sigs, index, v) /\ fails < MaxFails /\ fails' = fails + 1
    /\ rStore' \in {rStore, [rStore EXCEPT ![index] = v]}
    /\ UNCHANGED <<setup, coreVars, rTree, verified>>

Next == \/ \E c \in Cores, v \in Values : AppendBlock(c, v) \/ AppendFails(c, v)
        \/ \E root \in Roots : \E sigs \in Accepted(root), v \in Values :
               AddBlock(root, sigs, v) \/ AddBlockFails(root, sigs, v)

Spec == Init /\ [][Next]_vars
-----------------------------------------------------------------------------
\* The signers of the replica's manifest that signed a log under it.
SignedBy(root) == {s \in Signers(setup.replica) :
                      Sig(setup.replica, setup.replica.signers[s], root) \in Published}

Authorized(root) ==
    IF PrologueDecides(setup.replica, root) THEN root = setup.replica.prologue
    ELSE setup.replica.quorum > 0 /\ Cardinality(SignedBy(root)) >= setup.replica.quorum

Comparable(r, s) == IsPrefix(r, s) \/ IsPrefix(s, r)

\* A replica that trusts no sender holds only blocks of logs that a quorum of the distinct
\* signers of its manifest signed under it, or of the prologue; it reads back what it
\* verified; and the head it reports is such a log, of which it has every block
\* (ManifestReplica::add_block, Manifest::verify).
ReplicaVouched ==
    /\ \A i \in 1 .. Len(rTree) :
         /\ rStore[i] = rTree[i]
         /\ \E root \in Roots : Authorized(root) /\ i <= Len(root) /\ root[i] = rTree[i]
    /\ verified # None => Authorized(verified.root) /\ IsPrefix(verified.root, rTree)

\* Under a majority quorum, two authorized heads that contradict each other convict a signer:
\* one signed both.  The replica's verified head and the heads the cores ratify themselves
\* are compared (default_quorum, ManifestCore::resign, verify_head).
MajoritiesMeet ==
    \A c \in Cores :
        /\ verified # None /\ head[c] # None /\ setup.manifest[c] = setup.replica
        /\ setup.replica = New(DefaultQuorum(Len(setup.replica.signers)), setup.replica.signers)
        /\ VerifyHead(c) /\ ~Comparable(verified.root, tree[c])
        => SignedBy(verified.root) \cap SignedBy(tree[c]) # {}
=============================================================================
