------------------------------ MODULE Manifest ------------------------------
(***************************************************************************)
(* The multi-signer policy of crates/identity (manifest.rs).  A manifest   *)
(* is its own hash, a log stands for the pair of its length and root, and  *)
(* a signature is the triple of the key, the manifest and the log signed:  *)
(* hashes do not collide and signatures are not forged.  Signers count     *)
(* from 1.                                                                 *)
(***************************************************************************)
EXTENDS Naturals, Sequences, FiniteSets

CONSTANT None

\* Mutant: half of the signers, rounded up.
HalfQuorum(n) == (n + 1) \div 2

\* default_quorum
DefaultQuorum(n) == (n \div 2) + 1

Policy(quorum, signers, prologue) ==
    [quorum |-> quorum, signers |-> signers, prologue |-> prologue]

\* new
New(quorum, signers) ==
    IF signers = <<>> \/ quorum = 0 \/ quorum > Len(signers) THEN None
    ELSE Policy(quorum, signers, None)

\* single
Single(key) == Policy(1, <<key>>, None)

\* static_signer
StaticSigner(prologue) == Policy(0, <<>>, prologue)

\* with_prologue
WithPrologue(m, prologue) == [m EXCEPT !.prologue = prologue]

Signers(m) == 1 .. Len(m.signers)

\* signable, under the secret of key.
Sig(m, key, root) == [manifest |-> m, key |-> key, root |-> root]

\* Where sign finds a key: its first place among the signers; {} when it is not declared.
Places(m, key) == {s \in Signers(m) : /\ m.signers[s] = key
                                      /\ \A t \in 1 .. s - 1 : m.signers[t] # key}

PartialSig(m, s, root) == [signer |-> s, sig |-> Sig(m, m.signers[s], root)]

\* The prologue decides alone up to its length.
PrologueDecides(m, root) == m.prologue # None /\ Len(root) <= Len(m.prologue)

\* Mutant: a signer may be counted twice.
QuorumRepeating(m, root, sigs) ==
    /\ m.quorum # 0 /\ Len(sigs) >= m.quorum
    /\ \A i \in 1 .. Len(sigs) : /\ sigs[i].signer \in Signers(m)
                                 /\ sigs[i].sig = Sig(m, m.signers[sigs[i].signer], root)

\* The quorum rule: enough signatures, all of them valid, of distinct declared signers.
Quorum(m, root, sigs) ==
    /\ m.quorum # 0 /\ Len(sigs) >= m.quorum
    /\ \A i \in 1 .. Len(sigs) : /\ sigs[i].signer \in Signers(m)
                                 /\ \A j \in 1 .. i - 1 : sigs[j].signer # sigs[i].signer
                                 /\ sigs[i].sig = Sig(m, m.signers[sigs[i].signer], root)

\* verify
Verify(m, root, sigs) == IF PrologueDecides(m, root) THEN root = m.prologue ELSE Quorum(m, root, sigs)
=============================================================================
