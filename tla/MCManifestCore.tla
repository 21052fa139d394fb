--------------------------- MODULE MCManifestCore ---------------------------
(* Two cores with some of the secrets each, under several manifests. *)
EXTENDS ManifestCore

CONSTANTS a, b, c, x, y

MCValues == {x, y}
MCCores == {1, 2}

Start(m, other, secrets1, secrets2) ==
    [replica |-> m, manifest |-> <<m, other>>, secrets |-> <<secrets1, secrets2>>]

Same(m, secrets1, secrets2) == Start(m, m, secrets1, secrets2)

Majority(signers) == New(DefaultQuorum(Len(signers)), signers)

\* Overlapping majorities; a lone signer; two halves; a key declared twice; a key that also
\* signs alone under its own manifest; a prologue with a signer, and one without.
MCSetups ==
    {Same(Majority(<<a, b, c>>), <<b, a>>, <<b, c>>),
     Same(Majority(<<a, b, c>>), <<c, b, b>>, <<a>>),
     Same(Majority(<<a, b>>), <<a>>, <<b>>),
     Same(New(2, <<a, a, b>>), <<a, b>>, <<a, c>>),
     Start(New(2, <<a, b>>), Single(a), <<a, b>>, <<a>>),
     Same(WithPrologue(Single(a), <<x>>), <<a>>, <<>>),
     Same(StaticSigner(<<x, y>>), <<a>>, <<>>)}
=============================================================================
