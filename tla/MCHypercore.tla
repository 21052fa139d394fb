---------------------------- MODULE MCHypercore ----------------------------
EXTENDS Hypercore, TLC

CONSTANTS a, b

MCValues == {a, b}
MCPrologues == {None, <<a>>, <<b>>}
NoPrologues == {None}
MCSymmetry == Permutations(MCValues)
=============================================================================
