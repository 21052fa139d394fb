----------------------------- MODULE MCStorage ------------------------------
EXTENDS MCLogStore, Storage

MCIndices == 0 .. 9
=============================================================================
