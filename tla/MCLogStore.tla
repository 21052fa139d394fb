----------------------------- MODULE MCLogStore -----------------------------
EXTENDS LogStore

CONSTANTS x, y

MCKeys == {0, 1}
MCSymbols == {x, y}
MCValues == {<<x>>, <<y, x>>}
=============================================================================
