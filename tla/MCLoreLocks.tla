----------------------------- MODULE MCLoreLocks -----------------------------
EXTENDS LoreLocks, TLC
CONSTANTS t1, t2, t3

\* Two suggestions that share an element.
Pairs == <<{1, 2}, {2, 3}>>

Symmetric == Permutations(Transactions)
=============================================================================
