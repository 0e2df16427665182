--------------------------- MODULE MCAccountLease ---------------------------
EXTENDS AccountLease, TLC

CONSTANTS w1, w2, a1, a2

MCWorker == {w1, w2}
MCAccount == {a1, a2}
MCOneAccount == {a1}

\* Workers and accounts are interchangeable in the invariants.
Symmetry == Permutations(MCWorker) \cup Permutations(MCAccount)
=============================================================================
