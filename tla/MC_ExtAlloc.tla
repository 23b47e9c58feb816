------------------------------ MODULE MC_ExtAlloc ------------------------------
EXTENDS ExtAlloc, TLC

CONSTANTS t1, t2, a1, a2

MCThreads == {t1, t2}
MCAddrs == {a1, a2}
MCSymmetry == Permutations(MCThreads) \cup Permutations(MCAddrs)

=============================================================================
