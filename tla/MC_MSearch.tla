----------------------------- MODULE MC_MSearch -----------------------------
(* Two API threads and three context allocations: enough for two fresh    *)
(* contexts racing while a third is allocated after a reset.              *)
EXTENDS MSearch, TLC

CONSTANTS t1, t2, c1, c2, c3

MCThreads == {t1, t2}
MCCtxs == {c1, c2, c3}

\* Threads and context allocations are interchangeable.
MCSymmetry == Permutations(MCThreads) \cup Permutations(MCCtxs)
=============================================================================
