\* NoResurrection: two threads writing search, option and reset files.
CONSTANTS
    t1 = t1
    t2 = t2
    c1 = c1
    c2 = c2
    c3 = c3
    Threads <- MCThreads
    Ctxs <- MCCtxs
    NULL = NULL
    MaxCfg = 2
SPECIFICATION Spec
SYMMETRY MCSymmetry
INVARIANT NoResurrection
