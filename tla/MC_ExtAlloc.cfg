\* Two API threads, two addresses (so a freed block's address is reused by
\* the next allocation) and four calls, of both kinds.
CONSTANTS
    t1 = t1
    t2 = t2
    a1 = a1
    a2 = a2
    None = None
    Threads <- MCThreads
    Addrs <- MCAddrs
    MaxCalls = 4
SYMMETRY MCSymmetry
SPECIFICATION Spec
INVARIANTS
    RefCountExact
    RegistryExact
\* After MaxCalls calls and the frees of what they returned, the threads make
\* no more calls: the program may stop there.
CHECK_DEADLOCK FALSE
