\* Three threads calling the three acquire functions and the release, and
\* pushing and popping two entries on an SLIST guarded by the lock.
CONSTANTS
    t1 = t1
    t2 = t2
    t3 = t3
    e1 = e1
    e2 = e2
    Threads <- MCThreads
    ListThreads <- MCListThreads
    LockThreads <- MCLockThreads
    Entries <- MCEntries
    NULL = NULL
    DepthMod <- MCDepthMod
    MaxCalls = 4
SPECIFICATION Spec
INVARIANT TypeOK
INVARIANT CountExact
PROPERTY Progress
PROPERTY ImplementsExclusiveLock
PROPERTY ImplementsStack
