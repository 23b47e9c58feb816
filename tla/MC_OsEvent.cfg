\* One event of either kind, three threads calling WaitForSingleObject,
\* SetEvent and ResetEvent.
CONSTANTS
    t1 = t1
    t2 = t2
    t3 = t3
    Threads <- MCThreads
    MaxCalls = 4
SPECIFICATION Spec
INVARIANT TypeOK
INVARIANT CountExact
PROPERTY WaitersReleased
PROPERTY SignalConsumed
\* After MaxCalls calls the threads make no more: the program may stop there.
CHECK_DEADLOCK FALSE
