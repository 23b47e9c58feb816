\* Initialize through the user-input path; the user enters an empty line.
CONSTANTS
    t1 = t1
    t2 = t2
    h1 = h1
    h2 = h2
    h3 = h3
    Threads <- MCThreads
    Handles <- MCHandles
    NULL = NULL
    NoThread = NoThread
    MaxHandles = 2
    MaxInternal = 1
    UserInteract = TRUE
    WithClose = TRUE
    WithCloseAll = FALSE
SPECIFICATION Spec
INVARIANT NoOrphanHandle
