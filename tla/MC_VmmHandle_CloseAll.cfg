\* Initialize, API calls and VMMDLL_CloseAll.  UserInteract is FALSE: with
\* it TRUE, CloseAll frees H while Initialize waits for user input and
\* NoUseAfterFree is violated (README, finding 11).
CONSTANTS
    t1 = t1
    t2 = t2
    h1 = h1
    h2 = h2
    h3 = h3
    Threads <- MCThreads
    Handles <- MCHandles
    NULL = NULL
    NoThread = NoThread
    MaxHandles = 2
    MaxInternal = 1
    UserInteract = FALSE
    WithClose = FALSE
    WithCloseAll = TRUE
SPECIFICATION Spec
INVARIANT NoUseAfterFree
PROPERTY CloseAllEmpties
