\* Initialize (with the user-input path), API calls and VMMDLL_Close.
CONSTANTS
    t1 = t1
    t2 = t2
    h1 = h1
    h2 = h2
    h3 = h3
    Threads <- MCThreads
    Handles <- MCHandles
    NULL = NULL
    NoThread = NoThread
    MaxHandles = 2
    MaxInternal = 1
    UserInteract = TRUE
    WithClose = TRUE
    WithCloseAll = FALSE
SPECIFICATION Spec
INVARIANT TypeOK
INVARIANT NoUseAfterFree
INVARIANT AllowListSound
INVARIANT ExternalCountExact
PROPERTY CloseTerminates
