----------------------------- MODULE VmmHandle -----------------------------
(***************************************************************************)
(* The handle layer of MemProcFS: the global allow-list of VMM_HANDLEs,    *)
(* the reserve/return window every exported call runs in, and the          *)
(* Initialize / Close / CloseAll life cycle (src/vmm/vmmdll_core.c and the *)
(* VMMDLL_Close and CALL_IMPLEMENTATION_VMM wrappers of src/vmm/vmmdll.c). *)
(*                                                                         *)
(* A handle is a model value whose memory is "none" (never allocated),     *)
(* "alive" (LocalAlloc'ed) or "freed" (LocalFree'd).  The SRW lock         *)
(* g_VMMDLL_CORE_LOCK_SRW is modelled by its exclusive owner: the shared   *)
(* side is only held inside HandleReserveExternal, which does nothing that *)
(* blocks, so a reserve is one step enabled while no thread owns the lock  *)
(* exclusively.  Every step of CloseHandle runs under the exclusive lock,  *)
(* so the only steps that interleave with it are the return of a reserved  *)
(* call and the exit of a work-pool thread.                                *)
(***************************************************************************)
EXTENDS Naturals, FiniteSets

CONSTANTS
    Threads,       \* threads of the API user
    Handles,       \* the VMM_HANDLE allocations Initialize may make
    NULL,          \* the NULL pointer
    NoThread,      \* no exclusive owner of the SRW lock
    MaxHandles,    \* VMM_HANDLE_MAX_COUNT
    MaxInternal,   \* bound on work-pool threads running for one handle
    UserInteract,  \* LeechCore may ask for user input (_WIN32, -userinteract)
    WithClose,     \* the API user calls VMMDLL_Close
    WithCloseAll   \* the API user calls VMMDLL_CloseAll

ASSUME MaxHandles \in Nat \ {0} /\ MaxInternal \in Nat
ASSUME NULL \notin Handles /\ NoThread \notin Threads

VARIABLES
    hstate,   \* memory of each handle: "none", "alive" or "freed"
    magic,    \* H->magic = VMM_MAGIC
    fAbort,   \* H->fAbort
    cExt,     \* H->cThreadExternal
    cInt,     \* H->cThreadInternal
    slots,    \* g_VMMDLL_CORE_HANDLES[0 .. MaxHandles-1]
    count,    \* g_VMMDLL_CORE_HANDLE_COUNT
    excl,     \* exclusive owner of g_VMMDLL_CORE_LOCK_SRW
    pc,       \* program counter of each thread
    th,       \* the handle each thread works on
    ret,      \* where CloseHandle returns to
    issued    \* handles Initialize returned that the user has not closed

vars == <<hstate, magic, fAbort, cExt, cInt, slots, count, excl, pc, th, ret, issued>>

Slot == 0 .. MaxHandles - 1
Listed == {slots[i] : i \in 0 .. count - 1}
LockFree == excl = NoThread

Pcs == {"idle", "init", "body", "ui", "cl_check", "cl_lock", "ca_loop",
        "ch_remove", "ch_wait_ext", "ch_wait_int"}

Init ==
    /\ hstate = [h \in Handles |-> "none"]
    /\ magic = [h \in Handles |-> FALSE]
    /\ fAbort = [h \in Handles |-> FALSE]
    /\ cExt = [h \in Handles |-> 0]
    /\ cInt = [h \in Handles |-> 0]
    /\ slots = [i \in Slot |-> NULL]
    /\ count = 0
    /\ excl = NoThread
    /\ pc = [t \in Threads |-> "idle"]
    /\ th = [t \in Threads |-> NULL]
    /\ ret = [t \in Threads |-> "release"]
    /\ issued = {}

-----------------------------------------------------------------------------
(* Allow-list helpers. *)

IndexOf(h) == CHOOSE i \in 0 .. count - 1 : slots[i] = h

\* Removal that forgets to move the last entry into the hole.
RemovedSlotsNoSwap(h) == [slots EXCEPT ![IndexOf(h)] = NULL]

\* VmmDllCore_HandleRemove: the last listed handle fills the hole.
RemovedSlots(h) ==
    LET i == IndexOf(h) IN
    IF i < count - 1
    THEN [slots EXCEPT ![i] = slots[count - 1], ![count - 1] = NULL]
    ELSE [slots EXCEPT ![i] = NULL]

\* VmmDllCore_HandleRemove: acts only on a handle with valid magic.
HandleRemove(h) ==
    IF magic[h] /\ h \in Listed
    THEN slots' = RemovedSlots(h) /\ count' = count - 1
    ELSE UNCHANGED <<slots, count>>

-----------------------------------------------------------------------------
(* Reserve / return window of CALL_IMPLEMENTATION_VMM[_RETURN].            *)

\* VmmDllCore_HandleReserveExternal: under the shared lock, look the pointer
\* up in the allow-list; if found, count the thread in and check magic/abort.
\* Any handle ever allocated may be passed, stale ones included.
Reserve(t, h) ==
    /\ pc[t] = "idle" /\ hstate[h] # "none" /\ LockFree
    /\ th' = [th EXCEPT ![t] = h]
    /\ IF h \in Listed
       THEN /\ cExt' = [cExt EXCEPT ![h] = @ + 1]
            /\ pc' = [pc EXCEPT ![t] = IF magic[h] /\ ~fAbort[h] THEN "body" ELSE "idle"]
       ELSE UNCHANGED <<cExt, pc>>
    /\ UNCHANGED <<hstate, magic, fAbort, cInt, slots, count, excl, ret, issued>>

\* A return path that forgets HandleReturnExternal.
ReturnExternalNoDecrement(t) ==
    /\ pc[t] = "body"
    /\ pc' = [pc EXCEPT ![t] = "idle"]
    /\ UNCHANGED <<hstate, magic, fAbort, cExt, cInt, slots, count, excl, th, ret, issued>>

\* VmmDllCore_HandleReturnExternal at the end of the call.
ReturnExternal(t) ==
    /\ pc[t] = "body"
    /\ cExt' = [cExt EXCEPT ![th[t]] = @ - 1]
    /\ pc' = [pc EXCEPT ![t] = "idle"]
    /\ UNCHANGED <<hstate, magic, fAbort, cInt, slots, count, excl, th, ret, issued>>

\* A call hands work to the work pool (VmmWork); the pool refuses new work
\* once the handle is aborted.
WorkStart(t) ==
    /\ pc[t] = "body" /\ ~fAbort[th[t]] /\ cInt[th[t]] < MaxInternal
    /\ cInt' = [cInt EXCEPT ![th[t]] = @ + 1]
    /\ UNCHANGED <<hstate, magic, fAbort, cExt, slots, count, excl, pc, th, ret, issued>>

\* A work-pool thread finishes or notices fAbort and leaves.
WorkExit(h) ==
    /\ cInt[h] > 0
    /\ cInt' = [cInt EXCEPT ![h] = @ - 1]
    /\ UNCHANGED <<hstate, magic, fAbort, cExt, slots, count, excl, pc, th, ret, issued>>

-----------------------------------------------------------------------------
(* VmmDllCore_Initialize, under the exclusive lock from start to end.      *)

Free == {h \in Handles : hstate[h] = "none"}

\* LocalAlloc(LMEM_ZEROINIT) and H->magic = VMM_MAGIC.
Alloc(h) ==
    /\ hstate' = [hstate EXCEPT ![h] = "alive"]
    /\ magic' = [magic EXCEPT ![h] = TRUE]
    /\ fAbort' = [fAbort EXCEPT ![h] = FALSE]

\* goto fail: CloseHandle(H) under the lock, then release it.
GotoFail(t, h) ==
    /\ excl' = t
    /\ pc' = [pc EXCEPT ![t] = "ch_remove"]
    /\ th' = [th EXCEPT ![t] = h]
    /\ ret' = [ret EXCEPT ![t] = "release"]

\* HandleAdd without the VMM_HANDLE_MAX_COUNT check.
HandleAddUnbounded(h) ==
    /\ slots' = [slots EXCEPT ![count] = h]
    /\ count' = count + 1

\* HandleAdd (step 9) succeeds.
HandleAdd(h) ==
    /\ count < MaxHandles
    /\ slots' = [slots EXCEPT ![count] = h]
    /\ count' = count + 1

CanInit(t) == pc[t] \in {"idle", "init"} /\ LockFree

\* LocalAlloc fails: CloseHandle(NULL) does nothing.
InitAllocFail(t) ==
    /\ CanInit(t) /\ Free = {}
    /\ pc' = [pc EXCEPT ![t] = "idle"]
    /\ UNCHANGED <<hstate, magic, fAbort, cExt, cInt, slots, count, excl, th, ret, issued>>

\* InitializeConfig fails, or the allow-list is full: H is not listed.
InitFailUnlisted(t) ==
    /\ CanInit(t)
    /\ \E h \in Free :
         /\ Alloc(h) /\ GotoFail(t, h)
         /\ UNCHANGED <<cExt, cInt, slots, count, issued>>

\* H is listed, then LcCreateEx or a later step (memory map, VmmWork,
\* VmmProcInitialize, FcInitialize) fails.
InitFailListed(t) ==
    /\ CanInit(t)
    /\ \E h \in Free :
         /\ Alloc(h) /\ HandleAdd(h) /\ GotoFail(t, h)
         /\ UNCHANGED <<cExt, cInt, issued>>

\* LcCreateEx asks for user input: the lock is released while the partly
\* initialized H stays in the allow-list (VmmDllCore_InitializeRequestUserInput).
InitUserInput(t) ==
    /\ UserInteract /\ CanInit(t)
    /\ \E h \in Free :
         /\ Alloc(h) /\ HandleAdd(h)
         /\ pc' = [pc EXCEPT ![t] = "ui"]
         /\ th' = [th EXCEPT ![t] = h]
         /\ UNCHANGED <<cExt, cInt, excl, ret, issued>>

\* Every step succeeds: the lock is released and H returned.
InitOk(t) ==
    /\ CanInit(t)
    /\ \E h \in Free :
         /\ Alloc(h) /\ HandleAdd(h)
         /\ pc' = [pc EXCEPT ![t] = "idle"]
         /\ issued' = issued \cup {h}
         /\ UNCHANGED <<cExt, cInt, excl, th, ret>>

\* RequestUserInput reads an empty line and returns NULL; H is left alone.
UiEmpty(t) ==
    /\ pc[t] = "ui"
    /\ pc' = [pc EXCEPT ![t] = "idle"]
    /\ UNCHANGED <<hstate, magic, fAbort, cExt, cInt, slots, count, excl, th, ret, issued>>

\* RequestUserInput got input: CloseHandle(H) under the lock, then
\* VMMDLL_InitializeEx again.
UiRetry(t) ==
    /\ pc[t] = "ui" /\ LockFree
    /\ excl' = t
    /\ pc' = [pc EXCEPT ![t] = "ch_remove"]
    /\ ret' = [ret EXCEPT ![t] = "ui"]
    /\ UNCHANGED <<hstate, magic, fAbort, cExt, cInt, slots, count, th, issued>>

-----------------------------------------------------------------------------
(* VMMDLL_Close, VmmDllCore_Close and VmmDllCore_CloseAll.                 *)

\* The user closes a handle it was given (and stops using it as open).
Close(t) ==
    /\ WithClose /\ pc[t] = "idle"
    /\ \E h \in issued :
         /\ issued' = issued \ {h}
         /\ th' = [th EXCEPT ![t] = h]
         /\ pc' = [pc EXCEPT ![t] = "cl_check"]
    /\ UNCHANGED <<hstate, magic, fAbort, cExt, cInt, slots, count, excl, ret>>

\* VMMDLL_Close: H->magic is read before the lock is taken.  A read of a
\* freed H sees whatever the memory now holds.
CloseCheck(t) ==
    /\ pc[t] = "cl_check"
    /\ \E ok \in IF hstate[th[t]] = "alive" THEN {magic[th[t]]} ELSE BOOLEAN :
         pc' = [pc EXCEPT ![t] = IF ok THEN "cl_lock" ELSE "idle"]
    /\ UNCHANGED <<hstate, magic, fAbort, cExt, cInt, slots, count, excl, th, ret, issued>>

\* VmmDllCore_Close: AcquireSRWLockExclusive, then CloseHandle.
CloseLock(t) ==
    /\ pc[t] = "cl_lock" /\ LockFree
    /\ excl' = t
    /\ pc' = [pc EXCEPT ![t] = "ch_remove"]
    /\ ret' = [ret EXCEPT ![t] = "release"]
    /\ UNCHANGED <<hstate, magic, fAbort, cExt, cInt, slots, count, th, issued>>

\* VmmDllCore_CloseAll takes the lock; every handle is closed for the user.
CloseAll(t) ==
    /\ WithCloseAll /\ pc[t] = "idle" /\ LockFree
    /\ excl' = t
    /\ issued' = {}
    /\ pc' = [pc EXCEPT ![t] = "ca_loop"]
    /\ UNCHANGED <<hstate, magic, fAbort, cExt, cInt, slots, count, th, ret>>

\* while((H = g_VMMDLL_CORE_HANDLES[0])) CloseHandle(H);
CloseAllNext(t) ==
    /\ pc[t] = "ca_loop" /\ slots[0] # NULL
    /\ th' = [th EXCEPT ![t] = slots[0]]
    /\ pc' = [pc EXCEPT ![t] = "ch_remove"]
    /\ ret' = [ret EXCEPT ![t] = "closeall"]
    /\ UNCHANGED <<hstate, magic, fAbort, cExt, cInt, slots, count, excl, issued>>

CloseAllDone(t) ==
    /\ pc[t] = "ca_loop" /\ slots[0] = NULL
    /\ excl' = NoThread
    /\ pc' = [pc EXCEPT ![t] = "idle"]
    /\ UNCHANGED <<hstate, magic, fAbort, cExt, cInt, slots, count, th, ret, issued>>

-----------------------------------------------------------------------------
(* VmmDllCore_CloseHandle, run by the lock owner.                          *)

\* Steps 1-3 with magic cleared before HandleRemove, which then keeps H.
CloseRemoveKeepListed(t) ==
    /\ pc[t] = "ch_remove"
    /\ fAbort' = [fAbort EXCEPT ![th[t]] = TRUE]
    /\ magic' = [magic EXCEPT ![th[t]] = FALSE]
    /\ pc' = [pc EXCEPT ![t] = "ch_wait_ext"]
    /\ UNCHANGED <<hstate, cExt, cInt, slots, count, excl, th, ret, issued>>

\* Steps 1-3: remove from the allow-list, set fAbort, clear magic, interrupt.
CloseRemove(t) ==
    /\ pc[t] = "ch_remove"
    /\ HandleRemove(th[t])
    /\ fAbort' = [fAbort EXCEPT ![th[t]] = TRUE]
    /\ magic' = [magic EXCEPT ![th[t]] = FALSE]
    /\ pc' = [pc EXCEPT ![t] = "ch_wait_ext"]
    /\ UNCHANGED <<hstate, cExt, cInt, excl, th, ret, issued>>

\* Step 4 without the wait for external threads.
CloseWaitExternalNoSpin(t) ==
    /\ pc[t] = "ch_wait_ext"
    /\ pc' = [pc EXCEPT ![t] = "ch_wait_int"]
    /\ UNCHANGED <<hstate, magic, fAbort, cExt, cInt, slots, count, excl, th, ret, issued>>

\* Step 4: spin while(H->cThreadExternal).
CloseWaitExternal(t) ==
    /\ pc[t] = "ch_wait_ext" /\ cExt[th[t]] = 0
    /\ pc' = [pc EXCEPT ![t] = "ch_wait_int"]
    /\ UNCHANGED <<hstate, magic, fAbort, cExt, cInt, slots, count, excl, th, ret, issued>>

\* Step 4: spin while(H->cThreadInternal); step 5: close the sub-systems
\* and LocalFree(H); then back to the caller of CloseHandle.
CloseFree(t) ==
    /\ pc[t] = "ch_wait_int" /\ cInt[th[t]] = 0
    /\ hstate' = [hstate EXCEPT ![th[t]] = "freed"]
    /\ excl' = IF ret[t] = "closeall" THEN excl ELSE NoThread
    /\ pc' = [pc EXCEPT ![t] = CASE ret[t] = "closeall" -> "ca_loop"
                                 [] ret[t] = "ui"       -> "init"
                                 [] OTHER               -> "idle"]
    /\ UNCHANGED <<magic, fAbort, cExt, cInt, slots, count, th, ret, issued>>

\* Step 4: one turn of either spin loop (GetTickCount64, the 30 s
\* diagnostic and VmmWork_Interrupt, SwitchToThread) changes no state.
CloseSpin(t) ==
    /\ \/ pc[t] = "ch_wait_ext" /\ cExt[th[t]] > 0
       \/ pc[t] = "ch_wait_int" /\ cInt[th[t]] > 0
    /\ UNCHANGED vars

-----------------------------------------------------------------------------

Next ==
    \/ \E t \in Threads :
         \/ \E h \in Handles : Reserve(t, h)
         \/ ReturnExternal(t) \/ WorkStart(t)
         \/ InitAllocFail(t) \/ InitFailUnlisted(t) \/ InitFailListed(t)
         \/ InitUserInput(t) \/ InitOk(t) \/ UiEmpty(t) \/ UiRetry(t)
         \/ Close(t) \/ CloseCheck(t) \/ CloseLock(t)
         \/ CloseAll(t) \/ CloseAllNext(t) \/ CloseAllDone(t)
         \/ CloseRemove(t) \/ CloseWaitExternal(t) \/ CloseFree(t)
         \/ CloseSpin(t)
    \/ \E h \in Handles : WorkExit(h)

\* Calls return, work-pool threads exit (they poll fAbort), and a thread
\* waiting for the SRW lock gets it when it is free infinitely often.
Fairness ==
    /\ \A t \in Threads :
         /\ WF_vars(ReturnExternal(t)) /\ WF_vars(CloseCheck(t))
         /\ SF_vars(CloseLock(t)) /\ WF_vars(CloseRemove(t))
         /\ WF_vars(CloseWaitExternal(t)) /\ WF_vars(CloseFree(t))
    /\ \A h \in Handles : WF_vars(WorkExit(h))

Spec == Init /\ [][Next]_vars /\ Fairness

-----------------------------------------------------------------------------
(* Properties.                                                             *)

TypeOK ==
    /\ hstate \in [Handles -> {"none", "alive", "freed"}]
    /\ magic \in [Handles -> BOOLEAN] /\ fAbort \in [Handles -> BOOLEAN]
    /\ cExt \in [Handles -> Nat] /\ cInt \in [Handles -> 0 .. MaxInternal]
    /\ slots \in [Slot -> Handles \cup {NULL}] /\ count \in 0 .. MaxHandles
    /\ excl \in Threads \cup {NoThread}
    /\ pc \in [Threads -> Pcs] /\ th \in [Threads -> Handles \cup {NULL}]
    /\ ret \in [Threads -> {"release", "closeall", "ui"}]
    /\ issued \subseteq Handles

\* Program points at which a thread dereferences its handle H.
DerefPcs == {"body", "ui", "cl_check", "ch_remove", "ch_wait_ext", "ch_wait_int"}

\* No use after free: an API call inside its reserve window, the
\* RequestUserInput path, VMMDLL_Close's magic check and every step of
\* CloseHandle touch H only while H is allocated, and no work-pool thread
\* runs for a freed H (spec 8.4: after Close no worker references H).
\* With UserInteract the RequestUserInput window, entered after
\* Initialize releases the lock, is open to VMMDLL_CloseAll (README,
\* finding 11), so MC_VmmHandle_CloseAll.cfg checks it without that window.
NoUseAfterFree ==
    /\ \A t \in Threads : pc[t] \in DerefPcs => hstate[th[t]] = "alive"
    /\ \A h \in Handles : cInt[h] > 0 => hstate[h] = "alive"

\* The allow-list g_VMMDLL_CORE_HANDLES holds exactly count distinct live
\* handles, packed from slot 0, each with valid magic and no abort flag.
\* This is what makes the increment of cThreadExternal in
\* HandleReserveExternal safe, and what CloseAll's loop on slot 0 needs.
AllowListSound ==
    /\ \A i \in Slot : (i < count) = (slots[i] # NULL)
    /\ \A i, j \in 0 .. count - 1 : i # j => slots[i] # slots[j]
    /\ \A h \in Listed : hstate[h] = "alive" /\ magic[h] /\ ~fAbort[h]

\* cThreadExternal of every handle counts exactly the threads inside a
\* reserve/return window on it (spec 8.2: threads_external is conserved).
ExternalCountExact ==
    \A h \in Handles : cExt[h] = Cardinality({t \in Threads : pc[t] = "body" /\ th[t] = h})

\* VmmDllCore_CloseAll never releases the lock with a handle still listed.
CloseAllEmpties ==
    [][\A t \in Threads : pc[t] = "ca_loop" /\ pc'[t] = "idle" => count' = 0]_vars

\* A VMMDLL_Close that passed its magic check returns: the spin on
\* cThreadExternal and cThreadInternal ends once calls return and the work
\* pool exits.
CloseTerminates ==
    \A t \in Threads : pc[t] = "cl_lock" ~> pc[t] = "idle"

\* Every listed handle belongs to someone: it was returned to the user,
\* or a thread is initializing or closing it.  A handle that nobody owns
\* occupies one of the VMM_HANDLE_MAX_COUNT slots until CloseAll.
Owned(h) ==
    \/ h \in issued
    \/ \E t \in Threads : th[t] = h /\ pc[t] \in {"ui", "cl_check", "cl_lock", "ch_remove"}
    \/ \E t \in Threads : pc[t] = "ca_loop"

NoOrphanHandle == \A h \in Listed : Owned(h)

=============================================================================
