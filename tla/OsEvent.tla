------------------------------- MODULE OsEvent -------------------------------
(***************************************************************************)
(* One event of the Linux build (oscompatibility.c): an SRW lock whose     *)
(* word xchg is 0 while the event is signalled and 1 while it is reset.    *)
(*   SetEvent            = ReleaseSRWLockExclusive                         *)
(*   ResetEvent          = AcquireSRWLockExclusive_Try                     *)
(*   WaitForSingleObject = AcquireSRWLockExclusive_Timeout, then, for a    *)
(*                         manual-reset event, ReleaseSRWLockExclusive     *)
(* The lock steps are those of OsSrwLock; this module adds the calls that  *)
(* use them.  The handle is valid (magic and type checks pass).            *)
(***************************************************************************)
EXTENDS Naturals, FiniteSets

CONSTANTS
    Threads,
    MaxCalls       \* bound on the number of event calls made

VARIABLES xchg, c, queue, pc, op,
    manual,   \* fEventManualReset, fixed by CreateEvent(bManualReset)
    call,     \* the event function each thread is in
    setDone,  \* a SetEvent has set the event and no ResetEvent has
              \* succeeded since
    calls     \* event calls started so far

L == INSTANCE OsSrwLock WITH NoOwner <- "none"

vars == <<xchg, c, queue, pc, op, manual, call, setDone, calls>>

Calls == {"none", "wait", "set", "reset"}

\* CreateEvent: ResetEvent on a zeroed lock takes it (c = 1, xchg = 1);
\* SetEvent on a zeroed lock finds xchg = 0 and does nothing.
Init ==
    /\ manual \in BOOLEAN
    /\ \/ xchg = 0 /\ c = 0
       \/ xchg = 1 /\ c = 1
    /\ queue = {} /\ setDone = FALSE /\ calls = 0
    /\ pc = [t \in Threads |-> "idle"]
    /\ op = [t \in Threads |-> "acq"]
    /\ call = [t \in Threads |-> "none"]

\* A new call, within the bound.
Call == calls < MaxCalls /\ calls' = calls + 1

\* WaitForSingleObject enters AcquireSRWLockExclusive_Timeout.
StartWait(t) ==
    /\ Call /\ L!Enter(t) /\ op'[t] = "tmo"
    /\ call' = [call EXCEPT ![t] = "wait"]
    /\ UNCHANGED <<manual, setDone>>

\* ResetEvent enters AcquireSRWLockExclusive_Try.
StartReset(t) ==
    /\ Call /\ L!Enter(t) /\ op'[t] = "try"
    /\ call' = [call EXCEPT ![t] = "reset"]
    /\ UNCHANGED <<manual, setDone>>

\* SetEvent enters ReleaseSRWLockExclusive.
StartSet(t) ==
    /\ Call /\ pc[t] = "idle"
    /\ pc' = [pc EXCEPT ![t] = "cs"]
    /\ call' = [call EXCEPT ![t] = "set"]
    /\ UNCHANGED <<xchg, c, queue, op, manual, setDone>>

\* The compare-and-swap, futex wait, timeout and failed-acquire decrement of
\* the lock, in whichever call they occur.
LockStep(t) ==
    /\ L!Cas(t) \/ L!FutexWait(t) \/ L!WaitTimeout(t) \/ L!GiveUp(t)
    /\ UNCHANGED <<manual, call, setDone, calls>>

\* A wait that keeps the lock whatever the kind of event.
ReturnKeep(t) ==
    /\ pc[t] = "cs" /\ call[t] \in {"wait", "reset"}
    /\ pc' = [pc EXCEPT ![t] = "idle"]
    /\ setDone' = (setDone /\ call[t] # "reset")
    /\ UNCHANGED <<xchg, c, queue, op, manual, call, calls>>

\* A successful ResetEvent, or WaitForSingleObject on an auto-reset event,
\* returns holding the lock: the event is now reset.
Return(t) ==
    /\ pc[t] = "cs"
    /\ \/ call[t] = "reset"
       \/ call[t] = "wait" /\ ~manual
    /\ pc' = [pc EXCEPT ![t] = "idle"]
    /\ setDone' = (setDone /\ call[t] # "reset")
    /\ UNCHANGED <<xchg, c, queue, op, manual, call, calls>>

\* The release of SetEvent, and of WaitForSingleObject on a manual-reset
\* event, which sets the event again.
ReleaseStep(t) ==
    /\ \/ call[t] = "set"
       \/ call[t] = "wait" /\ manual
    /\ L!ReleaseCas(t)
    /\ setDone' = (setDone \/ (call[t] = "set" /\ xchg = 1))
    /\ UNCHANGED <<manual, call, calls>>

WakeStep(t) ==
    /\ L!ReleaseDec(t) \/ L!FutexWake(t)
    /\ UNCHANGED <<manual, call, setDone, calls>>

Next ==
    \E t \in Threads :
        \/ StartWait(t) \/ StartReset(t) \/ StartSet(t)
        \/ LockStep(t) \/ Return(t) \/ ReleaseStep(t) \/ WakeStep(t)

\* A thread inside an event call runs on; none is made to call, and a timed
\* wait is never forced to time out.  The lock does not queue fairly: a
\* woken waiter can lose the compare-and-swap to a newly arriving one, so a
\* waiter is only sure to return once calls stop arriving (MaxCalls).
Fairness ==
    \A t \in Threads :
        WF_vars(\/ L!Cas(t) /\ UNCHANGED <<manual, call, setDone, calls>>
                \/ L!FutexWait(t) /\ UNCHANGED <<manual, call, setDone, calls>>
                \/ L!GiveUp(t) /\ UNCHANGED <<manual, call, setDone, calls>>
                \/ Return(t) \/ ReleaseStep(t) \/ WakeStep(t))

Spec == Init /\ [][Next]_vars /\ Fairness

-----------------------------------------------------------------------------
TypeOK ==
    /\ L!TypeOK
    /\ manual \in BOOLEAN
    /\ call \in [Threads -> Calls] /\ setDone \in BOOLEAN
    /\ calls \in 0..MaxCalls

\* The lock count stays exact under the event's use of the lock, in which
\* SetEvent releases a lock nobody acquired: c - 1 at a release still
\* covers every sleeper.
CountExact == L!CountExact

Waiting(t) == call[t] = "wait" /\ pc[t] \in {"cas", "wait", "sleep"}

\* Manual-reset event: once SetEvent has set it, every thread waiting in
\* WaitForSingleObject returns, each woken by the release of the waiter
\* before it, unless a ResetEvent succeeds first.
WaitersReleased ==
    \A t \in Threads :
        (manual /\ setDone /\ Waiting(t)) ~> (pc[t] = "idle" \/ ~setDone)

\* Auto-reset event: a set event with a waiter is eventually consumed by
\* one (or every waiter has given up).
SignalConsumed ==
    (~manual /\ xchg = 0 /\ \E t \in Threads : Waiting(t))
        ~> (xchg = 1 \/ ~\E t \in Threads : Waiting(t))
=============================================================================
