------------------------------ MODULE OsSrwLock ------------------------------
(***************************************************************************)
(* The exclusive SRW lock of the Linux build (src/vmm/oscompatibility.c):  *)
(* a lock word xchg taken by compare-and-swap 0 -> 1, a count c of the     *)
(* threads that hold or want the lock, and a futex on xchg to sleep on.    *)
(* A thread calls AcquireSRWLockExclusive, AcquireSRWLockExclusive_Try or  *)
(* AcquireSRWLockExclusive_Timeout, and after a successful acquire,        *)
(* ReleaseSRWLockExclusive.  Every atomic instruction and every futex call *)
(* is one step.  FUTEX_WAIT compares xchg with 1 and enqueues the caller   *)
(* in one atomic step; a timed wait may also return with an error         *)
(* (ETIMEDOUT, or EINTR on a signal).                                      *)
(***************************************************************************)
EXTENDS Naturals, FiniteSets

CONSTANTS Threads, NoOwner

ASSUME NoOwner \notin Threads

VARIABLES
    xchg,     \* SRWLock->xchg
    c,        \* SRWLock->c
    queue,    \* threads enqueued on the futex of xchg
    pc,       \* program counter of each thread
    op        \* the acquire function each thread is in: "acq", "try", "tmo"

vars == <<xchg, c, queue, pc, op>>

Ops == {"acq", "try", "tmo"}

Init ==
    /\ xchg = 0 /\ c = 0 /\ queue = {}
    /\ pc = [t \in Threads |-> "idle"]
    /\ op = [t \in Threads |-> "acq"]

\* An entry that does not count itself.
EnterNoCount(t) ==
    /\ pc[t] = "idle"
    /\ \E o \in Ops : op' = [op EXCEPT ![t] = o]
    /\ pc' = [pc EXCEPT ![t] = "cas"]
    /\ UNCHANGED <<xchg, queue, c>>

\* __sync_fetch_and_add_4(&SRWLock->c, 1) on entry to any acquire.
Enter(t) ==
    /\ pc[t] = "idle"
    /\ \E o \in Ops : op' = [op EXCEPT ![t] = o]
    /\ c' = c + 1
    /\ pc' = [pc EXCEPT ![t] = "cas"]
    /\ UNCHANGED <<xchg, queue>>

\* A compare-and-swap that writes 1 whatever xchg holds.
CasBlind(t) ==
    /\ pc[t] = "cas"
    /\ xchg' = 1
    /\ pc' = [pc EXCEPT ![t] = "cs"]
    /\ UNCHANGED <<c, queue, op>>

\* atomic_compare_exchange_strong(&xchg, 0, 1): taken, or on failure
\* _Try gives up and the others go to FUTEX_WAIT.
Cas(t) ==
    /\ pc[t] = "cas"
    /\ IF xchg = 0
       THEN xchg' = 1 /\ pc' = [pc EXCEPT ![t] = "cs"]
       ELSE /\ pc' = [pc EXCEPT ![t] = IF op[t] = "try" THEN "dec" ELSE "wait"]
            /\ UNCHANGED xchg
    /\ UNCHANGED <<c, queue, op>>

\* futex(&xchg, FUTEX_WAIT, 1): EAGAIN if xchg is no longer 1, else sleep.
FutexWait(t) ==
    /\ pc[t] = "wait"
    /\ IF xchg = 1
       THEN queue' = queue \cup {t} /\ pc' = [pc EXCEPT ![t] = "sleep"]
       ELSE pc' = [pc EXCEPT ![t] = "cas"] /\ UNCHANGED queue
    /\ UNCHANGED <<xchg, c, op>>

\* _Timeout: the timed (or interrupted) wait returns an error other than
\* EAGAIN; the thread leaves the futex queue and gives up.
WaitTimeout(t) ==
    /\ pc[t] = "sleep" /\ op[t] = "tmo" /\ t \in queue
    /\ queue' = queue \ {t}
    /\ pc' = [pc EXCEPT ![t] = "dec"]
    /\ UNCHANGED <<xchg, c, op>>

\* A failed acquire that returns without its decrement.
GiveUpNoDecrement(t) ==
    /\ pc[t] = "dec"
    /\ pc' = [pc EXCEPT ![t] = "idle"]
    /\ UNCHANGED <<xchg, queue, op, c>>

\* __sync_sub_and_fetch_4(&c, 1) of a failed _Try or _Timeout.
GiveUp(t) ==
    /\ pc[t] = "dec"
    /\ c' = c - 1
    /\ pc' = [pc EXCEPT ![t] = "idle"]
    /\ UNCHANGED <<xchg, queue, op>>

\* ReleaseSRWLockExclusive: compare-and-swap 1 -> 0.
ReleaseCas(t) ==
    /\ pc[t] = "cs"
    /\ IF xchg = 1
       THEN xchg' = 0 /\ pc' = [pc EXCEPT ![t] = "reldec"]
       ELSE pc' = [pc EXCEPT ![t] = "idle"] /\ UNCHANGED xchg
    /\ UNCHANGED <<c, queue, op>>

\* The decrement that wakes only when two others were counted.
ReleaseDecOffByOne(t) ==
    /\ pc[t] = "reldec"
    /\ c' = c - 1
    /\ pc' = [pc EXCEPT ![t] = IF c - 1 > 1 THEN "wake" ELSE "idle"]
    /\ UNCHANGED <<xchg, queue, op>>

\* if(__sync_sub_and_fetch_4(&c, 1)) futex(FUTEX_WAKE, 1)
ReleaseDec(t) ==
    /\ pc[t] = "reldec"
    /\ c' = c - 1
    /\ pc' = [pc EXCEPT ![t] = IF c - 1 # 0 THEN "wake" ELSE "idle"]
    /\ UNCHANGED <<xchg, queue, op>>

\* FUTEX_WAKE of one sleeper (none if the queue is empty); the woken thread
\* returns from FUTEX_WAIT and tries the compare-and-swap again.
FutexWake(t) ==
    /\ pc[t] = "wake"
    /\ IF queue = {}
       THEN pc' = [pc EXCEPT ![t] = "idle"] /\ UNCHANGED queue
       ELSE \E s \in queue :
              /\ queue' = queue \ {s}
              /\ pc' = [pc EXCEPT ![t] = "idle", ![s] = "cas"]
    /\ UNCHANGED <<xchg, c, op>>

Next ==
    \E t \in Threads :
        \/ Enter(t) \/ Cas(t) \/ FutexWait(t) \/ WaitTimeout(t) \/ GiveUp(t)
        \/ ReleaseCas(t) \/ ReleaseDec(t) \/ FutexWake(t)

\* Every thread inside a lock function runs; a holder releases.  A sleeper
\* moves only when woken or timed out, and a timeout is never forced.
Fairness ==
    \A t \in Threads :
        WF_vars(Cas(t) \/ FutexWait(t) \/ GiveUp(t) \/ ReleaseCas(t)
                \/ ReleaseDec(t) \/ FutexWake(t))

Spec == Init /\ [][Next]_vars /\ Fairness

-----------------------------------------------------------------------------
(* Properties.                                                             *)

TypeOK ==
    /\ xchg \in {0, 1} /\ c \in Nat /\ queue \subseteq Threads
    /\ pc \in [Threads -> {"idle", "cas", "wait", "sleep", "dec", "cs", "reldec", "wake"}]
    /\ op \in [Threads -> Ops]

\* c counts the threads between their increment on entry and the matching
\* decrement (failed _Try or _Timeout, or the release), plus one while
\* xchg is 1: the holder, or, for an event, the reset state.  The release
\* relies on it: c - 1 is at least the number of sleepers, so a release
\* with a sleeper always issues a FUTEX_WAKE.
Counted == {t \in Threads : pc[t] \in {"cas", "wait", "sleep", "dec", "reldec"}}
CountExact == c = Cardinality(Counted) + xchg

\* No lost wake-up: while some thread waits in AcquireSRWLockExclusive (or
\* a _Timeout that does not time out), some thread eventually holds the lock.
Progress ==
    (\E t \in Threads : pc[t] \in {"cas", "wait", "sleep"} /\ op[t] = "acq")
        ~> (\E t \in Threads : pc[t] = "cs")

\* The holder is the thread between a successful compare-and-swap 0 -> 1 and
\* the compare-and-swap 1 -> 0 of its release.
Holder == IF \E t \in Threads : pc[t] = "cs"
          THEN CHOOSE t \in Threads : pc[t] = "cs"
          ELSE NoOwner

AbsLock == INSTANCE ExclusiveLock WITH owner <- Holder

\* The futex lock implements the exclusive lock: no step hands the lock
\* from one holder to another or lets a second thread in.
ImplementsExclusiveLock == AbsLock!Spec

=============================================================================
