-------------------------------- MODULE SList --------------------------------
(***************************************************************************)
(* The interlocked singly linked list of the Linux build                   *)
(* (src/vmm/oscompatibility.c 610-657) on the SRW lock of OsSrwLock.       *)
(* InterlockedPushEntrySList and InterlockedPopEntrySList take             *)
(* ListHead->LockSRW with AcquireSRWLockExclusive, update the USHORT count  *)
(* ListHead->c and the Next pointers, and release the lock.  Each write to *)
(* the list is one step, so the lock is what keeps two calls apart.  Other *)
(* code takes the same kind of lock with any acquire function ("lock"      *)
(* calls), so this module is also the lock's use by its callers.  The     *)
(* USHORT width is a constant.                                             *)
(***************************************************************************)
EXTENDS Naturals, Sequences, FiniteSets

CONSTANTS
    Threads,
    ListThreads,  \* the threads that call the list functions
    LockThreads,  \* the threads of other code that take the lock
    Entries,    \* the SLIST_ENTRYs the callers push
    NULL,
    DepthMod,   \* 2^16, the range of the USHORT ListHead->c
    MaxCalls    \* bound on the push and pop calls made

VARIABLES xchg, c, queue, pc, op,   \* ListHead->LockSRW
    next,    \* ListHead->Next
    link,    \* the Next field of each entry
    depth,   \* ListHead->c
    call,    \* the function each thread is in: "none", "push", "pop", "lock"
    step,    \* the statement a push or pop is at while it holds the lock
    loc,     \* the local e of each push or pop
    ent,     \* the ListEntry each push pushes
    ret,     \* what each thread's last pop returned
    calls    \* push and pop calls started so far

ASSUME ListThreads \cup LockThreads = Threads

L == INSTANCE OsSrwLock WITH NoOwner <- NULL

lockVars == <<xchg, c, queue, pc, op>>
listVars == <<next, link, depth, step, loc, ent, ret>>
vars == <<xchg, c, queue, pc, op, next, link, depth, call, step, loc, ent, ret, calls>>

\* The entries reachable from ListHead->Next, at most one more than exist.
RECURSIVE ChainFrom(_, _)
ChainFrom(p, n) == IF p = NULL \/ n = 0 THEN <<>> ELSE <<p>> \o ChainFrom(link[p], n - 1)
Chain == ChainFrom(next, Cardinality(Entries) + 1)

ChainSet == {Chain[i] : i \in DOMAIN Chain}

\* An entry its caller owns: on no list and not in a push under way.
Pushing == {t \in Threads : call[t] = "push" /\ ent[t] # NULL}
Owned == Entries \ (ChainSet \cup {ent[t] : t \in Pushing})

\* InitializeSListHead: ZeroMemory of the head; the lock word and count are 0.
Init ==
    /\ L!Init
    /\ next = NULL /\ link = [e \in Entries |-> NULL] /\ depth = 0
    /\ call = [t \in Threads |-> "none"] /\ step = [t \in Threads |-> "none"]
    /\ loc = [t \in Threads |-> NULL] /\ ent = [t \in Threads |-> NULL]
    /\ ret = [t \in Threads |-> NULL] /\ calls = 0

\* QueryDepthSList: ListHead->c, read without the lock.
QueryDepthSList == depth

-----------------------------------------------------------------------------
\* A push or pop enters AcquireSRWLockExclusive.
StartCall(t, f, e) ==
    /\ calls < MaxCalls /\ calls' = calls + 1
    /\ L!Enter(t) /\ op'[t] = "acq"
    /\ call' = [call EXCEPT ![t] = f]
    /\ step' = [step EXCEPT ![t] = IF f = "push" THEN "inc" ELSE "chk"]
    /\ ent' = [ent EXCEPT ![t] = e]
    /\ UNCHANGED <<next, link, depth, loc, ret>>

StartPush(t) == \E e \in Owned : StartCall(t, "push", e)
StartPop(t) == StartCall(t, "pop", NULL)

\* Other code enters one of the three acquire functions.
StartLock(t) ==
    /\ L!Enter(t)
    /\ call' = [call EXCEPT ![t] = "lock"]
    /\ UNCHANGED <<listVars, calls>>

\* The compare-and-swap, futex wait, timeout and failed-acquire decrement.
LockStep(t) ==
    /\ L!Cas(t) \/ L!FutexWait(t) \/ L!WaitTimeout(t) \/ L!GiveUp(t)
    /\ UNCHANGED <<listVars, call, calls>>

Body(t, s) == pc[t] = "cs" /\ step[t] = s /\ call[t] \in {"push", "pop"}
Goto(t, s) == step' = [step EXCEPT ![t] = s]

\* A push that links the entry without counting it.
PushIncNoCount(t) ==
    /\ Body(t, "inc")
    /\ Goto(t, "link")
    /\ UNCHANGED <<lockVars, next, link, depth, call, loc, ent, ret, calls>>

\* InterlockedPushEntrySList under the lock: ListHead->c++; e = Next and
\* ListEntry->Next = e; ListHead->Next = ListEntry.
PushInc(t) ==
    /\ Body(t, "inc")
    /\ depth' = (depth + 1) % DepthMod /\ Goto(t, "link")
    /\ UNCHANGED <<lockVars, next, link, call, loc, ent, ret, calls>>

PushLink(t) ==
    /\ Body(t, "link")
    /\ loc' = [loc EXCEPT ![t] = next]
    /\ link' = [link EXCEPT ![ent[t]] = next] /\ Goto(t, "publish")
    /\ UNCHANGED <<lockVars, next, depth, call, ent, ret, calls>>

PushPublish(t) ==
    /\ Body(t, "publish")
    /\ next' = ent[t] /\ Goto(t, "rel")
    /\ UNCHANGED <<lockVars, link, depth, call, loc, ent, ret, calls>>

\* InterlockedPopEntrySList under the lock: if(ListHead->c) { c--; if((e =
\* Next)) { Next = Next->Next; e->Next = NULL; } }, returning e (NULL when
\* c is 0 or Next is NULL).
PopCheck(t) ==
    /\ Body(t, "chk")
    /\ IF depth # 0
       THEN depth' = depth - 1 /\ Goto(t, "take") /\ UNCHANGED ret
       ELSE ret' = [ret EXCEPT ![t] = NULL] /\ Goto(t, "rel") /\ UNCHANGED depth
    /\ UNCHANGED <<lockVars, next, link, call, loc, ent, calls>>

PopTake(t) ==
    /\ Body(t, "take")
    /\ loc' = [loc EXCEPT ![t] = next]
    /\ IF next # NULL
       THEN Goto(t, "unlink") /\ UNCHANGED ret
       ELSE ret' = [ret EXCEPT ![t] = NULL] /\ Goto(t, "rel")
    /\ UNCHANGED <<lockVars, next, link, depth, call, ent, calls>>

PopUnlink(t) ==
    /\ Body(t, "unlink")
    /\ next' = link[next]
    /\ link' = [link EXCEPT ![loc[t]] = NULL]
    /\ ret' = [ret EXCEPT ![t] = loc[t]] /\ Goto(t, "rel")
    /\ UNCHANGED <<lockVars, depth, call, loc, ent, calls>>

\* ReleaseSRWLockExclusive at the end of a push, a pop, or other code's
\* critical section, and its decrement and FUTEX_WAKE; a push or pop then
\* returns (its locals are dead; ret keeps what it returned).
Release(t) ==
    /\ call[t] = "lock" \/ step[t] = "rel"
    /\ L!ReleaseCas(t)
    /\ step' = [step EXCEPT ![t] = "none"]
    /\ loc' = [loc EXCEPT ![t] = NULL] /\ ent' = [ent EXCEPT ![t] = NULL]
    /\ UNCHANGED <<next, link, depth, ret, call, calls>>

WakeStep(t) ==
    /\ L!ReleaseDec(t) \/ L!FutexWake(t)
    /\ UNCHANGED <<listVars, call, calls>>

Next ==
    \/ \E t \in ListThreads : StartPush(t) \/ StartPop(t)
    \/ \E t \in LockThreads : StartLock(t)
    \/ \E t \in Threads :
        \/ LockStep(t)
        \/ PushInc(t) \/ PushLink(t) \/ PushPublish(t)
        \/ PopCheck(t) \/ PopTake(t) \/ PopUnlink(t)
        \/ Release(t) \/ WakeStep(t)

\* As in OsSrwLock: a thread inside a lock function or a list call runs on,
\* a holder releases; a sleeper moves only when woken or timed out.
Fairness ==
    \A t \in Threads :
        WF_vars(\/ (L!Cas(t) \/ L!FutexWait(t) \/ L!GiveUp(t)) /\ UNCHANGED <<listVars, call, calls>>
                \/ PushInc(t) \/ PushLink(t) \/ PushPublish(t)
                \/ PopCheck(t) \/ PopTake(t) \/ PopUnlink(t)
                \/ Release(t) \/ WakeStep(t))

Spec == Init /\ [][Next]_vars /\ Fairness

-----------------------------------------------------------------------------
(* Properties.                                                             *)

TypeOK ==
    /\ L!TypeOK
    /\ next \in Entries \cup {NULL} /\ link \in [Entries -> Entries \cup {NULL}]
    /\ depth \in 0..(DepthMod - 1) /\ calls \in 0..MaxCalls
    /\ call \in [Threads -> {"none", "push", "pop", "lock"}]
    /\ ret \in [Threads -> Entries \cup {NULL}]

\* The lock's own invariants and properties hold under its use by the list
\* calls and by other code (see OsSrwLock).
CountExact == L!CountExact

\* No lost wake-up of a thread waiting in AcquireSRWLockExclusive.
Progress == L!Progress

\* The lock is exclusive under this use.
ImplementsExclusiveLock == L!ImplementsExclusiveLock

\* What each thread's pop returned, "pending" while a pop has not decided.
Result == [t \in Threads |->
             IF call[t] = "pop" /\ step[t] \in {"chk", "take", "unlink"} THEN "pending" ELSE ret[t]]

Stack == INSTANCE LifoStack WITH stk <- Chain, ret <- Result

\* InterlockedPushEntrySList and InterlockedPopEntrySList implement a LIFO
\* stack: the list read from ListHead->Next changes only by one push at the
\* head or one pop of the head, the pop returning it, and a pop returns NULL
\* only when the list is empty, which needs the USHORT count ListHead->c to
\* be non-zero exactly when ListHead->Next is not NULL.
ImplementsStack == Stack!Spec


=============================================================================
