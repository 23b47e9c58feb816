------------------------------ MODULE MSearch ------------------------------
(***************************************************************************)
(* The asynchronous memory-search plugin of one process                    *)
(* (src/vmm/m_proc_search.c).  API threads read and write the plugin's      *)
(* files; a write to search.txt queues MSearch_PerformSeach_ThreadProc on   *)
(* the work pool.  The search context is an OB object: its reference count  *)
(* is explicit here, the plugin ObMap holds one reference, every caller of  *)
(* MSearch_ContextGet one, and the worker one.  When a DECREF leaves one    *)
(* reference the refcount-1 callback (MSearch_ContextCleanup1_CB) raises    *)
(* fAbortRequested; at zero the context is freed.                           *)
(*                                                                         *)
(* Data is abstracted: the search configuration (alignment, range, skip     *)
(* mask) is a version number bumped by every accepted option write, and     *)
(* the pattern and result are left out.  Every step that holds             *)
(* ctxVmm->LockPlugin is one action; the unlocked checks are steps of      *)
(* their own.                                                              *)
(***************************************************************************)
EXTENDS Integers, FiniteSets

CONSTANTS
    Threads,   \* API threads calling the plugin's read/write/list callbacks
    Ctxs,      \* MOB_SEARCH_CONTEXT allocations Ob_Alloc may make
    NULL,
    MaxCfg     \* bound on accepted option writes per context

ASSUME NULL \notin Ctxs /\ MaxCfg \in Nat

\* The plugin files a thread may access: reset.txt, an option file
\* (align.txt, addr-min.txt, addr-max.txt, search-skip-bitmask.txt),
\* search.txt, and any read or list (which only hold a reference).
Files == {"reset", "option", "search", "read"}

VARIABLES
    cstate,      \* memory of each context: "none", "alive", "freed"
    rc,          \* OB reference count
    fActive, fCompleted, fAbortReq,   \* fActive, fCompleted, sctx.fAbortRequested
    ver,         \* version of the search configuration in sctx
    starts,      \* number of workers queued for the context
    wpc,         \* the context's worker: "none", "run", "flagged", "done"
    mapv,        \* the context stored under dwPID in the plugin ObMap
    pc, file, hold,  \* each API thread: program counter, file, pObCtx
    dropped      \* history: contexts a reset.txt write removed from the map

vars == <<cstate, rc, fActive, fCompleted, fAbortReq, ver, starts, wpc, mapv,
          pc, file, hold, dropped>>

Init ==
    /\ cstate = [c \in Ctxs |-> "none"]
    /\ rc = [c \in Ctxs |-> 0]
    /\ fActive = [c \in Ctxs |-> FALSE]
    /\ fCompleted = [c \in Ctxs |-> FALSE]
    /\ fAbortReq = [c \in Ctxs |-> FALSE]
    /\ ver = [c \in Ctxs |-> 0]
    /\ starts = [c \in Ctxs |-> 0]
    /\ wpc = [c \in Ctxs |-> "none"]
    /\ mapv = NULL
    /\ pc = [t \in Threads |-> "idle"]
    /\ file = [t \in Threads |-> "read"]
    /\ hold = [t \in Threads |-> NULL]
    /\ dropped = {}

-----------------------------------------------------------------------------
(* OB reference counting.  A step changes the counts by a delta; a         *)
(* context whose count a DECREF takes to 1 gets fAbortRequested from its   *)
(* refcount-1 callback, and one taken to 0 is freed.                       *)

Zero == [c \in Ctxs |-> 0]
Delta(x, n) == [c \in Ctxs |-> IF c = x THEN n ELSE 0]
Dec(x) == IF x = NULL THEN Zero ELSE Delta(x, -1)
Plus(d, e) == [c \in Ctxs |-> d[c] + e[c]]

\* Ob_DECREF / Ob_INCREF applied to the counts, with base the value of
\* fAbortRequested the step writes before the callbacks run.
ApplyRefs(d, base) ==
    /\ rc' = [c \in Ctxs |-> rc[c] + d[c]]
    /\ cstate' = [c \in Ctxs |-> IF d[c] < 0 /\ rc[c] + d[c] = 0 THEN "freed" ELSE cstate[c]]
    /\ fAbortReq' = [c \in Ctxs |-> IF d[c] < 0 /\ rc[c] + d[c] = 1 THEN TRUE ELSE base[c]]

-----------------------------------------------------------------------------
(* MSearch_ContextUpdate(ctxP, c): unless c is already in the map, remove  *)
(* and DECREF the map's context and push c (the map takes a reference).    *)

\* An update that removes the old context without its Ob_DECREF.
UpdDeltaNoDecref(c) ==
    IF c # NULL /\ mapv = c THEN Zero
    ELSE IF c = NULL THEN Zero ELSE Delta(c, 1)

UpdDelta(c) ==
    IF c # NULL /\ mapv = c THEN Zero
    ELSE Plus(Dec(mapv), IF c = NULL THEN Zero ELSE Delta(c, 1))

-----------------------------------------------------------------------------
(* MSearch_ContextGet: look the context up under LockPlugin; if there is   *)
(* none, Ob_Alloc a fresh one that is NOT put in the map.                  *)

FirstPc(f) == CASE f = "reset" -> "reset" [] f = "read" -> "release" [] OTHER -> "check"

\* A lookup that returns the map's context without a reference of its own.
GetHitBorrowed(t, f) ==
    /\ pc[t] = "idle" /\ mapv # NULL
    /\ hold' = [hold EXCEPT ![t] = mapv]
    /\ pc' = [pc EXCEPT ![t] = FirstPc(f)]
    /\ file' = [file EXCEPT ![t] = f]
    /\ UNCHANGED <<cstate, rc, fActive, fCompleted, fAbortReq, ver, starts, wpc, mapv, dropped>>

\* ObMap_GetByKey hit: the caller gets a new reference.
GetHit(t, f) ==
    /\ pc[t] = "idle" /\ mapv # NULL
    /\ rc' = [rc EXCEPT ![mapv] = @ + 1]
    /\ hold' = [hold EXCEPT ![t] = mapv]
    /\ pc' = [pc EXCEPT ![t] = FirstPc(f)]
    /\ file' = [file EXCEPT ![t] = f]
    /\ UNCHANGED <<cstate, fActive, fCompleted, fAbortReq, ver, starts, wpc, mapv, dropped>>

\* Miss: Ob_Alloc(LMEM_ZEROINIT) with refcount 1 and the default settings.
GetAlloc(t, f) ==
    /\ pc[t] = "idle" /\ mapv = NULL
    /\ \E c \in Ctxs :
         /\ cstate[c] = "none"
         /\ cstate' = [cstate EXCEPT ![c] = "alive"]
         /\ rc' = [rc EXCEPT ![c] = 1]
         /\ hold' = [hold EXCEPT ![t] = c]
    /\ pc' = [pc EXCEPT ![t] = FirstPc(f)]
    /\ file' = [file EXCEPT ![t] = f]
    /\ UNCHANGED <<fActive, fCompleted, fAbortReq, ver, starts, wpc, mapv, dropped>>

\* Miss and Ob_Alloc fails: the callback returns VMMDLL_STATUS_FILE_INVALID.
GetFail(t) ==
    /\ pc[t] = "idle" /\ mapv = NULL
    /\ \A c \in Ctxs : cstate[c] # "none"
    /\ UNCHANGED vars

-----------------------------------------------------------------------------
(* MSearch_Write.                                                          *)

\* reset.txt: if the written value parses as true, ContextUpdate(NULL)
\* removes and DECREFs the map's context; a running worker learns of it
\* through the refcount-1 callback once the last other reference goes.
ResetWrite(t) ==
    /\ pc[t] = "reset"
    /\ \/ /\ mapv' = NULL
          /\ ApplyRefs(UpdDelta(NULL), fAbortReq)
          /\ dropped' = IF mapv = NULL THEN dropped ELSE dropped \cup {mapv}
       \/ UNCHANGED <<mapv, rc, cstate, fAbortReq, dropped>>
    /\ pc' = [pc EXCEPT ![t] = "release"]
    /\ UNCHANGED <<fActive, fCompleted, ver, starts, wpc, file, hold>>

\* if(!pObCtx->fActive && !pObCtx->fCompleted), read without the lock.
OuterCheck(t) ==
    /\ pc[t] = "check"
    /\ pc' = [pc EXCEPT ![t] = IF ~fActive[hold[t]] /\ ~fCompleted[hold[t]]
                                THEN "locked" ELSE "release"]
    /\ UNCHANGED <<cstate, rc, fActive, fCompleted, fAbortReq, ver, starts, wpc, mapv, file, hold, dropped>>

\* The written value parses to nothing new (same value, an alignment that is
\* not a power of two, an empty hex string): no lock is taken.
WriteNoChange(t) ==
    /\ pc[t] = "locked"
    /\ pc' = [pc EXCEPT ![t] = "release"]
    /\ UNCHANGED <<cstate, rc, fActive, fCompleted, fAbortReq, ver, starts, wpc, mapv, file, hold, dropped>>

\* An option write applied without the check under the lock.
OptionWriteNoRecheck(t) ==
    /\ pc[t] = "locked" /\ file[t] = "option" /\ ver[hold[t]] < MaxCfg
    /\ LET c == hold[t] IN
         /\ ver' = [ver EXCEPT ![c] = @ + 1]
         /\ mapv' = c
         /\ ApplyRefs(UpdDelta(c), fAbortReq)
    /\ pc' = [pc EXCEPT ![t] = "release"]
    /\ UNCHANGED <<fActive, fCompleted, starts, wpc, file, hold, dropped>>

\* align.txt / addr-max.txt / addr-min.txt / search-skip-bitmask.txt with a
\* new value: under LockPlugin, if the context is still neither active nor
\* completed, store the value and ContextUpdate(pObCtx).
OptionWrite(t) ==
    /\ pc[t] = "locked" /\ file[t] = "option" /\ ver[hold[t]] < MaxCfg
    /\ LET c == hold[t] IN
       IF ~fActive[c] /\ ~fCompleted[c]
       THEN /\ ver' = [ver EXCEPT ![c] = @ + 1]
            /\ mapv' = c
            /\ ApplyRefs(UpdDelta(c), fAbortReq)
       ELSE UNCHANGED <<ver, mapv, rc, cstate, fAbortReq>>
    /\ pc' = [pc EXCEPT ![t] = "release"]
    /\ UNCHANGED <<fActive, fCompleted, starts, wpc, file, hold, dropped>>

\* search.txt with a pattern: under LockPlugin, recheck, ContextUpdate,
\* clear fAbortRequested, set fActive and queue the worker with its own
\* reference (Ob_INCREF).
SearchWrite(t) ==
    /\ pc[t] = "locked" /\ file[t] = "search"
    /\ LET c == hold[t] IN
       IF ~fActive[c] /\ ~fCompleted[c]
       THEN /\ mapv' = c
            /\ ApplyRefs(Plus(UpdDelta(c), Delta(c, 1)), [fAbortReq EXCEPT ![c] = FALSE])
            /\ fActive' = [fActive EXCEPT ![c] = TRUE]
            /\ starts' = [starts EXCEPT ![c] = @ + 1]
            /\ wpc' = [wpc EXCEPT ![c] = "run"]
       ELSE UNCHANGED <<mapv, rc, cstate, fAbortReq, fActive, starts, wpc>>
    /\ pc' = [pc EXCEPT ![t] = "release"]
    /\ UNCHANGED <<fCompleted, ver, file, hold, dropped>>

\* Ob_DECREF(pObCtx) at the end of MSearch_Write, MSearch_Read, MSearch_List.
Release(t) ==
    /\ pc[t] = "release"
    /\ ApplyRefs(Dec(hold[t]), fAbortReq)
    /\ hold' = [hold EXCEPT ![t] = NULL]
    /\ pc' = [pc EXCEPT ![t] = "idle"]
    /\ file' = [file EXCEPT ![t] = "read"]
    /\ UNCHANGED <<fActive, fCompleted, ver, starts, wpc, mapv, dropped>>

-----------------------------------------------------------------------------
(* MSearch_PerformSeach_ThreadProc.                                        *)

\* The worker clearing fActive before it sets fCompleted.
WorkerExitActiveFirst(c) ==
    \/ /\ wpc[c] = "run"
       /\ fActive' = [fActive EXCEPT ![c] = FALSE]
       /\ wpc' = [wpc EXCEPT ![c] = "flagged"]
       /\ UNCHANGED <<cstate, rc, fCompleted, fAbortReq, ver, starts, mapv, pc, file, hold, dropped>>
    \/ /\ wpc[c] = "flagged"
       /\ fCompleted' = [fCompleted EXCEPT ![c] = TRUE]
       /\ ApplyRefs(Dec(c), fAbortReq)
       /\ wpc' = [wpc EXCEPT ![c] = "done"]
       /\ UNCHANGED <<fActive, ver, starts, mapv, pc, file, hold, dropped>>

\* VmmSearch returns (done, or aborted at a page boundary because
\* fAbortRequested is set); then fCompleted = TRUE; then fActive = FALSE and
\* Ob_DECREF(ctxS).
WorkerExit(c) ==
    \/ /\ wpc[c] = "run"
       /\ fCompleted' = [fCompleted EXCEPT ![c] = TRUE]
       /\ wpc' = [wpc EXCEPT ![c] = "flagged"]
       /\ UNCHANGED <<cstate, rc, fActive, fAbortReq, ver, starts, mapv, pc, file, hold, dropped>>
    \/ /\ wpc[c] = "flagged"
       /\ fActive' = [fActive EXCEPT ![c] = FALSE]
       /\ ApplyRefs(Dec(c), fAbortReq)
       /\ wpc' = [wpc EXCEPT ![c] = "done"]
       /\ UNCHANGED <<fCompleted, ver, starts, mapv, pc, file, hold, dropped>>

-----------------------------------------------------------------------------

Next ==
    \/ \E t \in Threads :
         \/ \E f \in Files : GetHit(t, f) \/ GetAlloc(t, f)
         \/ GetFail(t) \/ ResetWrite(t) \/ OuterCheck(t) \/ WriteNoChange(t)
         \/ OptionWrite(t) \/ SearchWrite(t) \/ Release(t)
    \/ \E c \in Ctxs : WorkerExit(c)

\* Every callback runs to its end and the work pool runs queued workers.
Fairness ==
    /\ \A t \in Threads : WF_vars(OuterCheck(t) \/ ResetWrite(t) \/ Release(t)
                                  \/ OptionWrite(t) \/ SearchWrite(t))
    /\ \A c \in Ctxs : WF_vars(WorkerExit(c))

Spec == Init /\ [][Next]_vars /\ Fairness

-----------------------------------------------------------------------------
(* Properties.                                                             *)

TypeOK ==
    /\ cstate \in [Ctxs -> {"none", "alive", "freed"}]
    /\ rc \in [Ctxs -> Nat]
    /\ fActive \in [Ctxs -> BOOLEAN] /\ fCompleted \in [Ctxs -> BOOLEAN]
    /\ fAbortReq \in [Ctxs -> BOOLEAN]
    /\ ver \in [Ctxs -> 0 .. MaxCfg] /\ starts \in [Ctxs -> Nat]
    /\ wpc \in [Ctxs -> {"none", "run", "flagged", "done"}]
    /\ mapv \in Ctxs \cup {NULL}
    /\ pc \in [Threads -> {"idle", "reset", "check", "locked", "release"}]
    /\ file \in [Threads -> Files] /\ hold \in [Threads -> Ctxs \cup {NULL}]
    /\ dropped \subseteq Ctxs

\* The references a context really has: the map, each thread that got it
\* from MSearch_ContextGet, and its worker.
Holders(c) ==
    (IF mapv = c THEN 1 ELSE 0)
    + Cardinality({t \in Threads : hold[t] = c})
    + (IF wpc[c] \in {"run", "flagged"} THEN 1 ELSE 0)

\* The OB count of every live context equals its holders, and nothing holds
\* a freed context: the INCREF in ObMap_GetByKey, the map's reference taken
\* and dropped by ContextUpdate, the worker's INCREF and the DECREFs at the
\* end of the callbacks and of the worker balance over every interleaving.
RefCountExact ==
    /\ \A c \in Ctxs : cstate[c] = "alive" => rc[c] = Holders(c)
    /\ \A c \in Ctxs : Holders(c) > 0 => cstate[c] = "alive"

\* A context queues at most one worker: the recheck of fActive/fCompleted
\* under LockPlugin and the worker's order (fCompleted before fActive is
\* cleared) keep a second search.txt write from restarting it.
StartedOnce == \A c \in Ctxs : starts[c] <= 1

\* The configuration a worker searches with never changes once the context
\* is active or completed (the recheck under LockPlugin of every option write).
ConfigFrozen ==
    [][\A c \in Ctxs : fActive[c] \/ fCompleted[c] => ver'[c] = ver[c]]_vars

\* A running worker whose context nobody else references any more (dropped
\* by reset.txt or replaced in the map, and released by every callback)
\* has been told to abort by the refcount-1 callback (spec 4.9).
AbortOnLastRef ==
    \A c \in Ctxs : wpc[c] = "run" /\ Holders(c) = 1 => fAbortReq[c]

\* Only reset.txt takes a running search out of the map: a write to any
\* other file leaves it there (spec 8: of two concurrent search.txt writes
\* exactly one starts a worker, the other has no effect).
ActiveSearchKept ==
    [][\A c \in Ctxs : mapv = c /\ fActive[c] /\ mapv' # c =>
          \E t \in Threads : pc[t] = "reset" /\ pc'[t] = "release"]_vars

\* A context dropped by reset.txt never returns to the map, so a search
\* started after the reset never uses the settings written before it.
NoResurrection == \A c \in dropped : mapv # c

=============================================================================
