# TLA+ models of MemProcFS

This directory holds TLA+ models of the concurrent and arithmetic core of
MemProcFS. The models are written from the C sources under `src/`. Each run
listed in `PROJECT.json` is checked with TLC.

## 1. The system and its parts

MemProcFS is a library (`vmm.dll` / `vmm.so`) that an API user opens with
`VMMDLL_Initialize` and then calls from any number of threads. The parts in
this repository are:

| Part | Source | State | Operations | Interacts with |
|---|---|---|---|---|
| Handle layer | `vmmdll_core.c`, `vmmdll.c` 74-145 | global allow-list `g_VMMDLL_CORE_HANDLES[32]` and its count; the SRW lock `g_VMMDLL_CORE_LOCK_SRW`; per handle `magic`, `fAbort`, `cThreadExternal`, `cThreadInternal` | Initialize (config, HandleAdd, LcCreateEx, memory map, work pool, proc, forensic; `goto fail`; the Windows user-input retry), Reserve/Return around every API call, VMMDLL_Close, CloseAll, CloseHandle | every exported call; the work pool (`cThreadInternal`, abort) |
| External allocation registry | `vmmdll_core.c` 680-738 | global ObMap of allocations handed to the user | MemAllocExternal, MemFreeExternal, MemSizeExternal, leak scan at close | every `VMMDLL_Map_Get*`, `MemSearch`, `ProcessGetInformationString` in `vmmdll.c` |
| API wrappers | `vmmdll.c` | none of their own | ConfigGet/Set (section 10), PFN map (section 11), ProcessGetInformation (section 14), VFS list/read/write routing, memory read/write/scatter/search, Map_Get* (two-call size protocol), process queries | handle layer; vmm code outside this repository |
| Linux compatibility | `oscompatibility.c` | SRW lock word `xchg` and waiter count `c` on a futex; events built on the SRW lock; SList; recursive critical section; SID conversions | Acquire/Try/Timeout/Release, Set/Reset/Wait events, push/pop, string/SID conversions | everything above on Linux |
| Async search plugin | `m_proc_search.c` | per-process search context in a plugin ObMap: `fActive`, `fCompleted`, `fAbortRequested`, range, alignment, pattern, result | write align/addr-min/addr-max/skip-mask/search/reset, read status/result, the worker thread, the context's refcount-1 and refcount-0 callbacks | work pool, OB reference counts |
| vmemd plugin | `m_vmemd.c` | none (reads maps per call) | `qfind` binary search over sorted maps, PTE/VAD read and write with end-of-region truncation | API wrappers |
| ldrmodules plugin | `m_ldrmodules.c` | none | line-paged read of EAT/IAT/directories/sections, list, write | module maps |
| thread plugin | `m_proc_thread.c` | none (reads the thread map per call) | list of the threads and of a thread's files; read and write of `info.txt`, `teb`, `stack`, `ethread`, `kstack` and `threads.txt` | thread map, `VmmReadAsFile` |
| handles/vads, net, registry plugins | `m_file_handles_vads.c`, `m_sys_net.c`, `m_fc_registry.c` | none | formatting of maps into text/JSON/SQL | maps |

The behaviours that make this code hard are:
- user threads racing `Close`/`CloseAll` on the global allow-list;
- the search worker racing writes and `reset.txt` on a reference-counted context;
- futex sleep and wake in the SRW lock;
- wrap-around arithmetic in `qfind` and at the top of the address space in vmemd.

## 2. Plan

Modules, most important first:

1. `VmmHandle`: the handle layer (done, section 3).
2. `MSearch`: the async search plugin, with the OB reference count of its
   context and the refcount-1 abort callback (done, section 4). Cancellation
   is checked as the safety property `AbortOnLastRef`.
3. `OsSrwLock` and the abstract `ExclusiveLock` it refines: the futex SRW
   lock of the Linux build (done, section 5).
4. `OsEvent`: Linux events built on that lock (done, section 5).
5. `QFind` and `VMemD`: `VMemD_Util_qfind` against a reference search, the
   listing merge walk, and the PTE/VAD read/write arithmetic on a reduced
   address width (done, section 6). It answers the open question of spec 9.
6. `ExtAlloc`: the external allocation registry under the `goto fail` exits of
   the calls that return its blocks, with address reuse (done, section 7).
7. `LdrModules`: the line-paged tables of the ldrmodules plugin, checked in
   the same run as vmemd through `MC_Plugins` (done, section 8).
8. `OsSid`, `Config` and `MapPfn`: the SID conversions, the handle's
   configuration options and the PFN map's size protocol. Each is a case kind
   of `MC_Plugins` (sections 9-11).
9. `SList` and the abstract `LifoStack`, composed with `OsSrwLock` in the
   lock's run (done, section 5).
10. `ProcThread`: the thread plugin's list, read and write, a case kind of
    `MC_Plugins` (done, section 13).
11. `ProcInfo`: `VMMDLL_ProcessGetInformation`, a case kind of `MC_Plugins`
    (done, section 14).
12. Next:
    - the VFS routing of `vmmdll.c`;
    - WaitForMultipleObjects, which needs several events and their locks in
      one model.

## 3. VmmHandle: the handle layer

`VmmHandle.tla` models `vmmdll_core.c` lines 28-202 and 475-652, together with
`VMMDLL_Close` and the `CALL_IMPLEMENTATION_VMM` macros in `vmmdll.c`.

State:
- A handle is a model value. Its memory is `"none"`, `"alive"` or `"freed"`
  (`hstate`), and it carries its `magic`, `fAbort`, `cExt` and `cInt`.
- The allow-list is the array `slots` plus `count`.
- The SRW lock is represented by its exclusive owner `excl`. The shared side is
  held only inside `HandleReserveExternal`, which never blocks while holding
  it, so `Reserve` is one step that is enabled while `excl = NoThread`.

Actions:
- `Reserve` models `HandleReserveExternal`, including the increment that comes
  before the magic/abort check.
- `ReturnExternal` models the tail of the macro.
- `WorkStart` and `WorkExit` model the work pool, which is not in this
  repository and so is taken from spec 4.8.
- Initialize is one action per exit:
  - `InitAllocFail`: LocalAlloc fails.
  - `InitFailUnlisted`: config fails, or the allow-list is full.
  - `InitFailListed`: LcCreateEx or a later step fails.
  - `InitUserInput`: the Windows user-input request.
  - `InitOk`: every step succeeds.

  Initialize holds the exclusive lock from its first line to its last, so
  each exit is one step. A `goto fail` continues into CloseHandle.
- `UiEmpty` and `UiRetry` model `InitializeRequestUserInput`.
- `Close`, `CloseCheck` and `CloseLock` model `VMMDLL_Close` and
  `VmmDllCore_Close`. The magic check and the lock are separate steps, as in
  the code.
- `CloseAll`, `CloseAllNext` and `CloseAllDone` model the loop on slot 0.
- `CloseRemove`, `CloseWaitExternal`, `CloseSpin` and `CloseFree` model the
  steps of `CloseHandle`, with `ret` recording which caller CloseHandle
  returns to.

Properties:
- `NoUseAfterFree` is an invariant. A thread touches H only while H is
  allocated; this covers an API body, the user-input path, the magic check and
  CloseHandle. Work-pool threads never run for a freed H. The
  `vmmhandle_closeall` run checks it with `UserInteract = FALSE`, that is
  without the user-input window: with that window CloseAll can free H while
  Initialize waits for input (finding 11).
- `AllowListSound` is an invariant. The list is packed, has no duplicates, and
  holds only live handles with valid magic and no abort flag. That is what
  makes the unconditional increment in Reserve harmless.
- `ExternalCountExact` is an invariant: `cThreadExternal` equals the number of
  threads inside a reserve window (spec 8.2).
- `CloseAllEmpties` is an action property: CloseAll releases the lock only with
  an empty list.
- `CloseTerminates` is a liveness property: a Close that passed its check
  returns.
- `NoOrphanHandle` is an invariant: every listed handle is owned by the user or
  by a thread that is initializing or closing it.

Runs. All use 2 threads, 3 handle allocations, an allow-list of 2 and one
work-pool thread per handle.

| Run | cfg | Result | What it shows |
|---|---|---|---|
| vmmhandle_close | `MC_VmmHandle.cfg` | pass, 53 467 states | Initialize on every path, API calls, work pool, VMMDLL_Close. |
| vmmhandle_closeall | `MC_VmmHandle_CloseAll.cfg` | pass | CloseAll against Initialize (without the user-input window) and API calls: CloseAll frees no handle an API call or worker holds. |
| vmmhandle_close_race | `MC_VmmHandle_CloseRace.cfg` | violation of `NoUseAfterFree` | Close is called on H, then CloseAll closes and frees H, then Close's magic check reads freed memory. If Close instead passes the check first, the same race makes it run CloseHandle on the freed H. |
| vmmhandle_orphan | `MC_VmmHandle_Orphan.cfg` | violation of `NoOrphanHandle` | Initialize takes the user-input path and the user enters an empty line. H stays in the allow-list. |

Why the bounds are enough:
- Two slots with three allocations is the smallest setting where every case
  happens:
  - the list fills, so `HandleAdd` fails;
  - a removal from slot 0 moves the last entry;
  - a failed Initialize still leaves a handle for the other thread.
- Two threads are enough for every two-party race in the list above.

Fairness:
- Weak fairness on `ReturnExternal`, because every API body terminates.
- Weak fairness on `WorkExit`, because work-pool tasks poll `fAbort`.
- Weak fairness on the steps of CloseHandle.
- Strong fairness on taking the exclusive lock in `CloseLock`, because the lock
  is free infinitely often but other threads may take it first.
- User calls are not fair: the user may stop calling.

The spin loops of CloseHandle are the explicit stuttering action `CloseSpin`.
It has no effect on any variable. Without it, a handle that never drains
would show up as a deadlock instead of as a liveness violation.

Deadlock is checked in every run.

Not modelled:
- Address reuse by LocalAlloc. This is listed as a hazard with no property.
- Statistics and logging.
- The argument parsing of `InitializeConfig`. Its outcome is a
  nondeterministic success or failure.

## 4. MSearch: the asynchronous search plugin

`MSearch.tla` models `m_proc_search.c` for one process.

State:
- A search context is a model value: `cstate`, its OB reference count `rc`,
  `fActive`, `fCompleted`, `fAbortReq` (`sctx.fAbortRequested`), a version
  number `ver` standing for its settings, and its worker `wpc`.
- `mapv` is the plugin ObMap entry of the PID.
- `pc`, `file` and `hold` are the API thread in a callback and the `pObCtx` it
  holds.
- `starts` and `dropped` are history variables for the properties.

The OB mechanism (`ob.c`) is not in the repository. From spec 4.7 and the
callbacks the context registers:
- a DECREF that leaves one reference runs `MSearch_ContextCleanup1_CB`, which
  sets `fAbortRequested`;
- a DECREF that leaves none frees the context.

`ApplyRefs` applies both rules to every count change of a step.

Actions:
- `GetHit`, `GetAlloc` and `GetFail` model `MSearch_ContextGet`. `GetAlloc`
  covers a miss, where the fresh context is not put in the map.
- `ResetWrite` models `reset.txt`.
- `OuterCheck` models the unlocked `!fActive && !fCompleted` check.
- `WriteNoChange` covers a write whose value parses to nothing new.
- `OptionWrite` models the align, addr-min, addr-max and skip-mask writes.
- `SearchWrite` models `search.txt`.

  Each of these two is one step under `LockPlugin`: recheck, update,
  `ContextUpdate`, and for `search.txt` the start of the worker.
- `Release` is the final `Ob_DECREF` of Write, Read and List.
- `WorkerExit` models the two unlocked flag writes of the worker and its
  DECREF.

Properties:
- `RefCountExact` is an invariant. The count equals the map, holders and worker
  references, and no holder has a freed context.
- `StartedOnce` is an invariant: a context queues at most one worker.
- `ConfigFrozen` is an action property: settings never change once the context
  is active or completed.
- `AbortOnLastRef` is an invariant. A running worker whose only reference is
  its own has `fAbortRequested` set; this is the cancellation that spec 4.9
  describes.
- `ActiveSearchKept` is an action property: only `reset.txt` removes a running
  search from the map (spec 8).
- `NoResurrection` is an invariant: a context that reset dropped never returns
  to the map.

Runs. All use 2 threads, 3 context allocations and 2 accepted option writes
per context, with symmetry over threads and contexts. These bounds are enough
for the following cases:
- two private contexts race;
- a third context is allocated after a reset;
- an option write lands both before and after a search starts on the same
  context (with a single accepted option write, the context would already be
  at its bound).

| Run | cfg | Result | What it shows |
|---|---|---|---|
| msearch | `MC_MSearch.cfg` | pass, about 1.0 M states | Reference counts stay exact; a context starts once and its settings freeze; the last release of a running context aborts it. |
| msearch_active_kept | `MC_MSearch_ActiveSearchKept.cfg` | violation | Two threads each get a fresh context. One starts a search; the other's `align.txt` write then evicts it from the map. |
| msearch_no_resurrection | `MC_MSearch_NoResurrection.cfg` | violation | A `search.txt` write holds the map's context. `reset.txt` drops it. The write's `ContextUpdate` pushes it back and starts it. |

Fairness: each callback runs to its end, and the work pool runs every queued
worker. No liveness property is checked here, because cancellation is a
safety property (`AbortOnLastRef`). Deadlock is checked.

## 5. OsSrwLock, ExclusiveLock, OsEvent and SList: the Linux lock and its users

`OsSrwLock.tla` models `oscompatibility.c` 415-484. The Linux build gives the
SRW lock two words: `xchg` (0 free, 1 taken) and `c`, the number of threads
that hold or want the lock.

State:
- `xchg` and `c`;
- `queue`, the threads asleep in `FUTEX_WAIT` on `xchg`;
- per thread `pc` and `op`, which tells whether the thread is in
  `AcquireSRWLockExclusive`, `_Try` or `_Timeout`.

Each atomic instruction and each futex call is one step:

| Action | Code |
|---|---|
| `Enter` | `__sync_fetch_and_add_4(&c, 1)` at the start of every acquire |
| `Cas` | `atomic_compare_exchange_strong(&xchg, 0, 1)`; on failure `_Try` gives up and the others wait |
| `FutexWait` | `FUTEX_WAIT` with value 1: returns `EAGAIN` if `xchg` is no longer 1, otherwise sleeps; the comparison and the sleep are one atomic step, as in the kernel |
| `WaitTimeout` | `_Timeout`'s wait fails with `ETIMEDOUT` or `EINTR` and the thread gives up |
| `GiveUp` | the `c` decrement of a failed `_Try` or `_Timeout` |
| `ReleaseCas` | the compare-and-swap 1 -> 0 of `ReleaseSRWLockExclusive` |
| `ReleaseDec` | `if(__sync_sub_and_fetch_4(&c, 1))` |
| `FutexWake` | `FUTEX_WAKE` of one sleeper, if any |

`ExclusiveLock.tla` is the abstract specification: one owner, acquired only
when free and released only by its owner. `OsSrwLock` instantiates it with
the holder, the thread between its successful compare-and-swap and its
release compare-and-swap, as the refinement mapping.

`OsEvent.tla` models the events of `oscompatibility.c` 486-604. It uses the
lock's steps through `INSTANCE OsSrwLock`:

| Event call | Lock steps |
|---|---|
| `SetEvent` | `ReleaseSRWLockExclusive` |
| `ResetEvent` | `_Try` |
| `WaitForSingleObject` | `_Timeout`, followed on a manual-reset event by a release |

`CreateEvent` is the initial state. Either kind of event is possible, and it
starts set (`xchg = 0`, `c = 0`) or reset (`xchg = 1`, `c = 1`). `MaxCalls`
bounds the number of calls the threads make.

Properties:
- `ImplementsExclusiveLock` (`OsSrwLock`): the futex lock refines
  `ExclusiveLock!Spec`, so no step lets a second thread in or hands the lock
  from one holder to another.
- `CountExact` (both modules): `c` equals the number of threads between their
  increment and its matching decrement, plus `xchg`. The extra one is the
  holder, or for an event the reset state. The release relies on this: a
  release that finds a sleeper always wakes one. On events the count must
  survive a `SetEvent` that releases a lock nobody acquired.
- `Progress` (`OsSrwLock`): while a thread waits in `AcquireSRWLockExclusive`,
  some thread eventually gets the lock, so no wake-up is lost.
- `WaitersReleased` (`OsEvent`): on a set manual-reset event, every waiter
  returns unless a `ResetEvent` succeeds first. The waiters are released as a
  chain, each waiter's acquire-and-release waking the next.
- `SignalConsumed` (`OsEvent`): a set auto-reset event with a waiter is
  eventually taken by one of them.

| Run | cfg | Result | What it shows |
|---|---|---|---|
| ossrwlock | `MC_OsSrwLock.cfg` | pass, 140 259 states | 2 threads pushing and popping 2 SList entries (4 calls) while a third takes the same lock with any acquire: the lock refinement, an exact count, progress, and the SList's refinement of `LifoStack`. |
| osevent | `MC_OsEvent.cfg` | pass, 57 443 states | 3 threads, 4 calls, either kind of event, with `ResetEvent`: an exact count, chained release of manual-reset waiters and consumption of auto-reset signals. |

### SList and LifoStack

`SList.tla` models the interlocked singly linked list of `oscompatibility.c`
610-645. No code under `src/` calls it; it is part of the Windows API the
Linux build provides. The head holds an SRW lock, the USHORT count `c`
(`depth`, modulo the constant `DepthMod`) and `Next` (`next`). Each entry has
a `Next` field (`link`). `SList` takes the lock's steps through
`L == INSTANCE OsSrwLock`. Each statement between the acquire and the release
is a step of its own, so only the lock keeps two calls apart.

| Action | Code |
|---|---|
| `Init` | `InitializeSListHead`: the head is zeroed |
| `QueryDepthSList` | `return ListHead->c` (read without the lock) |
| `StartPush`, `StartPop` | the call and its `AcquireSRWLockExclusive` |
| `PushInc`, `PushLink`, `PushPublish` | `c++`; `e = Next; ListEntry->Next = e`; `Next = ListEntry` |
| `PopCheck`, `PopTake`, `PopUnlink` | `if(c) c--`; `if((e = Next))`; `Next = Next->Next; e->Next = NULL` |
| `Release` | `ReleaseSRWLockExclusive` and the return |
| `StartLock`, `LockStep`, `WakeStep` | other code's acquires and the rest of the lock's steps |

A push takes an entry its caller owns: one that is not on the list and is
not being pushed. A popped entry goes back to its caller and can be pushed
again.

`LifoStack.tla` is the abstract specification: a sequence of entries, and per
thread the result of its last pop. That result is "pending" from the call to
the return. `SList` refines it through the mapping:
- `stk` is the chain read from `ListHead->Next` (`ChainFrom`, recursive);
- `ret` is `Result`, which is "pending" while a pop has not yet decided.

Making the call a step of its own lets the refinement see a NULL return even
when the thread's previous pop also returned NULL.

`ImplementsStack` checks this refinement. It holds only because the lock
keeps the three writes of a push and the reads of a pop apart. It also needs
`c` to be non-zero exactly when `Next` is not NULL. The `c++` is a USHORT: a
list that ever holds 65 536 entries wraps `c` to 0, and its pops then return
NULL while the list is full. With `DepthMod = 2` and the same configuration,
TLC finds this violation of `ImplementsStack` after two pushes. The project
run uses `DepthMod = 65536`, where two entries cannot wrap. The mutant
`PushIncNoCount` (a push that does not count) breaks `ImplementsStack`.

The lock's four properties are checked in this composition, as
re-exported definitions of `SList`. The roles are split: threads `t1` and
`t2` call the list, and `t3` calls the acquire functions directly. This keeps
the three cases the lock needs (holder, sleeper, stealer) and keeps the state
space small: with every thread in every role there were 16 million states.

Bounds. The lock run needs three threads for the case that matters: a holder,
a sleeper, and a third thread that takes the lock between the release and the
woken sleeper's retry. The event run needs three threads and four calls, for
example a set followed by waits of two threads plus a reset.

Fairness. A thread inside a lock function keeps running (weak fairness on
each of its steps), and a holder releases. A sleeper moves only when woken or
when its wait fails, and a timeout is never forced. Threads are not made to
call.

The lock does not queue its waiters. A woken waiter can lose the
compare-and-swap to a newly arriving thread every time. For that reason
`Progress` is stated for the lock as a whole, and `WaitersReleased` only
holds once calls stop arriving; that is why `MaxCalls` exists, and why the
event run does not check deadlock (the threads stop after `MaxCalls` calls).

Not modelled:
- `WaitForMultipleObjects`. Its `All` variant acquires and at once releases
  each event, and its `Single` variant ignores the timeout; both are listed as
  hazards in earlier versions of this project; no code under `src/` calls
  it, so a model of it would check a shim nothing uses.
- `CloseHandle` on an event, which sets the event and frees it under a woken
  waiter.
- `_Timeout(0)`, which takes the untimed wait. The model lets any `_Timeout`
  wait either keep sleeping or fail, which covers it.
- The critical section (a recursive pthread mutex).

## 6. QFind and VMemD: the vmemd plugin

The vmemd plugin shows one directory per process with one file per memory
map entry. `VMemD_List` lists every VAD as `0x<vaStart>[-text].vvmem`, of
size `vaEnd + 1 - vaStart`, and every PTE map entry whose base lies in no VAD
as `0x<vaBase>[-text].vmem`, of size `cPages << 12`. `VMemD_Read` and
`VMemD_WritePte` parse the base address back from the file name and take
the VAD path if the name contains `.vvmem`. They then fetch the map, find the
entry with `VMemD_Util_qfind`, and read or write inside it.

Every operation is a pure function of the process's maps and the request. The
module therefore has no steps: a state is one input (`in`), and each property
compares the code's answer with a reference answer.

`QFind.tla` holds `VMemD_Util_qfind` (`m_vmemd.c` 58-93) and its comparators
as operators:
- `FirstClearShift` computes the starting exponent;
- `Loop` is the halving loop, written with `RECURSIVE`;
- `Finish` looks at the final entry and the one before it.

Its byte offsets are DWORDs, so the subtraction in the loop wraps. TLC cannot
represent 2^32, so the modulus `DWORD` is set to 2^16. A wrap leads the same
way (to an offset not below `cbMap`) for any modulus larger than every
`cbMap`, and an `ASSUME` checks that 2^16 is.

`VMemD.tla` extends it:

| Definition | Code (`m_vmemd.c`) |
|---|---|
| `Advance`, `Walk` | the PTE loop of `VMemD_List` that skips entries inside a VAD (284-289) |
| `ListFiles` | `VMemD_List` (250-311): the files, each as the loop that listed it, the base its name carries, whether the name contains `.vvmem`, and its size |
| `Transfer` | the end-of-file test, `cbMax` and the transfer (134-147, and 172-185) |
| `ReadWritePte`, `ReadWriteVad` | the two paths, with qfind on the map (118-189) |
| `ReadWrite` | `VMemD_Read` and `VMemD_WritePte` (201-229) |

Addresses are QWORDs, taken modulo `AMod` (2^64 in the code) with pages of
`PageSize` bytes (4096 in the code). The cfgs use 16 and 4, giving four pages,
so entries can end at the top of the address space and requests can cross
it. The maps are every sorted, disjoint map of up to two PTE entries (one or
two pages, with or without `.vvmem` in the image name) and up to two VADs.

The inputs, by kind (`Kinds` picks them):
- `qfind`: every array of 0 to 33 entries, with bases 2, 4, ..., 2n, and every
  key from 0 to 2n + 1. A search only compares, so this is every rank, hit and
  miss, of every size 0, 1, 2 and 2^k - 1, 2^k, 2^k + 1 up to 33. Entry
  sizes are 1 and 40.
- `list`: every pair of maps, with the VAD map either retrieved or absent
  (`pVadMap` NULL).
- `rw`: every listed file of every pair of maps, read or written at offsets 0
  to 8 with 1, 3 or 6 bytes.

The case of a second `VMMDLL_Map_GetVad` call that fails after the buffer was
allocated is left out. In that case the PTE loop reads an uninitialised buffer
(listed as a hazard at line 257).

| Run | cfg | Result | What it shows |
|---|---|---|---|
| plugins | `MC_Plugins.cfg` (module `MC_Plugins`) | pass, 69 737 inputs with those of sections 8-11, 13 and 14 | `QFindIsExactMatch`: qfind returns the entry equal to the key whenever one exists, and NULL otherwise. `ListedPtesOutsideVads`: a PTE entry is listed as a file of its own exactly when its base lies in no VAD. `LdrReadMatchesTable`: section 8. `SidRoundTrip`: section 9. `ConfigRoundTrip`: section 10. `PfnSizeProtocol`: section 11. `ThreadListAgrees`: section 13. `PinfoProcessInfoRight`: section 14. |
| vmemd_rw | `MC_VMemD_RW.cfg` | violation | `RWMatchesFile`: a read or write of a listed file transfers and reports exactly the bytes of the file it covers, and succeeds exactly when there are some. |

qfind is an exact-match search. Spec 9 (open questions) reads it as a lower
bound, but the code returns NULL unless some entry compares equal. It finds
every present key on every size checked, which is what its callers need: a
file name carries an entry's exact base address.

TLC's counterexample to `RWMatchesFile` is a write of 6 bytes at offset 0 of
a 4-byte PTE file that reports 6. The same property, restricted to reads,
fails in four more ways; each was found by TLC with the other cases excluded:
- a VAD file read at its last byte (offset 3 of `[0, 3]`) returns END_OF_FILE;
- a PTE entry of pages 2-3, ending at the top of the address space, reads as
  empty at every offset;
- a 6-byte read at offset 6 of the entry at 4 of size 8 ends exactly at the
  top of the address space and reads 6 bytes, 2 of them past the entry;
- a PTE file whose image name contains `.vvmem` returns FILE_INVALID.

## 7. ExtAlloc: the external allocation registry

Every block the API hands to the user is an OB object registered in the global
ObMap `g_VMMDLL_ALLOCMAP_EXT` under its data address.
`VmmDllCore_MemAllocExternal` (`vmmdll_core.c` 729-738) works in four steps:
1. it checks the size;
2. `Ob_AllocEx` creates the object with refcount 1;
3. `ObMap_Push` registers it, and the map takes its own reference;
4. `Ob_DECREF` drops the creator's reference.

From then on the map alone owns the block.
- `VMMDLL_MemFree` removes the key and drops the map's reference.
- `VMMDLL_MemSize` looks the key up, then reads the header.

The following calls all share one pattern: `VMMDLL_Map_Get*_Impl`,
`VfsListBlob_Impl`, `MemSearch_Impl` and `ProcessGetInformationString_Impl`.
- They fetch the source data, which may fail, with nothing to free.
- They allocate, which may fail, returning NULL.
- They fill the block. The calls that copy strings through an ObStrMap can
  fail here. Their `fail:` label then frees the block.
- Otherwise they return the block.

Each call is a definition of its own named after the function, such as
`VMMDLL_Map_GetEAT_Impl`. It is the sequence of the steps that decide what
happens, read off its `goto fail` lines:
- "fetch" may go to fail before the block exists;
- "alloc" is the `MemAllocExternal` whose NULL goes to fail;
- "allocOpt" is an allocation made only when there is data. `MemSearch`
  allocates only when there were hits. The process string is copied only
  when the process has it;
- "fill" may go to fail after the allocation. It stands for the
  `ObStrMap_PushPtrUXUW` of the string maps, and for the second
  `FinalizeBufferU` and the `ObMap_GetByIndex` of `VfsListBlob`.

The `sizeof` sanity checks are left out because they are constant in a build.
`Impls` names the twenty calls. A thread's `api` and `step` say where it is.

| Action | Code |
|---|---|
| `Start` | entry of the `_Impl` (`*ppMapDst = NULL`) |
| `FetchFail`, `Fetch` | a "fetch" step failing or passing |
| `AllocFail`, `Alloc`, `Push`, `Decref` | `VmmDllCore_MemAllocExternal` at an "alloc" or "allocOpt" step |
| `AllocSkip` | an "allocOpt" step with nothing to return (`vmmdll.c` 825-833) |
| `FillFail`, `Fill` | a "fill" step failing, which frees the block at `fail:`, or passing |
| `Return` | `*ppMapDst = pMapDst` after the last step |
| `UserFree` | `VMMDLL_MemFree` → `VmmDllCore_MemFreeExternal` (`FreeExternal`) |
| `UserSizeCheck`, `UserSizeRead` | `VmmDllCore_MemSizeExternal` |

Three calls handle `fail:` differently from the rest:
- `GetPool` frees its block unconditionally;
- `GetHeap`, `GetHeapAlloc` and `GetThread` do not free at all;
- `GetModuleFromName` tests `ppeDst` instead of `peDst`.

In every one of them the block is NULL at `fail:`, or the call has no step
after the allocation that can fail. So the model gives them the same fail
path, and `RegistryExact` checks that this is enough.

`Ob_AllocEx`, `Ob_DECREF` and the ObMap operations are not in this
repository. They are modelled from spec 4.7 as atomic steps, since the map
locks internally and the count is atomic. The allocator may return any free
address, so a freed address is reused.

The cfg `MC_ExtAlloc.cfg` has two threads, two addresses and four calls of any of the twenty. Each
thread is also the user of what it gets. `CHECK_DEADLOCK FALSE` is set because
the threads stop once the calls are used up and their blocks freed.

| Run | Result | What it shows |
|---|---|---|
| extalloc | pass, 459770 states | `RefCountExact`: a live block has exactly one reference for its key and one for a MemAllocExternal between `Ob_AllocEx` and its DECREF. `RegistryExact`: the registry holds exactly the blocks that users hold and those being filled or created, each with one owner, even across address reuse. |

Not modelled:
- `MemLeakFindExternal`, which only logs at close.
- A second `VMMDLL_MemFree` of a stale pointer whose address was reused.
  It frees the other caller's block, so the registry refuses a double free
  only until the address is reused.
- A `MemSize` racing a `MemFree` of the same pointer.

The last two are misuses by the caller. They are listed as hazards.

## 8. LdrModules: the ldrmodules line tables

Each loaded module of a process has a directory holding, among other files,
`export.txt`, `import.txt`, `directories.txt` and `sections.txt`. Each is a
table with one fixed-length line per EAT entry, IAT entry, data directory (16)
or section header. `LdrModules_List` sizes a table as its line count times the
line length. A read does not render the whole table. It renders only lines
`cStart = cbOffset / L` to `cEnd = min(cMap - 1, (cb + cbOffset + L - 1) / L)`
into a buffer and reads that buffer at `cbOffset - cStart * L`.

`LdrModules.tla` holds these reads as operators. `MC_Plugins.tla` extends
`VMemD` and `LdrModules`, and adds the inputs of kind `ldr` to VMemD's initial
states. The tables and the vmemd cases are therefore checked by one run.

| Definition | Code (`m_ldrmodules.c`) |
|---|---|
| `LineLen` | the `LDRMODULES_LINELENGTH_*` constants, 18-21 |
| `FirstLine`, `LastLine` | `cStart` and `cEnd`, 47-48 |
| `RenderLines` | the rendering loop, 52-64 |
| `PagedRead` | `LdrModules_ReadFile_EAT`, 40-68 |
| `ReadFile_IAT` | `LdrModules_ReadFile_IAT`, 74-101 (the same code) |
| `ReadFile_Directories` | `LdrModules_ReadFile_Directories`, 107-135 |
| `ReadFile_Sections` | `LdrModules_ReadFile_Sections`, 141-179 |
| `ReadModuleSubFile` | the four table branches of `LdrModules_Read_ModuleSubFile`, 322-338 |
| `TableBytes` | the sizes `LdrModules_List` gives the tables, 452-455 |

`Util_usnprintf_ln` and `Util_VfsReadFile_FromPBYTE` are in `util.c`, which is
not in the repository. They are modelled from their contract (`RenderLine`,
`FromPBYTE`).
- A rendered line is abstracted to what tells its bytes apart: byte `c` of
  line `i` is `<<i, c>>`.
- `FromPBYTE` returns END_OF_FILE past the end of the buffer. Otherwise it
  copies `min(cb, size - offset)` bytes and returns SUCCESS if it copied any.

Each way a read can fail is an input:
- the LocalAlloc of the buffer;
- `VmmMap_GetEAT`/`GetIAT`, `PE_DirectoryGetAll` or `PE_SectionGetAll`;
- the second LocalAlloc of `ReadFile_Sections`.

The bounds, chosen so that the arithmetic is the same:
- line lengths 3, 4, 2 and 3, with 16 directory lines;
- 0 to 3 entries;
- requests of 1, 4 and 7 bytes, some within a line and some across lines;
- every offset from 0 to one past the largest table.

The line-length arithmetic depends only on the ratios of offset, request and
line length, so these cases include reads inside a line, across lines, at the
last line, in the line just past the table and past it.

`LdrReadMatchesTable` (run `plugins`) says that every read returns exactly
the bytes the whole table has at its offset. It succeeds exactly when there
are some, and it fails only where one of the steps above failed. It holds.
- The test `cStart > cMap` lets an offset in the line just past the table
  through, with an empty buffer. That buffer reads as END_OF_FILE.
- Rounding `cEnd` up renders one line more than needed, which is harmless.
- The mutant that reads the buffer at `cbOffset` instead of
  `cbOffset - cStart * L` breaks the property.

Not modelled:
- `modules.txt` and `unloaded_modules.txt` (`Util_VfsLineFixed_Read`, in
  `util.c`);
- `base.txt`, `entry.txt` and `size.txt` (`Util_VfsReadFile_FromQWORD`);
- `pefile.dll`, `sectionsd` and `directoriesd`, whose reads, writes and
  listing go to `pe.c` and to `VmmReadAsFile`/`VmmWriteAsFile` in `vmm.c`.

The listed size of `export.txt` uses the module entry's `cEAT`, while its read
uses the EAT map's `cMap`. Both counts come from code outside the repository,
so the model takes one count for both. The difference is a hazard
(`m_ldrmodules.c:453`).

The thread plugin (`m_proc_thread.c`) is modelled in section 13.

## 9. OsSid: the SID conversions of the Linux build

`oscompatibility.c` 292-377 replaces three Windows functions:
- `ConvertStringSidToSidA` parses `S-1-<authority>-<sub>-...` into a SID
  buffer;
- `ConvertSidToStringSidA` prints a SID buffer back;
- `IsValidSid` is the success of that second conversion.

`OsSid.tla` holds them as operators. A string is the sequence of its
characters after `S-1-`. A SID buffer is the record of what the code writes
into it.

| Definition | Code (`oscompatibility.c`) |
|---|---|
| `Dashes`, `ByteMod` | the dash count in `BYTE c`, with the double-dash refusal, 295-306 |
| `SID_MAX_SUB_AUTHORITIES` | the count check, 308 |
| `StrToUL`, `Leading` | `strtoull`/`strtoul` at a field, 311 and 319 |
| `ScanSubs` | the parse loop, 314-321 |
| `ConvertStringSidToSidA` | the whole function, 293-322 |
| `Decimal`, `ConvertSidToStringSidA` | the `snprintf` printing, 334-357 |
| `IsValidSid` | 365-371 |

The reference, `SidWellFormed` and `SidCanonical`, reads the fields between
the dashes of the string.

The cases:
- every string of up to 7 characters over `-`, `0`, `1` and one non-digit;
- strings `1-1-...-1` with 14 to 17 sub-authorities;
- the prefix check and each LocalAlloc failing.

The DWORD and the 48-bit authority are reduced to 2^16 and 2^20.
`SidRoundTrip` (run `plugins`) holds. It says that:
- exactly the well-formed strings are accepted;
- the parse writes exactly the bytes it allocated;
- the SID passes `IsValidSid`;
- the SID prints back as the canonical string it came from.

The mutant that drops the double-dash refusal breaks it.

The count is a BYTE. With 257 sub-authorities (`SidLongFields = {257}`) TLC
finds the property violated by the initial state: 12 bytes are allocated and
1036 written. This is finding 7 in section 12. The `plugins` run leaves that
case out so that its other properties keep passing, so `SidRoundTrip` as run
holds only for fewer than 256 sub-authorities. The 257-field case needs a
larger Java thread stack (`-Xss512m`) for TLC to evaluate.

## 10. Config: the handle's configuration options

`VMMDLL_ConfigGet_Impl` and `VMMDLL_ConfigSet_Impl` (`vmmdll.c` 214-382)
switch on the upper 32 bits of the option. `Config.tla` models them as
operators on a record of the handle fields they read and write. An option is
the name of its `VMMDLL_OPT_` constant.

A refresh option is the set of tier bits it has. Each refresh mask is one
distinct bit of bits 32-47, and `REFRESH_ALL` has them all.

| Definition | Code (`vmmdll.c`) |
|---|---|
| `CfgGetField`, `CfgVersion`, `CfgVerbose`, `Bool01` | the cases of the get switch, 221-290 |
| `LcGetOption` | the default case, 291-293 |
| `ConfigGet_Impl` | 217-295 |
| `RefreshTiers`, `CfgRefresh`, `RefreshCalls` | `VMMDLL_REFRESH_CHECK` and the refresh dispatch, 214 and 302-328; a full MEM or TLB tier is three calls |
| `CfgSetDword` | the `(DWORD)qwValue` tick fields, 358-372 |
| `FcInitialize`, `LcSetOption` | 376-380 |
| `ConfigSet_Impl` | 298-382 |

LeechCore, `fc.c` and `vmmproc.c` are not in the repository. What they keep
is part of the state, modelled from spec 6:
- the options LeechCore knows (the verbosity options and a device option);
- the forensic mode, which `FcInitialize` sets to 1..4 or fails;
- the count of `VmmProcRefresh_*` calls.

`VmmLog_LevelRefresh` and `PluginManager_Notify` only log and notify, and are
left out. `H` is live, because `CALL_IMPLEMENTATION_VMM` has checked it
(section 3).

The `plugins` run folds every sequence of up to two `ConfigSet` calls, over
all options, the values 0, 3 and 2^32 (reduced to 16), and `FcInitialize`
succeeding or failing. Two calls are enough for:
- a set followed by a set of another option;
- a set followed by a refresh;
- the same option set twice.

`ConfigRoundTrip` holds. It says that:
- each call returns TRUE exactly on a writable option;
- afterwards, `ConfigGet` of every option answers what the last successful
  set stored (a flag as 0/1, a tick count truncated to a DWORD), or else the
  starting value.

A set of a read-only option reaches LeechCore, which refuses it. The mutant
in which the copied `TLBCACHE_TICKS` case stores into `cTick_MEM` breaks the
property.

`IS_PAGING_ENABLED` is left out of the property. `ConfigSet` stores
`qwValue ? 0 : 1`, not `VMM_FLAG_NOPAGING`. `vmm.h`, which defines that flag,
is not in the repository. The model takes the public header's value `0x10`
(scaled to 16), and with the option included the property is violated by a
single set to 0 (finding 8).

## 11. MapPfn: the PFN map's size protocol

`VMMDLL_Map_GetPfn_Impl` (`vmmdll.c` 1780-1808) works in two ways:
- called without a buffer, it reports the bytes a map of `cPfns` entries
  takes;
- called with a buffer, it checks the size, pushes the PFNs into an ObSet
  (which drops duplicates) and has `MmPfn_Map_GetPfnScatter` map them. It
  then zeroes `cbDst` bytes and copies the map in.

`MapPfn.tla` is that function, with the sizes as DWORDs:

| Definition | Code |
|---|---|
| `PfnMapBytes` | 1786-1787 |
| `PfnRange` | the ObSet of the PFNs, 1790-1793 |
| `PfnAnswer` | the writes and `*pcbMapDst = cbDst`, 1801-1807 |
| `VMMDLL_Map_GetPfn_Impl` | 1780-1808 |

`MmPfn_Map_GetPfnScatter` (in `mm_pfn.c`) is not in the repository. It maps
any subset of the distinct PFNs, or fails.

The cases:
- every request of up to 3 PFNs from {1, 2, 3}, duplicates included;
- buffer sizes 0, 4, 5, 10 and 11, on both sides of the sizes needed;
- ObSet_New and the scatter each succeeding or failing.

The header takes 2 bytes and an entry 3.

`PfnSizeProtocol` holds. It says that:
- the size reported without a buffer holds any map of the request;
- a buffer that large is filled unless a step fails;
- a successful call writes only inside the buffer, copies all of the map and
  reports the bytes written;
- a failed call writes nothing.

The mutant without the size check breaks it. With an 8-value DWORD
(`PfnDwordMod = 8`) the size wraps and the property is violated (finding 9).

## 12. Findings

1. **Close vs CloseAll use-after-free** (`vmmdll.c:88`). `VMMDLL_Close` tests
   `H->magic` before taking `g_VMMDLL_CORE_LOCK_SRW`. `VMMDLL_CloseAll` can
   close and free H between the test and `VmmDllCore_Close`.
2. **Orphaned handle on empty user input** (`vmmdll_core.c:500`).
   `InitializeRequestUserInput` returns NULL without `CloseHandle(H)`. The handle
   stays in the allow-list, owned by nobody, until CloseAll. Every such failure
   uses up one of the 32 slots.
3. **A write racing search.txt evicts the running search**
   (`m_proc_search.c:38`). On an empty map every caller gets a private
   context. The later `ContextUpdate` replaces the one that already started,
   and it is then aborted. Spec 8 says one of two concurrent `search.txt`
   writes wins and the other has no effect.
4. **reset.txt undone by a concurrent write** (`m_proc_search.c:37`). A
   writer that fetched the context before the reset re-inserts it and starts
   it with the settings from before the reset.
5. **A truncated vmemd write is reported as complete** (`m_vmemd.c:145`,
   `183`). `*pcbWrite = cb` even when the write was cut at the end of the
   entry. Spec 4.5 says a partial write is reported by written < requested.
6. **vmemd reads at the edges of an entry** (`m_vmemd.c:172`, `134`, `138`,
   `28`):
   - the last byte of a `.vvmem` file is unreadable, because the end-of-file
     test treats the inclusive `vaEnd` as exclusive;
   - a PTE entry ending at 2^64 reads as empty;
   - a request ending at 2^64 transfers `cb` bytes past the entry;
   - a `.vmem` file whose image name contains `.vvmem` cannot be opened.
   These are cases of the run `vmemd_rw` (section 6).
7. **SID dash count wraps at 256** (`oscompatibility.c:305`).
   `ConvertStringSidToSidA` counts the sub-authorities in a BYTE. A string
   with 256 + k of them allocates 8 + 4k bytes and writes 8 + 4(256 + k):
   a heap overflow driven by the string. This is reproduced with
   `SidLongFields = {257}` (section 9).
8. **IS_PAGING_ENABLED sets the wrong bit** (`vmmdll.c:356`). `ConfigSet`
   ORs in `1`, not `VMM_FLAG_NOPAGING`. Disabling paging sets bit 0 and
   leaves paging on, and `ConfigGet` keeps answering 1. This is reproduced
   by including the option in `CfgChecked` (section 10).
9. **PFN map size wraps in a DWORD** (`vmmdll.c:1786`).
   `cPfns * sizeof(VMMDLL_MAP_PFNENTRY)` is computed in a DWORD. A wrapped
   size passes the size check with a small buffer, and the copy of the
   entries found writes past it. This is reproduced with `PfnDwordMod = 8`
   (section 11).
10. **Stale fields in a reused process information structure**
    (`vmmdll.c:1876`). `VMMDLL_ProcessGetInformation` clears only
    `sizeof(VMMDLL_PROCESS_INFORMATION_MAGIC)` (8 bytes, the magic) before
    filling the structure. It writes `szSID` only when the token has a SID,
    and `fWow64`/`vaPEB32` only on x64. A caller that asks for process 1 and
    then, with the same structure, for process 2, whose token has no SID,
    gets process 1's SID back as process 2's. This is reproduced with
    `PinfoMaxCalls = 2` (section 14).
11. **CloseAll frees a handle during the user-input window**
    (`vmmdll_core.c:579`). `VmmDllCore_Initialize` releases
    `g_VMMDLL_CORE_LOCK_SRW` before `VmmDllCore_InitializeRequestUserInput`,
    which then still uses H. The handle is in the allow-list at that point, so a
    concurrent `VMMDLL_CloseAll` (Windows build) closes and frees it, and
    `InitializeRequestUserInput` then prints to and closes the freed H. This is reproduced with `UserInteract = TRUE` in
    `MC_VmmHandle_CloseAll.cfg`: `NoUseAfterFree` is violated in 7 states
    (InitUserInput, then CloseAll through CloseFree while the initializing
    thread is at `ui`).

No run slot is left for findings 7-11 as violation runs: each is a case or
constant its pass run (`plugins` or `vmmhandle_closeall`) leaves out, and each is listed as a hazard.

## 13. ProcThread: the thread plugin

`ProcThread.tla` models the three handlers of `m_proc_thread.c`:
`MThread_List`, `MThread_Read` and `MThread_Write`. It is a case kind
("thread") of `MC_Plugins`. Each handler:
1. takes the process's thread map (`VmmMap_GetThread`, which may fail);
2. parses the TID out of the path (`Util_GetNumericA`, 0 for a name that is
   not a number);
3. looks the TID up (`VmmMap_GetThreadEntry`);
4. dispatches on the sub-path.

Steps 1-3 call `vmm.c` and `util.c`, which are outside this repository. The
model gives the map as a set of at most one entry and the path as its number.

| Definition | Code |
|---|---|
| `MThread_List` | the root lists a directory per thread plus `threads.txt`; a `<tid>` directory lists `info.txt`, `ethread`, `teb` if `vaTeb` is set, and `stack`/`kstack` if base and limit are set with `limit < base`, sized `(DWORD)(base - limit)` |
| `MThread_List_TimeStampFile` | the last-write time is the exit time, or the creation time |
| `MThread_Read` | `threads.txt` at the root; `info.txt`; the regions of `teb` (0x1000 at `vaTeb`), `stack` (from `vaStackLimitUser`, QWORD `base - limit`), `ethread` (`oMax` at `vaETHREAD`), `kstack` |
| `MThread_Write` | the same regions, without `threads.txt` and `info.txt` |

`VmmReadAsFile` and `VmmWriteAsFile` are in `vmm.c`, so what a handler serves
is modelled as the region it passes to them. `info.txt` and `threads.txt` are
modelled as text of their length.

Inputs: either outcome of `VmmMap_GetThread`, an empty map or one entry,
and path TIDs 0 (not a number), 7 (the entry's) and 9 (no entry). Stack ends
are 0, 4096, 12288 and 73728 on a 16-bit DWORD (`ThrDwordMod = 65536`).
These give stacks that are empty, have one end unset, are reversed, are
small, and are larger than the DWORD width. The TEB is 0 or set.

`ThreadListAgrees` holds. It says that:
- every file listed in the threads directory or a `<tid>` directory is
  served by `MThread_Read`;
- each is served with its listed size, a stack's up to the DWORD cast;
- each listed memory file is served by `MThread_Write` over the same region;
- every `<tid>` directory listed at the root lists its thread's files.

The mutant `MThread_Write_KstackAtUserLimit` breaks it: a write whose kstack
file starts at the user stack's limit.

The code does two things that the property allows (hazard `m_proc_thread.c:268`):
- a stack of `ThrDwordMod` bytes or more (4 GiB in the code) is listed with
  its truncated size, smaller than the range the read serves;
- a stack with `limit > base`, or a zero TEB, is not listed, but a read or
  write of that path still serves a region: the wrapped QWORD range from
  `vaStackLimitUser`, or 0x1000 bytes at address 0.

The values come from the target's memory, so an image with damaged thread
structures reaches both.

Not modelled: the text of `info.txt` and of the `threads.txt` lines, and
`M_ProcThread_Initialize` (plugin registration).

## 14. ProcInfo: VMMDLL_ProcessGetInformation

`ProcInfo.tla` models `VMMDLL_ProcessGetInformation_Impl` (`vmmdll.c`
1864-1908). It is a case kind ("pinfo") of `MC_Plugins`. The structure is a
function from field groups to values:
- the header: `magic`, `wVersion`, `wSize`;
- `gen`: the fields written for every process;
- `wow`: `win.fWow64` and `win.vaPEB32`;
- `win`: the other Windows fields;
- `sid`: `win.szSID`.

A process's values are tagged with its PID, and `<<>>` is a zero field.
`VmmProcessGetEx` is in `vmm.c`, so the process table is an input: a set of
processes, each with or without a SID on its token.

| Definition | Code |
|---|---|
| `VMMDLL_ProcessGetInformation_Impl` | FALSE without `pcbProcessInfo`; the size without `pInfo`; FALSE for a short size, a wrong magic or version, or a PID not found; else the fill |
| `PinfoFill` | `ZeroMemory` of the fields in `PinfoZeroed` (the first 8 bytes: the magic), then the header, the general fields, the x64 fields, the Windows fields and the SID if the token has one |
| `PinfoRun` | calls in turn on one structure, each seeing what the previous one left |

Inputs: every table over PIDs {1, 2} with and without SIDs; the systems x64,
x86 and Linux; a NULL or non-NULL `pInfo`; a prepared structure with a right or
wrong magic and version; every call with or without `pcbProcessInfo`, a short
or full size, and PID 0, 1 or 2.

`PinfoProcessInfoRight` holds for one call on a structure the caller prepared
(`PinfoMaxCalls = 1`). It says that:
- a call without `pcbProcessInfo` fails, and one without `pInfo` reports the size;
- a refused call leaves the structure as it was;
- after a successful call each field holds the process's value where it
  applies to the system and the token, and zero where it does not.

The mutant `PinfoFill_WowOnX86` writes the WoW64 fields on x86 too, and it
breaks the property. With `PinfoMaxCalls = 2` the property is violated
(finding 10): after a call for a process with a SID, a call for one without
a SID on the same structure leaves the first SID in place.

Not modelled: the formatting of `VMMDLL_ProcessGetInformationString` and
the other process queries, which forward to `vmm.c`.
