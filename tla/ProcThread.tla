------------------------------ MODULE ProcThread ------------------------------
(***************************************************************************)
(* The thread plugin (src/vmm/m_proc_thread.c): MThread_List lists a       *)
(* process's threads directory and each <tid> directory, MThread_Read and  *)
(* MThread_Write serve the files of a <tid> directory.  Each handler first *)
(* takes the process's thread map (VmmMap_GetThread, which may fail) and   *)
(* finds the entry of the TID named by the path (VmmMap_GetThreadEntry;    *)
(* Util_GetNumericA gives 0 for a name that is not a number).  These       *)
(* helpers are in vmm.c and util.c, outside this repository: the map is a  *)
(* set of entries with distinct TIDs and the path is given as its number.  *)
(* A file is served by VmmReadAsFile / VmmWriteAsFile over a region of a   *)
(* process's memory: what a handler serves is that region.  Text is left   *)
(* out: info.txt and threads.txt are served by their length.  Addresses    *)
(* are QWORDs and listed sizes DWORDs; both widths are constants.          *)
(***************************************************************************)
EXTENDS Naturals, FiniteSets

CONSTANTS
    ThrQwordMod,     \* 2^64, the range of a QWORD address
    ThrDwordMod,     \* 2^32, the range of a listed DWORD size
    ThrStackVas,     \* the stack base and limit addresses an entry may hold
    ThrTebVas,       \* the TEB addresses an entry may hold
    ThrTids,         \* the TIDs an entry may have (non-zero)
    ThrPathTids,     \* the numbers a <tid> path may name (0: not numeric)
    ThrEthreadSize   \* H->vmm.offset.ETHREAD.oMax

MTHREAD_INFOFILE_LENGTH == 803
TebSize == 4096   \* 0x1000
ThrSubs == {"info.txt", "teb", "stack", "ethread", "kstack"}

\* The fields of a VMM_MAP_THREADENTRY the handlers use (ftCreateTime and
\* ftExitTime as small numbers, 0 for none).
ThrEntries ==
    [tid : ThrTids, teb : ThrTebVas, eth : {64}, sbu : ThrStackVas, slu : ThrStackVas,
     sbk : ThrStackVas, slk : ThrStackVas, ftc : {3}, fte : {0, 5}]

\* MThread_List_TimeStampFile: the last write time is the exit time, or the
\* creation time for a thread that has not exited.
MThread_List_TimeStampFile(e) ==
    [create |-> e.ftc, write |-> IF e.fte = 0 THEN e.ftc ELSE e.fte]

\* A listed entry: a file, or the directory of thread tid (name "dir").
ThrFile(name, size, ts) == [name |-> name, tid |-> 0, size |-> size, ts |-> ts]
ThrDir(tid, ts) == [name |-> "dir", tid |-> tid, size |-> 0, ts |-> ts]

\* threads.txt: UTIL_VFSLINEFIXED_LINECOUNT(H, cMap) lines of
\* MTHREAD_LINELENGTH (util.h, not in this repository: the entries and a
\* header line); its read is Util_VfsLineFixed_Read over the same lines.
MTHREAD_LINELENGTH == 250
ThrTableSize(map) == (Cardinality(map) + 1) * MTHREAD_LINELENGTH

\* The stack files are listed only for a stack with both ends set and its
\* limit below its base, with the size cast to a DWORD.
ThrStackListed(base, limit) == base # 0 /\ limit # 0 /\ limit < base
ThrStackSize(base, limit) == (base - limit) % ThrDwordMod

\* MThread_List for the threads directory (root) or a <tid> directory:
\* the files and directories it adds; after goto fail it adds nothing.
MThread_List(mapOk, map, root, tid) ==
    LET pe == {e \in map : e.tid = tid}
        e == CHOOSE x \in pe : TRUE
        ts == MThread_List_TimeStampFile(e)
    IN  IF ~mapOk THEN {}
        ELSE IF root
        THEN {ThrDir(x.tid, MThread_List_TimeStampFile(x)) : x \in map}
               \cup {ThrFile("threads.txt", ThrTableSize(map), [create |-> 0, write |-> 0])}
        ELSE IF tid = 0 \/ pe = {} THEN {}
        ELSE {ThrFile("info.txt", MTHREAD_INFOFILE_LENGTH, ts), ThrFile("ethread", ThrEthreadSize, ts)}
               \cup (IF e.teb # 0 THEN {ThrFile("teb", TebSize, ts)} ELSE {})
               \cup (IF ThrStackListed(e.sbu, e.slu)
                     THEN {ThrFile("stack", ThrStackSize(e.sbu, e.slu), ts)} ELSE {})
               \cup (IF ThrStackListed(e.sbk, e.slk)
                     THEN {ThrFile("kstack", ThrStackSize(e.sbk, e.slk), ts)} ELSE {})

\* What a handler serves: nothing (VMMDLL_STATUS_FILE_INVALID), a text of
\* a length, or a region of the process's or the system's memory.
ThrInvalid == [kind |-> "invalid"]
ThrText(len) == [kind |-> "text", len |-> len]
ThrRegion(space, va, size) == [kind |-> "mem", space |-> space, va |-> va, size |-> size]

\* The region of a <tid> file, as MThread_Read and MThread_Write compute it
\* (a QWORD subtraction for the stacks, with no check).
ThrRegionOf(e, sub) ==
    CASE sub = "teb"     -> ThrRegion("process", e.teb, TebSize)
      [] sub = "stack"   -> ThrRegion("process", e.slu, (e.sbu - e.slu) % ThrQwordMod)
      [] sub = "ethread" -> ThrRegion("system", e.eth, ThrEthreadSize)
      [] sub = "kstack"  -> ThrRegion("system", e.slk, (e.sbk - e.slk) % ThrQwordMod)

\* The path of a read or write names a <tid> and a sub-path, or is the
\* file threads.txt of the threads directory (root).
ThrLookup(map, tid) == {e \in map : e.tid = tid}

\* MThread_Read.
MThread_Read(mapOk, map, root, tid, sub) ==
    LET pe == ThrLookup(map, tid) IN
    IF ~mapOk THEN ThrInvalid
    ELSE IF root THEN IF sub = "threads.txt" THEN ThrText(ThrTableSize(map)) ELSE ThrInvalid
    ELSE IF tid = 0 \/ pe = {} THEN ThrInvalid
    ELSE IF sub = "info.txt" THEN ThrText(MTHREAD_INFOFILE_LENGTH)
    ELSE IF sub \in {"teb", "stack", "ethread", "kstack"}
         THEN ThrRegionOf(CHOOSE x \in pe : TRUE, sub)
    ELSE ThrInvalid

\* A write whose kstack file starts at the user stack's limit.
MThread_Write_KstackAtUserLimit(mapOk, map, root, tid, sub) ==
    LET pe == ThrLookup(map, tid)
        e == CHOOSE x \in pe : TRUE
    IN  IF ~mapOk \/ root \/ tid = 0 \/ pe = {} THEN ThrInvalid
        ELSE IF sub = "kstack" THEN ThrRegion("system", e.slu, (e.sbk - e.slk) % ThrQwordMod)
        ELSE IF sub \in {"teb", "stack", "ethread"} THEN ThrRegionOf(e, sub)
        ELSE ThrInvalid

\* MThread_Write: the same dispatch without threads.txt and info.txt.
MThread_Write(mapOk, map, root, tid, sub) ==
    LET pe == ThrLookup(map, tid) IN
    IF ~mapOk \/ root \/ tid = 0 \/ pe = {} THEN ThrInvalid
    ELSE IF sub \in {"teb", "stack", "ethread", "kstack"}
         THEN ThrRegionOf(CHOOSE x \in pe : TRUE, sub)
    ELSE ThrInvalid

-----------------------------------------------------------------------------
\* Every thread map of at most one entry (the handlers look up one TID),
\* whether VmmMap_GetThread succeeds, and every path.
ThreadCases ==
    [kind : {"thread"}, mapOk : BOOLEAN, map : {{}} \cup {{e} : e \in ThrEntries},
     root : BOOLEAN, tid : ThrPathTids]

\* The listing and the handlers agree: a file listed in the threads or a
\* <tid> directory is one MThread_Read serves, with the listed size (a
\* stack's modulo the DWORD cast); every listed file but info.txt and
\* threads.txt is one MThread_Write serves, over the region the read
\* serves; a directory listed at the root is one whose listing finds its
\* thread.
ThreadAnswerRight(c) ==
    LET files == MThread_List(c.mapOk, c.map, c.root, c.tid) IN
    \A f \in files :
        IF f.name # "dir"
        THEN LET r == MThread_Read(c.mapOk, c.map, c.root, c.tid, f.name)
                 w == MThread_Write(c.mapOk, c.map, c.root, c.tid, f.name)
             IN  /\ r.kind # "invalid"
                 /\ r.kind = "text" => r.len = f.size
                 /\ r.kind = "mem" => r.size % ThrDwordMod = f.size /\ w = r
                 /\ r.kind = "text" => w = ThrInvalid
        ELSE MThread_List(c.mapOk, c.map, FALSE, f.tid) # {}
=============================================================================
