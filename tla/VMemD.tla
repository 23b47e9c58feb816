-------------------------------- MODULE VMemD --------------------------------
(***************************************************************************)
(* The vmemd plugin (src/m_vmemd/m_vmemd.c): a directory per process with  *)
(* one file per memory map entry.  VMemD_List lists every VAD as a file    *)
(* "0x<vaStart>[-text].vvmem" and every PTE map entry whose base lies in   *)
(* no VAD as "0x<vaBase>[-text].vmem".  VMemD_Read and VMemD_WritePte      *)
(* parse the base address back from the file name, find the entry with     *)
(* VMemD_Util_qfind (module QFind) and read or write inside it.            *)
(*                                                                         *)
(* Every operation is a pure function of the process's memory maps and of  *)
(* the request, so the model has no steps: a state is one input, a case    *)
(* of kind "qfind", "list" or "rw", and the properties compare the code's  *)
(* answer with a reference answer.  Addresses are QWORDs: they are taken   *)
(* modulo AMod (2^64 in the code) with pages of PageSize bytes (1 << 12),  *)
(* so that an entry can end at the top of the address space.              *)
(***************************************************************************)
EXTENDS QFind, FiniteSets

CONSTANTS
    Kinds,        \* the kinds of case checked
    MaxEntries,   \* qfind: the largest array searched
    EntrySizes,   \* qfind: the entry sizes (sizeof the map entry)
    AMod,         \* the modulus of QWORD address arithmetic
    PageSize,     \* the page size, 1 << 12 in the code
    ReqSizes      \* rw: the request sizes cb

\* No DWORD offset of qfind wraps except by a subtraction below zero.
ASSUME \A e \in EntrySizes : DWORD > 2 * MaxEntries * e
ASSUME AMod % PageSize = 0 /\ DWORD > AMod

VARIABLE in

vars == <<in>>

NPages == AMod \div PageSize

-----------------------------------------------------------------------------
(* The process's memory maps, as VMMDLL_Map_GetPte and VMMDLL_Map_GetVad   *)
(* return them: entries sorted by address and disjoint.  A PTE entry has   *)
(* vaBase and cPages; its text (the image name) matters only in whether it *)
(* contains ".vvmem".  A VAD has vaStart and an inclusive vaEnd.           *)

PteEntries ==
    {[vaBase |-> p * PageSize, cPages |-> k, vvmemText |-> t] :
        p \in 0..NPages - 1, k \in 1..2, t \in BOOLEAN}
PteTop(e) == e.vaBase + e.cPages * PageSize     \* as an integer, no wrap

VadEntries ==
    {[vaStart |-> p * PageSize, vaEnd |-> (p + k) * PageSize - 1] :
        p \in 0..NPages - 1, k \in 1..2}

\* Up to two entries, inside the address space, sorted and disjoint.
PteMaps ==
    LET e == {x \in PteEntries : PteTop(x) <= AMod}
    IN  {<<>>} \cup {<<a>> : a \in e}
        \cup {<<a, b>> \in e \X e : PteTop(a) <= b.vaBase}

VadMaps ==
    LET e == {x \in VadEntries : x.vaEnd < AMod}
    IN  {<<>>} \cup {<<a>> : a \in e}
        \cup {<<a, b>> \in e \X e : a.vaEnd < b.vaStart}

Bases(m, f) == [j \in 1..Len(m) |-> m[j][f]]

-----------------------------------------------------------------------------
(* VMemD_List.                                                             *)

\* while((iVad < cMap) && (vad[iVad].vaEnd < pte.vaBase) && ++iVad);
RECURSIVE Advance(_, _, _)
Advance(vads, i, b) ==
    IF i <= Len(vads) /\ vads[i].vaEnd < b THEN Advance(vads, i + 1, b) ELSE i

\* The PTE loop with a VAD map, keeping iVad from one PTE entry to the next.
\* Mutant: a PTE entry at the very start of a VAD taken as outside it.
RECURSIVE WalkStartStrict(_, _, _, _)
WalkStartStrict(ptes, vads, iPte, iVad) ==
    IF iPte > Len(ptes) THEN {}
    ELSE LET b == ptes[iPte].vaBase
             j == Advance(vads, iVad, b)
             inVad == j <= Len(vads) /\ vads[j].vaStart < b /\ vads[j].vaEnd >= b
         IN  (IF inVad THEN {} ELSE {iPte}) \cup WalkStartStrict(ptes, vads, iPte + 1, j)

RECURSIVE Walk(_, _, _, _)
Walk(ptes, vads, iPte, iVad) ==
    IF iPte > Len(ptes) THEN {}
    ELSE LET b == ptes[iPte].vaBase
             j == Advance(vads, iVad, b)
             inVad == j <= Len(vads) /\ vads[j].vaStart <= b /\ vads[j].vaEnd >= b
         IN  (IF inVad THEN {} ELSE {iPte}) \cup Walk(ptes, vads, iPte + 1, j)

\* The files listed, given whether the optional VAD map was retrieved
\* (vadMap = "ok") or its first call or LocalAlloc failed (pVadMap NULL).
\* A file is the loop that listed it, its name (the base parsed back by
\* strtoull and whether the name contains ".vvmem") and its size.
ListFiles(ptes, vads, vadMap) ==
    LET listedPtes == IF vadMap = "ok" THEN Walk(ptes, vads, 1, 1)
                      ELSE 1..Len(ptes)
        vadFiles == IF vadMap = "ok"
                    THEN {[loop |-> "vad", va |-> vads[j].vaStart, fVad |-> TRUE,
                           size |-> (vads[j].vaEnd + 1 - vads[j].vaStart) % AMod]
                            : j \in 1..Len(vads)}
                    ELSE {}
        pteFiles == {[loop |-> "pte", va |-> ptes[j].vaBase, fVad |-> ptes[j].vvmemText,
                      size |-> (ptes[j].cPages * PageSize) % AMod]
                        : j \in listedPtes}
    IN  vadFiles \cup pteFiles

-----------------------------------------------------------------------------
(* VMemD_ReadWritePte / VMemD_ReadWriteVad after the map and the entry are *)
(* found.  The answer is the status, *pcbReadWrite, and the bytes read or  *)
(* written from vaBase + cbOffset.                                        *)

Answer(nt, count, len) == [nt |-> nt, count |-> count, len |-> len]

\* if(top <= vaBase + cbOffset) END_OF_FILE; else cbMax and the transfer.
Transfer(fRead, cb, top, eof, start, reqEnd) ==
    IF eof THEN Answer("END_OF_FILE", 0, 0)
    ELSE LET cbMax == (MinOf(top, reqEnd) - start) % AMod
             n == MinOf(cb, cbMax)
         IN  IF fRead THEN Answer(IF n # 0 THEN "SUCCESS" ELSE "END_OF_FILE", n, n)
             ELSE Answer("SUCCESS", cb, n)

ReadWritePte(ptes, vaBase, fRead, cb, cbOffset) ==
    LET i == QFind(vaBase, Bases(ptes, "vaBase"), 1)
    IN  IF i = NotFound THEN Answer("FILE_INVALID", 0, 0)
        ELSE LET pe == ptes[i + 1]
                 top == (pe.vaBase + pe.cPages * PageSize) % AMod
                 start == (vaBase + cbOffset) % AMod
             IN  Transfer(fRead, cb, top, top <= start, start,
                          (vaBase + cb + cbOffset) % AMod)

ReadWriteVad(vads, vaBase, fRead, cb, cbOffset) ==
    LET i == QFind(vaBase, Bases(vads, "vaStart"), 1)
    IN  IF i = NotFound THEN Answer("FILE_INVALID", 0, 0)
        ELSE LET pe == vads[i + 1]
                 start == (vaBase + cbOffset) % AMod
             IN  Transfer(fRead, cb, (pe.vaEnd + 1) % AMod, pe.vaEnd <= start,
                          start, (vaBase + cb + cbOffset) % AMod)

\* VMemD_Read and VMemD_WritePte: VMemD_GetBaseAndTypeFromFileName, then
\* the VAD or PTE path by whether the name contains ".vvmem".
ReadWrite(ptes, vads, file, fRead, cb, cbOffset) ==
    IF file.fVad THEN ReadWriteVad(vads, file.va, fRead, cb, cbOffset)
    ELSE ReadWritePte(ptes, file.va, fRead, cb, cbOffset)

-----------------------------------------------------------------------------
(* The cases.                                                              *)

\* qfind over the entries 2, 4, ..., 2n with every key from 0 to 2n + 1:
\* the comparisons depend only on where the key ranks among the entries, so
\* this is every rank, hit and miss, of every array size up to MaxEntries.
QFindCases ==
    UNION {{[kind |-> "qfind", map |-> [j \in 1..n |-> 2 * j], key |-> k, e |-> e]
              : k \in 0..2 * n + 1, e \in EntrySizes} : n \in 0..MaxEntries}

ListCases ==
    {[kind |-> "list", ptes |-> p, vads |-> v, vadMap |-> m]
        : p \in PteMaps, v \in VadMaps, m \in {"ok", "absent"}}

\* A read or write of a listed file, at every offset up to twice a page.
RWCase ==
    \E p \in PteMaps, v \in VadMaps :
        \E f \in ListFiles(p, v, "ok"), r \in BOOLEAN, cb \in ReqSizes,
          o \in 0..PageSize * 2 :
            in = [kind |-> "rw", ptes |-> p, vads |-> v, file |-> f, fRead |-> r,
                  cb |-> cb, cbOffset |-> o]

Init ==
    \/ "qfind" \in Kinds /\ in \in QFindCases
    \/ "list" \in Kinds /\ in \in ListCases
    \/ "rw" \in Kinds /\ RWCase

Next == UNCHANGED vars

Spec == Init /\ [][Next]_vars

-----------------------------------------------------------------------------
\* qfind finds the entry whose base address is the one wanted, and returns
\* NULL when there is none: the read and write paths use it to go from the
\* base address in a file name back to the entry.  Its binary search moves
\* by halving steps with DWORD offsets and ends with a look at the entry
\* before; an off-by-one in either misses an entry at the edge of the array.
QFindIsExactMatch ==
    in.kind = "qfind" => QFind(in.key, in.map, in.e) = ExactMatch(in.key, in.map, in.e)

\* VMemD_List shows a PTE map entry as a file of its own exactly when its
\* base address lies in no VAD, with or without the VAD map: the merge walk
\* keeps its VAD index from one PTE entry to the next and advances it only
\* past VADs that end below the entry, so a wrong step hides an entry or
\* lists one twice (once in its VAD's file).
ListedPtesOutsideVads ==
    in.kind = "list" =>
        LET vads == IF in.vadMap = "ok" THEN in.vads ELSE <<>>
            InVad(va) == \E v \in 1..Len(vads) :
                            vads[v].vaStart <= va /\ va <= vads[v].vaEnd
        IN  {f.va : f \in {g \in ListFiles(in.ptes, in.vads, in.vadMap) : g.loop = "pte"}}
              = {in.ptes[j].vaBase : j \in {i \in 1..Len(in.ptes) : ~InVad(in.ptes[i].vaBase)}}

\* Reference: a file of size S read or written at offset o for cb bytes
\* covers MinOf(cb, S - o) bytes, none at or past its end (spec 4.5: a
\* partial write is reported by written < requested).
Expected(file, cb, o) == IF o >= file.size THEN 0 ELSE MinOf(cb, file.size - o)

\* A read or write of a file that VMemD_List listed transfers exactly the
\* bytes of the file the request covers, reports that count, and succeeds
\* exactly when it is not zero.  The path goes through the file name, qfind,
\* the entry's end as a QWORD and cbMax.
RWMatchesFile ==
    in.kind = "rw" =>
        LET r == ReadWrite(in.ptes, in.vads, in.file, in.fRead, in.cb, in.cbOffset)
            x == Expected(in.file, in.cb, in.cbOffset)
        IN  r.len = x /\ r.count = x /\ (r.nt = "SUCCESS" <=> x > 0)

=============================================================================
