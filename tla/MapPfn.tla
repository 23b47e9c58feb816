-------------------------------- MODULE MapPfn --------------------------------
(***************************************************************************)
(* VMMDLL_Map_GetPfn_Impl (src/vmm/vmmdll.c 1780-1809): the size query and *)
(* the fill of a PFN map.  Called without pMapDst it reports the bytes a   *)
(* map of cPfns entries takes; called with a buffer of *pcbMapDst bytes it *)
(* checks the size, pushes the PFNs into an ObSet (which drops duplicates),*)
(* has MmPfn_Map_GetPfnScatter build the map, zeroes cbDst bytes of the    *)
(* buffer and copies the map in.  The sizes are DWORDs: their width and    *)
(* the sizes of the header and of an entry (vmmdll.h) are constants.      *)
(* MmPfn_Map_GetPfnScatter is in mm_pfn.c, not in this repository: it     *)
(* returns an entry for some of the PFNs of the set (found).               *)
(***************************************************************************)
EXTENDS Naturals, Sequences, FiniteSets

CONSTANTS
    PfnDwordMod,     \* 2^32, the range of a DWORD
    PfnHdrSize,      \* sizeof(VMMDLL_MAP_PFN) before pMap
    PfnEntrySize,    \* sizeof(VMMDLL_MAP_PFNENTRY)
    PfnValues,       \* the PFNs a request may name
    PfnMaxCount,     \* bound on cPfns
    PfnBufSizes      \* the *pcbMapDst given with a buffer

PfnRange(s) == {s[i] : i \in DOMAIN s}

PfnMaxOf(a, b) == IF a >= b THEN a ELSE b

\* cbDstData = n * sizeof(VMMDLL_MAP_PFNENTRY); cbDst = sizeof(VMMDLL_MAP_PFN)
\* + cbDstData, both DWORD.
PfnMapBytes(n) == (PfnHdrSize + ((n * PfnEntrySize) % PfnDwordMod)) % PfnDwordMod

\* The answer: the result, *pcbMapDst on return, and the bytes written into
\* pMapDst (ZeroMemory of cbDst, then memcpy at pMap of cbDstData).
PfnAnswer(ok, cb, written, cMap) == [ok |-> ok, cb |-> cb, written |-> written, cMap |-> cMap]

\* Mutant: the buffer size is not checked.
VMMDLL_Map_GetPfn_Impl_NoSizeCheck(pfns, hasDst, cbIn, newOk, scatterOk, found) ==
    LET cbDst == PfnMapBytes(Len(pfns)) IN
    IF ~hasDst THEN PfnAnswer(TRUE, cbDst, 0, 0)
    ELSE IF ~newOk \/ ~scatterOk THEN PfnAnswer(FALSE, cbDst, 0, 0)
    ELSE LET cMap == Cardinality(found)
             data == (cMap * PfnEntrySize) % PfnDwordMod
         IN  PfnAnswer(TRUE, PfnMapBytes(cMap), PfnMaxOf(cbDst, PfnHdrSize + data), cMap)

\* VMMDLL_Map_GetPfn_Impl(H, pPfns, cPfns, pMapDst, pcbMapDst): hasDst is
\* pMapDst # NULL, cbIn is *pcbMapDst, newOk is ObSet_New's success, found
\* and scatterOk that of MmPfn_Map_GetPfnScatter, found the PFNs it maps.
VMMDLL_Map_GetPfn_Impl(pfns, hasDst, cbIn, newOk, scatterOk, found) ==
    LET cbDst == PfnMapBytes(Len(pfns)) IN
    IF ~hasDst THEN PfnAnswer(TRUE, cbDst, 0, 0)
    ELSE IF cbIn < cbDst \/ ~newOk \/ ~scatterOk THEN PfnAnswer(FALSE, cbDst, 0, 0)
    ELSE LET cMap == Cardinality(found)
             data == (cMap * PfnEntrySize) % PfnDwordMod
         IN  PfnAnswer(TRUE, PfnMapBytes(cMap), PfnMaxOf(cbDst, PfnHdrSize + data), cMap)

-----------------------------------------------------------------------------
\* Every request of up to PfnMaxCount PFNs, with and without a buffer, and
\* every outcome of ObSet_New and MmPfn_Map_GetPfnScatter.
PfnCases ==
    UNION {{[kind |-> "pfn", pfns |-> s, hasDst |-> d, cbIn |-> b, newOk |-> n,
             scatterOk |-> g, found |-> f] :
                d \in BOOLEAN, b \in PfnBufSizes, n \in BOOLEAN, g \in BOOLEAN,
                f \in SUBSET PfnRange(s)} :
           s \in UNION {[1..k -> PfnValues] : k \in 0..PfnMaxCount}}

\* The size-query protocol, with sizes as numbers (held only while the
\* sizes fit PfnDwordMod, README finding 9): the size reported to a
\* query is enough for any map the request can return; a buffer that large
\* is filled unless a step fails; a call that succeeds writes inside the
\* buffer, all of the map, and reports the bytes it wrote; a call that
\* fails writes nothing.
PfnAnswerRight(c) ==
    LET r == VMMDLL_Map_GetPfn_Impl(c.pfns, c.hasDst, c.cbIn, c.newOk, c.scatterOk, c.found)
        need(n) == PfnHdrSize + n * PfnEntrySize
    IN  /\ ~c.hasDst => r.ok /\ r.cb >= need(Len(c.pfns))
        /\ c.hasDst /\ r.ok =>
              /\ r.written <= c.cbIn
              /\ r.cb = need(r.cMap) /\ r.cMap = Cardinality(c.found)
        /\ c.hasDst /\ c.cbIn >= need(Len(c.pfns)) /\ c.newOk /\ c.scatterOk => r.ok
        /\ ~r.ok => r.written = 0

=============================================================================
