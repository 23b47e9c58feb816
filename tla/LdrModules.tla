------------------------------ MODULE LdrModules ------------------------------
(***************************************************************************)
(* The line-paged text files of the ldrmodules plugin                      *)
(* (src/vmm/m_ldrmodules.c): <module>\export.txt, import.txt,              *)
(* directories.txt and sections.txt.  Each is a table of fixed-length      *)
(* lines, one per EAT entry, IAT entry, data directory or section header.  *)
(* A read at cbOffset renders only the lines cStart..cEnd the request can  *)
(* touch into a buffer, then reads from that buffer at cbOffset shifted by *)
(* cStart lines.  The answer must be the bytes the whole table has there.  *)
(*                                                                         *)
(* Util_usnprintf_ln and Util_VfsReadFile_FromPBYTE are in util.c, which   *)
(* is not in this repository: they are modelled from their contract (spec  *)
(* 6: read returns bytes_read and a status).  A rendered line is what      *)
(* tells its bytes apart: byte c of line i is <<i, c>>.                    *)
(***************************************************************************)
EXTENDS QFind
LOCAL INSTANCE SequencesExt

CONSTANTS
    LineLenEAT,           \* LDRMODULES_LINELENGTH_EAT (78)
    LineLenIAT,           \* LDRMODULES_LINELENGTH_IAT (128)
    LineLenDirectories,   \* LDRMODULES_LINELENGTH_DIRECTORIES (54)
    LineLenSections,      \* LDRMODULES_LINELENGTH_SECTIONS (70)
    NDirectories,         \* IMAGE_NUMBEROF_DIRECTORY_ENTRIES (16)
    LdrMaxLines,          \* bound on the entries of an EAT, IAT or section table
    LdrReqSizes           \* the request sizes cb

LdrFiles == {"export.txt", "import.txt", "directories.txt", "sections.txt"}

\* Where a read can fail besides end of file: nowhere, the LocalAlloc of the
\* line buffer (or of the section headers), or the PE/map lookup.
LdrFailures == {"none", "alloc", "pe"}

LineLen(f) ==
    CASE f = "export.txt" -> LineLenEAT
      [] f = "import.txt" -> LineLenIAT
      [] f = "directories.txt" -> LineLenDirectories
      [] f = "sections.txt" -> LineLenSections

LdrAnswer(nt, data) == [nt |-> nt, data |-> data]

-----------------------------------------------------------------------------
\* Util_usnprintf_ln: line i, exactly cbLineLength bytes.
RenderLine(i, L) == [c \in 1..L |-> <<i, c - 1>>]

\* The loop "for(i = cStart; i <= cEnd; i++) o += Util_usnprintf_ln(sz + o, ...)".
RenderLines(first, last, L) ==
    FlattenSeq([k \in 1..(last - first + 1) |-> RenderLine(first + k - 1, L)])

\* Util_VfsReadFile_FromPBYTE(pbFile, cbFile, pb, cb, pcbRead, cbOffset).
FromPBYTE(buf, cbFile, cb, off) ==
    IF off > cbFile THEN LdrAnswer("END_OF_FILE", <<>>)
    ELSE LET n == MinOf(cb, cbFile - off)
         IN  LdrAnswer(IF n # 0 THEN "SUCCESS" ELSE "END_OF_FILE",
                       SubSeq(buf, off + 1, off + n))

\* The first and last line a request can touch:
\* cStart = cbOffset / L, cEnd = min(cMap - 1, (cb + cbOffset + L - 1) / L).
FirstLine(L, off) == off \div L
LastLine(n, L, cb, off) == MinOf(n - 1, (cb + off + L - 1) \div L)

\* Mutant: the buffer is read at the file offset, not at the offset into it.
PagedReadAbsOffset(n, L, fail, cb, off) ==
    IF n = 0 \/ FirstLine(L, off) > n THEN LdrAnswer("END_OF_FILE", <<>>)
    ELSE IF fail = "alloc" THEN LdrAnswer("FILE_INVALID", <<>>)
    ELSE LET cStart == FirstLine(L, off)
             cEnd == LastLine(n, L, cb, off)
         IN  FromPBYTE(RenderLines(cStart, cEnd, L), (1 + cEnd - cStart) * L, cb, off)

\* LdrModules_ReadFile_EAT: the table of cMap lines read at cbOffset.
PagedRead(n, L, fail, cb, off) ==
    IF n = 0 \/ FirstLine(L, off) > n THEN LdrAnswer("END_OF_FILE", <<>>)
    ELSE IF fail = "alloc" THEN LdrAnswer("FILE_INVALID", <<>>)
    ELSE LET cStart == FirstLine(L, off)
             cEnd == LastLine(n, L, cb, off)
         IN  FromPBYTE(RenderLines(cStart, cEnd, L), (1 + cEnd - cStart) * L,
                       cb, off - cStart * L)

\* LdrModules_ReadFile_IAT: the same code with the IAT line length.
ReadFile_IAT(n, fail, cb, off) == PagedRead(n, LineLenIAT, fail, cb, off)

\* LdrModules_ReadFile_Directories: PE_DirectoryGetAll first, then a fixed
\* table of 16 lines; the loop stops at min(15, cEnd).
ReadFile_Directories(fail, cb, off) ==
    LET L == LineLenDirectories
        cStart == FirstLine(L, off)
        cEnd == LastLine(NDirectories, L, cb, off)
    IN  IF fail = "pe" THEN LdrAnswer("FILE_INVALID", <<>>)
        ELSE IF cStart > NDirectories THEN LdrAnswer("END_OF_FILE", <<>>)
        ELSE IF fail = "alloc" THEN LdrAnswer("FILE_INVALID", <<>>)
        ELSE FromPBYTE(RenderLines(cStart, MinOf(NDirectories - 1, cEnd), L),
                       (1 + cEnd - cStart) * L, cb, off - cStart * L)

\* LdrModules_ReadFile_Sections: the end-of-file test comes before the two
\* LocalAllocs and PE_SectionGetAll, each of which goes to fail with
\* FILE_INVALID.
ReadFile_Sections(n, fail, cb, off) ==
    LET L == LineLenSections IN
    IF n = 0 \/ FirstLine(L, off) > n THEN LdrAnswer("END_OF_FILE", <<>>)
    ELSE IF fail # "none" THEN LdrAnswer("FILE_INVALID", <<>>)
    ELSE LET cStart == FirstLine(L, off)
             cEnd == LastLine(n, L, cb, off)
         IN  FromPBYTE(RenderLines(cStart, cEnd, L), (1 + cEnd - cStart) * L,
                       cb, off - cStart * L)

\* LdrModules_Read_ModuleSubFile for the four tables; export.txt and
\* import.txt first fetch their map (VmmMap_GetEAT / VmmMap_GetIAT), whose
\* failure leaves nt at FILE_INVALID.
ReadModuleSubFile(f, n, fail, cb, off) ==
    CASE f = "directories.txt" -> ReadFile_Directories(fail, cb, off)
      [] f = "export.txt" ->
            IF fail = "pe" THEN LdrAnswer("FILE_INVALID", <<>>)
            ELSE PagedRead(n, LineLenEAT, fail, cb, off)
      [] f = "import.txt" ->
            IF fail = "pe" THEN LdrAnswer("FILE_INVALID", <<>>)
            ELSE ReadFile_IAT(n, fail, cb, off)
      [] f = "sections.txt" -> ReadFile_Sections(n, fail, cb, off)

-----------------------------------------------------------------------------
\* The whole table as LdrModules_List sizes it: n lines of L bytes.
TableBytes(n, L) == [p \in 1..n * L |-> <<(p - 1) \div L, (p - 1) % L>>]

\* Reference: the bytes of the table from cbOffset, at most cb of them.
TableSlice(f, n, cb, off) ==
    LET rows == IF f = "directories.txt" THEN NDirectories ELSE n
        t == TableBytes(rows, LineLen(f))
    IN  IF off >= Len(t) THEN <<>> ELSE SubSeq(t, off + 1, MinOf(off + cb, Len(t)))

\* A read of every offset up to past the end of the largest table.
LdrCases ==
    {[kind |-> "ldr", file |-> f, n |-> n, fail |-> x, cb |-> cb, cbOffset |-> o] :
        f \in LdrFiles, n \in 0..LdrMaxLines, x \in LdrFailures, cb \in LdrReqSizes,
        o \in 0..MaxOf(NDirectories * LineLenDirectories,
                       (LdrMaxLines + 1) * MaxOf(LineLenEAT, LineLenIAT)) + 1}

\* The answer to one case is right: an error only where a step failed, and
\* otherwise exactly the bytes of the table the request covers, with
\* SUCCESS exactly when there is at least one.
LdrAnswerRight(c) ==
    LET r == ReadModuleSubFile(c.file, c.n, c.fail, c.cb, c.cbOffset)
        x == TableSlice(c.file, c.n, c.cb, c.cbOffset)
    IN  IF r.nt = "FILE_INVALID" THEN c.fail # "none"
        ELSE r.data = x /\ (r.nt = "SUCCESS" <=> x # <<>>)

=============================================================================
