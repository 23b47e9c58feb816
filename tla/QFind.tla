-------------------------------- MODULE QFind --------------------------------
(***************************************************************************)
(* VMemD_Util_qfind (src/m_vmemd/m_vmemd.c): a binary search over an       *)
(* array of cMap entries of cbEntry bytes, sorted by base address, with a  *)
(* comparator that says whether the wanted address lies below (-1), above  *)
(* (1) or at (0) an entry.  The search works in byte offsets held in       *)
(* DWORDs, so a subtraction below zero wraps modulo 2^32.                  *)
(*                                                                         *)
(* The operators here are checked by the VMemD module.                    *)
(***************************************************************************)
EXTENDS Integers, Sequences

CONSTANT DWORD   \* the modulus of DWORD arithmetic

NotFound == -1

\* VMemD_ReadPte_CmpFind / VMemD_ReadVad_CmpFind: the wanted address
\* against an entry's base address.
CmpFind(vaFind, vaEntry) ==
    IF vaEntry > vaFind THEN -1 ELSE IF vaEntry < vaFind THEN 1 ELSE 0

\* The entry at byte offset cb of the array.
At(m, e, cb) == m[cb \div e + 1]

\* for(i = 1; ((cMap - 1) >> i); i++);
RECURSIVE FirstClearShift(_, _)
FirstClearShift(n, i) == IF n \div 2^i = 0 THEN i ELSE FirstClearShift(n, i + 1)

MinOf(a, b) == IF a < b THEN a ELSE b
MaxOf(a, b) == IF a > b THEN a ELSE b

\* The while loop: the final cbSearch, or the offset of an exact hit.
RECURSIVE Loop(_, _, _, _, _)
Loop(k, m, e, cbSearch, cbStep) ==
    LET cbMap == (Len(m) * e) % DWORD
        f == CmpFind(k, At(m, e, cbSearch))
    IN  IF cbStep < e THEN [hit |-> FALSE, cb |-> cbSearch]
        ELSE IF f = 0 THEN [hit |-> TRUE, cb |-> cbSearch]
        ELSE LET next == IF f < 0 THEN (cbSearch - cbStep) % DWORD
                         ELSE IF cbSearch + cbStep < cbMap THEN cbSearch + cbStep
                         ELSE cbSearch
             IN  Loop(k, m, e, next, cbStep \div 2)

\* After the loop, without the look at the entry before cbSearch.
FinishNoPrevious(k, m, e, cbSearch) ==
    IF cbSearch < (Len(m) * e) % DWORD /\ CmpFind(k, At(m, e, cbSearch)) = 0
    THEN cbSearch ELSE NotFound

\* After the loop: the entry at cbSearch, else the one before it.
Finish(k, m, e, cbSearch) ==
    LET cbMap == (Len(m) * e) % DWORD
    IN  IF cbSearch < cbMap /\ CmpFind(k, At(m, e, cbSearch)) = 0 THEN cbSearch
        ELSE IF cbSearch < cbMap /\ cbSearch >= e
                /\ CmpFind(k, At(m, e, cbSearch - e)) = 0 THEN cbSearch - e
        ELSE NotFound

\* VMemD_Util_qfind: the byte offset of the entry found, or NotFound (NULL).
QFind(k, m, e) ==
    IF Len(m) = 0 \/ e = 0 THEN NotFound
    ELSE LET i == FirstClearShift(Len(m) - 1, 1)
             cbSearch == e * MinOf(2^(i - 1), Len(m) - 1)
             cbStep == MaxOf(e, cbSearch \div 2)
             r == Loop(k, m, e, cbSearch, cbStep)
         IN  IF r.hit THEN r.cb ELSE Finish(k, m, e, r.cb)

-----------------------------------------------------------------------------
\* Reference: the offset of the entry equal to the key, if there is one.
ExactMatch(k, m, e) ==
    IF \E j \in 1..Len(m) : m[j] = k
    THEN ((CHOOSE j \in 1..Len(m) : m[j] = k) - 1) * e
    ELSE NotFound

=============================================================================
