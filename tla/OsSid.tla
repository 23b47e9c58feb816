-------------------------------- MODULE OsSid --------------------------------
(***************************************************************************)
(* The SID conversions of the Linux build (src/vmm/oscompatibility.c       *)
(* 292-377): ConvertStringSidToSidA parses "S-1-<authority>-<sub>-..."     *)
(* into a SID buffer, ConvertSidToStringSidA prints a SID buffer back, and *)
(* IsValidSid is the second conversion's success.                          *)
(*                                                                         *)
(* A string is the sequence of its characters after "S-1-"; a character is *)
(* "-", a digit, or any other character, which strtoul stops at.  A SID    *)
(* buffer is the record of what the code writes into it: the version byte, *)
(* the count byte, the authority (bytes 2..7) and the sub-authority DWORDs *)
(* in the order written.  The widths of the DWORD and of the 48-bit        *)
(* authority are constants, reduced for TLC.                               *)
(***************************************************************************)
EXTENDS Naturals, Sequences, FiniteSets
LOCAL INSTANCE SequencesExt

CONSTANTS
    SidChars,       \* the characters a string is made of
    SidMaxLen,      \* bound on the strings enumerated character by character
    SidLongFields,  \* sub-authority counts of the long strings checked
    SidDwordMod,    \* 2^32, the range of a sub-authority DWORD
    SidAuthMod      \* 2^48, the range of the authority

SID_MAX_SUB_AUTHORITIES == 15
ByteMod == 256      \* BYTE c counts the dashes

Digits == <<"0", "1", "2", "3", "4", "5", "6", "7", "8", "9">>
IsDigit(ch) == \E i \in 1..10 : Digits[i] = ch
DigitVal(ch) == CHOOSE i \in 0..9 : Digits[i + 1] = ch

SidNoBuffer == [ok |-> FALSE]

-----------------------------------------------------------------------------
\* strtoul / strtoull at s[k]: the value of the digits that start there (0
\* if none).  The strings checked are too short to reach ULONG_MAX.
RECURSIVE Leading(_, _, _)
Leading(s, k, acc) ==
    IF k <= Len(s) /\ IsDigit(s[k]) THEN Leading(s, k + 1, acc * 10 + DigitVal(s[k]))
    ELSE acc

StrToUL(s, k) == Leading(s, k, 0)

\* The parse loop: szSID += 1 until NUL (return TRUE) or '-', whose next
\* character starts the DWORD written at pbSID.
RECURSIVE ScanSubs(_, _, _)
ScanSubs(s, k, subs) ==
    IF k + 1 > Len(s) THEN subs
    ELSE IF s[k + 1] = "-"
         THEN ScanSubs(s, k + 2, Append(subs, StrToUL(s, k + 2) % SidDwordMod))
         ELSE ScanSubs(s, k + 1, subs)

Dashes(s) == {i \in 1..Len(s) : s[i] = "-"}

\* Mutant: a second dash in a row is not refused.
ConvertStringSidToSidA_NoDoubleDash(prefixOk, allocOk, s) ==
    LET c == Cardinality(Dashes(s)) % ByteMod IN
    IF ~prefixOk THEN SidNoBuffer
    ELSE IF c = 0 \/ c > SID_MAX_SUB_AUTHORITIES \/ s[Len(s)] = "-" THEN SidNoBuffer
    ELSE IF ~allocOk THEN SidNoBuffer
    ELSE [ok |-> TRUE, cb |-> 8 + c * 4, ver |-> 1, cnt |-> c,
          auth |-> StrToUL(s, 1) % SidAuthMod, subs |-> ScanSubs(s, 1, <<>>)]

\* ConvertStringSidToSidA: the "S-1-" prefix (prefixOk), the dash count
\* with its double-dash refusal (szSID[i - 1] of the first character is the
\* dash of the prefix), the count and trailing-dash checks, LocalAlloc of
\* 8 + c * 4 bytes (allocOk), the authority byte-swapped into bytes 0..7
\* with bytes 0 and 1 then overwritten by 1 and c, and the parse loop.
ConvertStringSidToSidA(prefixOk, allocOk, s) ==
    LET c == Cardinality(Dashes(s)) % ByteMod
        Prev(i) == IF i = 1 THEN "-" ELSE s[i - 1]
    IN  IF ~prefixOk THEN SidNoBuffer
        ELSE IF \E i \in Dashes(s) : Prev(i) = "-" THEN SidNoBuffer
        ELSE IF c = 0 \/ c > SID_MAX_SUB_AUTHORITIES \/ s[Len(s)] = "-" THEN SidNoBuffer
        ELSE IF ~allocOk THEN SidNoBuffer
        ELSE [ok |-> TRUE, cb |-> 8 + c * 4, ver |-> 1, cnt |-> c,
              auth |-> StrToUL(s, 1) % SidAuthMod, subs |-> ScanSubs(s, 1, <<>>)]

\* The bytes the parse loop writes into the buffer.
SidWritten(sid) == 8 + 4 * Len(sid.subs)

-----------------------------------------------------------------------------
\* snprintf "%llu" / "%u".
RECURSIVE Decimal(_)
Decimal(n) ==
    IF n < 10 THEN <<Digits[n + 1]>> ELSE Decimal(n \div 10) \o <<Digits[(n % 10) + 1]>>

SidPrefix == <<"S", "-", "1", "-">>

\* ConvertSidToStringSidA: version 1, 1..15 sub-authorities, LocalAlloc of
\* the string (allocOk), "S-1-%llu" of the masked authority, then "-%u" of
\* each of the c DWORDs.
ConvertSidToStringSidA(sid, allocOk) ==
    IF ~sid.ok \/ sid.ver # 1 THEN [ok |-> FALSE]
    ELSE IF sid.cnt = 0 \/ sid.cnt > SID_MAX_SUB_AUTHORITIES THEN [ok |-> FALSE]
    ELSE IF ~allocOk THEN [ok |-> FALSE]
    ELSE [ok |-> TRUE,
          str |-> SidPrefix \o Decimal(sid.auth)
                  \o FlattenSeq([j \in 1..sid.cnt |-> <<"-">> \o Decimal(sid.subs[j])])]

\* IsValidSid: the conversion to a string succeeds.
IsValidSid(sid, allocOk) == ConvertSidToStringSidA(sid, allocOk).ok

-----------------------------------------------------------------------------
(* Reference: the SID grammar, read off the fields between the dashes.    *)

\* The fields of s between its dashes, the authority first.
RECURSIVE SplitDash(_, _)
SplitDash(s, cur) ==
    IF s = <<>> THEN <<cur>>
    ELSE IF Head(s) = "-" THEN <<cur>> \o SplitDash(Tail(s), <<>>)
    ELSE SplitDash(Tail(s), Append(cur, Head(s)))

SidFields(s) == SplitDash(s, <<>>)

\* An authority and 1..15 sub-authorities, none of them empty.
SidWellFormed(s) ==
    LET F == SidFields(s) IN
    /\ Len(F) - 1 \in 1..SID_MAX_SUB_AUTHORITIES
    /\ \A j \in 1..Len(F) : F[j] # <<>>

\* Decimal numbers as printed, each within its width.
SidCanonical(s) ==
    LET F == SidFields(s)
        Num(f) == \A i \in 1..Len(f) : IsDigit(f[i])
    IN  /\ SidWellFormed(s)
        /\ \A j \in 1..Len(F) :
             /\ Num(F[j])
             /\ Decimal(StrToUL(F[j], 1)) = F[j]
             /\ StrToUL(F[j], 1) < IF j = 1 THEN SidAuthMod ELSE SidDwordMod

\* Every string of at most SidMaxLen characters, and "1-1-...-1" with each
\* count of SidLongFields, with the prefix and the allocations as given.
SidCases ==
    {[kind |-> "sid", prefix |-> TRUE, alloc |-> TRUE, s |-> s] :
        s \in SeqOf(SidChars, SidMaxLen)
              \cup {<<"1">> \o FlattenSeq([j \in 1..n |-> <<"-", "1">>]) : n \in SidLongFields}}
    \cup {[kind |-> "sid", prefix |-> p, alloc |-> a, s |-> <<"1", "-", "2">>] :
            p \in BOOLEAN, a \in BOOLEAN}

\* A string is converted exactly when it is well formed (and the prefix and
\* LocalAlloc are right); the parse writes exactly the bytes it allocated;
\* the SID it returns is valid and prints back as the string it came from
\* when that string is canonical.  It holds while the dash count fits the
\* BYTE sub-authority count; 256 or more wrap it (README finding 7).
SidAnswerRight(c) ==
    LET r == ConvertStringSidToSidA(c.prefix, c.alloc, c.s) IN
    /\ r.ok <=> (c.prefix /\ c.alloc /\ SidWellFormed(c.s))
    /\ r.ok => /\ SidWritten(r) = r.cb
               /\ IsValidSid(r, TRUE)
               /\ SidCanonical(c.s) =>
                    ConvertSidToStringSidA(r, TRUE).str = SidPrefix \o c.s

=============================================================================
