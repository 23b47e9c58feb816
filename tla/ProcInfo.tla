------------------------------- MODULE ProcInfo -------------------------------
(***************************************************************************)
(* VMMDLL_ProcessGetInformation_Impl (src/vmm/vmmdll.c 1864-1908): the     *)
(* size query and the fill of a caller's VMMDLL_PROCESS_INFORMATION.  The  *)
(* caller sets magic and wVersion; the call checks them and the size,      *)
(* looks the process up, zeroes the start of the structure and writes the  *)
(* fields.  The structure is a function from field groups to values:       *)
(*   magic, wVersion, wSize  the header                                    *)
(*   gen      the general fields (memory model, system, fUserOnly, PIDs,   *)
(*            state, DTBs, szName, szNameLong), always written             *)
(*   wow      win.fWow64 and win.vaPEB32, written on 64-bit Windows        *)
(*   win      win.vaEPROCESS, vaPEB, qwLUID, dwSessionId, IntegrityLevel,  *)
(*            written on Windows                                           *)
(*   sid      win.szSID, written when the token has a SID                  *)
(* A process's values are tagged with its PID; <<>> is a zeroed field.     *)
(* The bytes ZeroMemory clears are given as the field groups they cover.   *)
(***************************************************************************)
EXTENDS Naturals, Sequences, FiniteSets

CONSTANTS
    PinfoPids,        \* the PIDs of the process table
    PinfoSystems,     \* H->vmm.tpSystem: "x64", "x86" or another system
    PinfoZeroed,      \* the fields ZeroMemory(pInfo, sizeof(VMMDLL_PROCESS_INFORMATION_MAGIC)) clears
    PinfoMaxCalls     \* bound on the calls made on one buffer

MAGIC == <<"magic">>
VERSION == <<"version">>
Zero == <<>>
InfoSize == 2           \* sizeof(VMMDLL_PROCESS_INFORMATION), in units
PinfoFields == {"magic", "wVersion", "wSize", "gen", "wow", "win", "sid"}

\* A process as VmmProcessGetEx returns it: whether its token has a SID.
PinfoProc(pid, hasSid) == [pid |-> pid, hasSid |-> hasSid]

\* The value a field gets from process p.
Val(p, f) == <<f, p.pid>>

\* A fill that writes win.fWow64 and win.vaPEB32 on 32-bit Windows too.
PinfoFill_WowOnX86(buf, p, sys) ==
    [f \in PinfoFields |->
        CASE f = "magic" -> MAGIC [] f = "wVersion" -> VERSION [] f = "wSize" -> <<InfoSize>>
          [] f = "gen" -> Val(p, f)
          [] f \in {"wow", "win"} /\ sys \in {"x64", "x86"} -> Val(p, f)
          [] f = "sid" /\ sys \in {"x64", "x86"} /\ p.hasSid -> Val(p, f)
          [] OTHER -> IF f \in PinfoZeroed THEN Zero ELSE buf[f]]

\* The ZeroMemory of the first bytes and the writes of the fields from the
\* process p found.
PinfoFill(buf, p, sys) ==
    LET win == sys \in {"x64", "x86"}
        zeroed == [f \in PinfoFields |-> IF f \in PinfoZeroed THEN Zero ELSE buf[f]]
    IN  [f \in PinfoFields |->
            CASE f = "magic"    -> MAGIC
              [] f = "wVersion" -> VERSION
              [] f = "wSize"    -> <<InfoSize>>
              [] f = "gen"      -> Val(p, f)
              [] f = "wow" /\ sys = "x64" -> Val(p, f)
              [] f = "win" /\ win -> Val(p, f)
              [] f = "sid" /\ win /\ p.hasSid -> Val(p, f)
              [] OTHER -> zeroed[f]]

\* VMMDLL_ProcessGetInformation_Impl(H, dwPID, pInfo, pcbProcessInfo):
\* hasCb is pcbProcessInfo # NULL, hasInfo pInfo # NULL, buf *pInfo, cb
\* is *pcbProcessInfo, procs the process table and sys H->vmm.tpSystem.
\* The answer: the result, *pcbProcessInfo and *pInfo on return.
VMMDLL_ProcessGetInformation_Impl(hasCb, hasInfo, buf, cb, pid, procs, sys) ==
    LET found == {p \in procs : p.pid = pid}
        fail == [ok |-> FALSE, cb |-> cb, buf |-> buf]
    IN  IF ~hasCb THEN fail
        ELSE IF ~hasInfo THEN [ok |-> TRUE, cb |-> InfoSize, buf |-> buf]
        ELSE IF cb < InfoSize \/ buf.magic # MAGIC \/ buf.wVersion # VERSION \/ found = {}
        THEN fail
        ELSE [ok |-> TRUE, cb |-> cb, buf |-> PinfoFill(buf, CHOOSE p \in found : TRUE, sys)]

-----------------------------------------------------------------------------
\* A buffer as the caller prepares it: ZeroMemory, then magic and
\* wVersion (or a wrong magic or version).
PinfoFresh(m, v) == [f \in PinfoFields |-> CASE f = "magic" -> m [] f = "wVersion" -> v [] OTHER -> Zero]

\* The calls on one buffer: each reuses the buffer the previous call left.
RECURSIVE PinfoRun(_, _, _, _, _)
PinfoRun(hasInfo, buf, calls, procs, sys) ==
    IF calls = <<>> THEN <<>>
    ELSE LET c == Head(calls)
             r == VMMDLL_ProcessGetInformation_Impl(c.hasCb, hasInfo, buf, c.cb, c.pid, procs, sys)
         IN  <<r>> \o PinfoRun(hasInfo, r.buf, Tail(calls), procs, sys)

PinfoCall == [hasCb : BOOLEAN, cb : {1, 2}, pid : PinfoPids \cup {0}]

\* Every process table (each process with or without a SID), system,
\* prepared buffer (or NULL), and sequence of up to PinfoMaxCalls calls.
PinfoCases ==
    UNION {{[kind |-> "pinfo", procs |-> {PinfoProc(x, s[x]) : x \in T}, sys |-> y,
             hasInfo |-> h, buf |-> b, calls |-> cs] :
               y \in PinfoSystems, h \in BOOLEAN,
               b \in {PinfoFresh(m, v) : m \in {MAGIC, Zero}, v \in {VERSION, Zero}},
               cs \in UNION {[1..k -> PinfoCall] : k \in 1..PinfoMaxCalls}} :
           T \in SUBSET PinfoPids, s \in [PinfoPids -> BOOLEAN]}

\* The answer is right: without pcbProcessInfo the call fails; without a
\* buffer it reports the size; a buffer too small, with a wrong magic or
\* version, or for a PID not in the table is left as it was; otherwise
\* the buffer describes the process asked for and nothing else: each field
\* holds that process's value where it applies to the system and the
\* process, and is zero where it does not.  It holds for the first call on
\* a prepared buffer; a second call on the same buffer breaks it (README
\* finding 10).
PinfoAnswerRight(c) ==
    LET rs == PinfoRun(c.hasInfo, c.buf, c.calls, c.procs, c.sys)
        win == c.sys \in {"x64", "x86"}
    IN  \A i \in 1..Len(rs) :
          LET q == c.calls[i]
              r == rs[i]
              before == IF i = 1 THEN c.buf ELSE rs[i-1].buf
              p == [pid |-> q.pid, hasSid |-> \E x \in c.procs : x.pid = q.pid /\ x.hasSid]
              applies(f) == f = "gen" \/ (f = "wow" /\ c.sys = "x64") \/ (f = "win" /\ win)
                            \/ (f = "sid" /\ win /\ p.hasSid)
          IN  /\ ~q.hasCb => ~r.ok
              /\ q.hasCb /\ ~c.hasInfo => r.ok /\ r.cb = InfoSize
              /\ r.ok /\ c.hasInfo =>
                    /\ q.cb >= InfoSize /\ \E x \in c.procs : x.pid = q.pid
                    /\ \A f \in {"gen", "wow", "win", "sid"} :
                          r.buf[f] = IF applies(f) THEN Val(p, f) ELSE Zero
              /\ ~r.ok => r.buf = before
=============================================================================
