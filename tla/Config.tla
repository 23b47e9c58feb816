-------------------------------- MODULE Config --------------------------------
(***************************************************************************)
(* The configuration options of a VMM handle (src/vmm/vmmdll.c 214-382):   *)
(* VMMDLL_ConfigGet_Impl reads an option, VMMDLL_ConfigSet_Impl writes one *)
(* or triggers a refresh.  Both switch on the upper 32 bits of fOption; an *)
(* option neither switch knows goes to LeechCore (LcGetOption,             *)
(* LcSetOption).                                                           *)
(*                                                                         *)
(* An option is the name of its VMMDLL_OPT_ constant ("NONE" is fOption    *)
(* 0).  The handle state is a record of the fields the two functions read  *)
(* and write.  A refresh option is the set of refresh tiers whose bits it  *)
(* has (each VMMDLL_OPT_REFRESH_FREQ_ mask is one distinct bit of 32..47,  *)
(* and REFRESH_ALL has them all).  What the other layers do is in the      *)
(* state as well: the number of VmmProcRefresh_<tier> calls, the options   *)
(* LeechCore keeps, the forensic mode FcInitialize set.  LeechCore, fc.c   *)
(* and vmmproc.c are not in this repository; their parts are modelled      *)
(* from the spec (6: get_option/set_option pass through to the device,     *)
(* forensic_mode in 0..4).  The DWORD width is a constant, reduced for     *)
(* TLC; VMM_FLAG_NOPAGING, from vmm.h, is a constant too.                  *)
(***************************************************************************)
EXTENDS Naturals, Sequences, FiniteSets
LOCAL INSTANCE Bitwise

CONSTANTS
    CfgDwordMod,        \* 2^32: the range of a DWORD field
    CfgValues,          \* the values qwValue given to ConfigSet
    VMM_FLAG_NOPAGING,  \* the bit of H->vmm.flags read by IS_PAGING_ENABLED
    CfgCallsMax         \* bound on the calls of one sequence

\* Options read from a field of H->vmm (or H->dev) as stored.
CfgGetField ==
    [CORE_SYSTEM |-> "tpSystem", CORE_MEMORYMODEL |-> "tpMemoryModel",
     CONFIG_TICK_PERIOD |-> "cMs_TickPeriod", CONFIG_READCACHE_TICKS |-> "cTick_MEM",
     CONFIG_TLBCACHE_TICKS |-> "cTick_TLB", CONFIG_PROCCACHE_TICKS_PARTIAL |-> "cTick_Fast",
     CONFIG_PROCCACHE_TICKS_TOTAL |-> "cTick_Medium", WIN_VERSION_MAJOR |-> "dwVersionMajor",
     WIN_VERSION_MINOR |-> "dwVersionMinor", WIN_VERSION_BUILD |-> "dwVersionBuild",
     WIN_SYSTEM_UNIQUE_ID |-> "dwSystemUniqueId", CORE_MAX_NATIVE_ADDRESS |-> "paMax"]

\* The compiled-in VERSION_MAJOR, VERSION_MINOR and VERSION_REVISION.
CfgVersion ==
    [CONFIG_VMM_VERSION_MAJOR |-> 5, CONFIG_VMM_VERSION_MINOR |-> 0,
     CONFIG_VMM_VERSION_REVISION |-> 0]

\* The verbosity options and the H->cfg flag each sets.
CfgVerbose ==
    [CORE_PRINTF_ENABLE |-> "fVerboseDll", CORE_VERBOSE |-> "fVerbose",
     CORE_VERBOSE_EXTRA |-> "fVerboseExtra", CORE_VERBOSE_EXTRA_TLP |-> "fVerboseExtraTlp"]

\* The refresh options and the tiers each has a bit of.
RefreshTiers == {"MEM", "MEM_PARTIAL", "TLB", "TLB_PARTIAL", "FAST", "MEDIUM", "SLOW"}
CfgRefresh ==
    [REFRESH_ALL |-> RefreshTiers, REFRESH_FREQ_MEM |-> {"MEM"},
     REFRESH_FREQ_TLB_PARTIAL |-> {"TLB_PARTIAL"}, REFRESH_FREQ_MEDIUM |-> {"MEDIUM"}]

\* Options LeechCore answers: the verbosity options and a device option.
LcOptions == DOMAIN CfgVerbose \cup {"DEVICE"}

CfgOptions ==
    DOMAIN CfgGetField \cup DOMAIN CfgVersion \cup DOMAIN CfgVerbose \cup DOMAIN CfgRefresh
    \cup {"NONE", "CONFIG_IS_REFRESH_ENABLED", "CONFIG_IS_PAGING_ENABLED",
          "CONFIG_STATISTICS_FUNCTIONCALL", "FORENSIC_MODE", "DEVICE"}

Bool01(b) == IF b THEN 1 ELSE 0

-----------------------------------------------------------------------------
\* LcGetOption / LcSetOption: LeechCore keeps the options it knows.
LcGetOption(st, o) ==
    IF o \in LcOptions THEN [ok |-> TRUE, val |-> st.lc[o]] ELSE [ok |-> FALSE]

LcSetOption(st, o, v) ==
    IF o \in LcOptions THEN [ok |-> TRUE, st |-> [st EXCEPT !.lc[o] = v]]
    ELSE [ok |-> FALSE, st |-> st]

\* VMMDLL_ConfigGet_Impl.
ConfigGet_Impl(st, o) ==
    LET Ok(x) == [ok |-> TRUE, val |-> x] IN
    CASE o = "NONE" -> [ok |-> FALSE]
      [] o \in DOMAIN CfgGetField -> Ok(st.vmm[CfgGetField[o]])
      [] o \in DOMAIN CfgVersion -> Ok(CfgVersion[o])
      [] o = "CONFIG_IS_REFRESH_ENABLED" -> Ok(Bool01(st.fEnabled))
      [] o = "CONFIG_IS_PAGING_ENABLED" -> Ok(IF (st.flags & VMM_FLAG_NOPAGING) # 0 THEN 0 ELSE 1)
      [] o = "CONFIG_STATISTICS_FUNCTIONCALL" -> Ok(Bool01(st.stats))
      [] o = "FORENSIC_MODE" -> Ok(st.fc % 256)
      [] o \in DOMAIN CfgVerbose -> Ok(Bool01(st.cfg[CfgVerbose[o]]))
      [] OTHER -> LcGetOption(st, o)

\* Mutant: a copied case stores TLBCACHE_TICKS into cTick_MEM.
CfgSetDword_TlbToMem ==
    [CONFIG_TICK_PERIOD |-> "cMs_TickPeriod", CONFIG_READCACHE_TICKS |-> "cTick_MEM",
     CONFIG_TLBCACHE_TICKS |-> "cTick_MEM", CONFIG_PROCCACHE_TICKS_PARTIAL |-> "cTick_Fast",
     CONFIG_PROCCACHE_TICKS_TOTAL |-> "cTick_Medium"]

\* The tick options ConfigSet stores as (DWORD)qwValue, and their fields.
CfgSetDword ==
    [CONFIG_TICK_PERIOD |-> "cMs_TickPeriod", CONFIG_READCACHE_TICKS |-> "cTick_MEM",
     CONFIG_TLBCACHE_TICKS |-> "cTick_TLB", CONFIG_PROCCACHE_TICKS_PARTIAL |-> "cTick_Fast",
     CONFIG_PROCCACHE_TICKS_TOTAL |-> "cTick_Medium"]

\* The VmmProcRefresh_<tier> calls of a refresh option with the given tier
\* bits: three MEM (TLB) calls for the full tier, one for the partial one.
RefreshCalls(T) ==
    [MEM |-> 3 * Bool01("MEM" \in T) + Bool01("MEM_PARTIAL" \in T),
     TLB |-> 3 * Bool01("TLB" \in T) + Bool01("TLB_PARTIAL" \in T),
     Fast |-> Bool01("FAST" \in T), Medium |-> Bool01("MEDIUM" \in T),
     Slow |-> Bool01("SLOW" \in T)]

\* FcInitialize(H, (DWORD)qwValue, FALSE): fc.c is not in this repository;
\* it sets a mode of 1..4 when it succeeds (fcOk) and fails otherwise.
FcInitialize(st, v, fcOk) ==
    IF fcOk /\ v % CfgDwordMod \in 1..4
    THEN [ok |-> TRUE, st |-> [st EXCEPT !.fc = v % CfgDwordMod]]
    ELSE [ok |-> FALSE, st |-> st]

\* VMMDLL_ConfigSet_Impl with H live (CALL_IMPLEMENTATION_VMM checked it):
\* a refresh option makes its refresh calls and returns TRUE; a verbosity
\* option is passed to LeechCore, its result ignored, then stored in H->cfg
\* (VmmLog_LevelRefresh and PluginManager_Notify only log and notify).
ConfigSet_Impl(st, o, v, fcOk) ==
    LET Done(s) == [ok |-> TRUE, st |-> s] IN
    CASE o \in DOMAIN CfgRefresh ->
            LET n == RefreshCalls(CfgRefresh[o]) IN
            Done([st EXCEPT !.refresh = [p \in DOMAIN n |-> st.refresh[p] + n[p]]])
      [] o \in DOMAIN CfgVerbose ->
            Done([LcSetOption(st, o, v).st EXCEPT !.cfg[CfgVerbose[o]] = (v # 0)])
      [] o = "CONFIG_IS_PAGING_ENABLED" ->
            Done([st EXCEPT !.flags = (st.flags - (st.flags & VMM_FLAG_NOPAGING))
                                      | (IF v # 0 THEN 0 ELSE 1)])
      [] o \in DOMAIN CfgSetDword ->
            Done([st EXCEPT !.vmm[CfgSetDword[o]] = v % CfgDwordMod])
      [] o = "CONFIG_STATISTICS_FUNCTIONCALL" -> Done([st EXCEPT !.stats = (v # 0)])
      [] o = "FORENSIC_MODE" -> FcInitialize(st, v, fcOk)
      [] OTHER -> LcSetOption(st, o, v)


-----------------------------------------------------------------------------
(* Sequences of ConfigSet calls on one handle, and what ConfigGet answers  *)
(* after them.                                                             *)

\* The handle after VMMDLL_Initialize: 7 stands for every value a field has
\* there, outside CfgValues so that a write to it shows.
CfgInitState(flags0) ==
    [vmm |-> [f \in {CfgGetField[o] : o \in DOMAIN CfgGetField} |-> 7],
     fEnabled |-> TRUE, flags |-> flags0, stats |-> FALSE, fc |-> 0,
     cfg |-> [f \in {CfgVerbose[o] : o \in DOMAIN CfgVerbose} |-> FALSE],
     lc |-> [o \in LcOptions |-> 7],
     refresh |-> [p \in {"MEM", "TLB", "Fast", "Medium", "Slow"} |-> 0]]

\* The calls in order: the state after them and the result of each.
RECURSIVE CfgRun(_, _, _)
CfgRun(st, calls, oks) ==
    IF calls = <<>> THEN [st |-> st, oks |-> oks]
    ELSE LET r == ConfigSet_Impl(st, Head(calls).o, Head(calls).v, Head(calls).fcOk)
         IN  CfgRun(r.st, Tail(calls), Append(oks, r.ok))

\* A call with fcOk FALSE only for FORENSIC_MODE, where FcInitialize may fail.
CfgCalls ==
    [o : CfgOptions, v : CfgValues, fcOk : {TRUE}]
    \cup [o : {"FORENSIC_MODE"}, v : CfgValues, fcOk : {FALSE}]

CfgCases ==
    {[kind |-> "config", flags0 |-> f, calls |-> cs] :
        f \in {0, VMM_FLAG_NOPAGING},
        cs \in UNION {[1..n -> CfgCalls] : n \in 0..CfgCallsMax}}

\* Reference (spec 6): the options a set may change and what a get then
\* answers.  A set succeeds exactly on a writable option: a refresh, a
\* verbosity, tick or statistics option, a device option LeechCore knows,
\* and a forensic mode 1..4 FcInitialize accepts.
CfgWritable(c) ==
    \/ c.o \in DOMAIN CfgRefresh \cup DOMAIN CfgVerbose \cup DOMAIN CfgSetDword
    \/ c.o \in {"CONFIG_IS_PAGING_ENABLED", "CONFIG_STATISTICS_FUNCTIONCALL", "DEVICE"}
    \/ c.o = "FORENSIC_MODE" /\ c.fcOk /\ c.v % CfgDwordMod \in 1..4

\* The value read back: a flag as 0/1, a DWORD field truncated to its width.
CfgReadBack(o, v) ==
    IF o \in DOMAIN CfgVerbose \cup {"CONFIG_STATISTICS_FUNCTIONCALL"} THEN Bool01(v # 0)
    ELSE IF o \in DOMAIN CfgSetDword \cup {"FORENSIC_MODE"} THEN v % CfgDwordMod
    ELSE v

\* The options checked after the calls.  IS_PAGING_ENABLED is left out:
\* ConfigSet stores "qwValue ? 0 : 1", not VMM_FLAG_NOPAGING (README).
CfgChecked == CfgOptions \ ({"NONE", "CONFIG_IS_PAGING_ENABLED"} \cup DOMAIN CfgRefresh)

\* After any sequence of ConfigSet calls, each returned TRUE exactly on a
\* writable option, and ConfigGet of every option answers what the last
\* successful set of it stored, or what the handle had at start.
CfgAnswerRight(c) ==
    LET init == CfgInitState(c.flags0)
        r == CfgRun(init, c.calls, <<>>)
        Sets(o) == {j \in DOMAIN c.calls : c.calls[j].o = o /\ r.oks[j]}
    IN  /\ \A j \in DOMAIN c.calls : r.oks[j] <=> CfgWritable(c.calls[j])
        /\ \A o \in CfgChecked :
             ConfigGet_Impl(r.st, o) =
                IF Sets(o) = {} THEN ConfigGet_Impl(init, o)
                ELSE LET j == CHOOSE j \in Sets(o) : \A i \in Sets(o) : i <= j
                     IN  [ok |-> TRUE, val |-> CfgReadBack(o, c.calls[j].v)]
=============================================================================
