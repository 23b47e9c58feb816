------------------------------ MODULE MC_Plugins ------------------------------
(***************************************************************************)
(* The file plugins whose read and list handlers are pure functions of a   *)
(* map and a request, checked together: a state is one case, of the kinds *)
(* of VMemD (vmemd), of kind "ldr" (LdrModules, the ldrmodules tables) or *)
(* of kind "sid" (OsSid, the SID conversions of the Linux build) or of    *)
(* kind "config" (Config, a sequence of ConfigSet calls on one handle) or  *)
(* of kind "pfn" (MapPfn, a call of VMMDLL_Map_GetPfn) or of kind "thread" *)
(* (ProcThread, the thread plugin's listing and its read and write) or of  *)
(* kind "pinfo" (ProcInfo, calls of VMMDLL_ProcessGetInformation on one   *)
(* buffer).                                                               *)
(***************************************************************************)
EXTENDS VMemD, LdrModules, OsSid, Config, MapPfn, ProcThread, ProcInfo

PluginsInit ==
    \/ Init
    \/ "ldr" \in Kinds /\ in \in LdrCases
    \/ "sid" \in Kinds /\ in \in SidCases
    \/ "config" \in Kinds /\ in \in CfgCases
    \/ "pfn" \in Kinds /\ in \in PfnCases
    \/ "thread" \in Kinds /\ in \in ThreadCases
    \/ "pinfo" \in Kinds /\ in \in PinfoCases

PluginsSpec == PluginsInit /\ [][Next]_vars

\* A read of export.txt, import.txt, directories.txt or sections.txt
\* returns exactly the bytes the whole table has at cbOffset, although the
\* handler renders only the lines from cbOffset / L to the line the request
\* can reach and reads its buffer at cbOffset shifted by those lines; it
\* fails only where the map, the PE headers or an allocation failed.
LdrReadMatchesTable == in.kind = "ldr" => LdrAnswerRight(in)

\* For strings of fewer than 256 dashes, ConvertStringSidToSidA accepts
\* exactly the well-formed SID strings, fills exactly the buffer it
\* allocated for the dashes it counted, and its SID passes IsValidSid and is
\* printed back by ConvertSidToStringSidA as the canonical string it was
\* parsed from.  Longer strings wrap the BYTE sub-authority count (README,
\* finding 7) and are outside SidLongFields.
SidRoundTrip == in.kind = "sid" => SidAnswerRight(in)

\* After any sequence of ConfigSet_Impl calls, refreshes included, each call
\* returned TRUE exactly on an option that can be written, and
\* ConfigGet_Impl answers for every option of CfgChecked (all but the
\* refresh triggers and IS_PAGING_ENABLED, whose inverted store is README
\* finding 8) what its last successful set
\* stored (a flag as 0/1, a tick count as its DWORD), or, if none, what the
\* handle started with: no set or refresh writes a field of another option.
ConfigRoundTrip == in.kind = "config" => CfgAnswerRight(in)

\* For requests whose byte size fits its DWORD (a PfnDwordMod above the
\* largest size; the wrap is README finding 9), VMMDLL_Map_GetPfn keeps its
\* size-query protocol: the size it reports
\* without a buffer is enough for the map, a buffer that large is filled
\* unless ObSet_New or the scatter fails, a successful call writes only
\* inside the buffer, all of the map, and reports the bytes written, and a
\* failed call writes nothing.
PfnSizeProtocol == in.kind = "pfn" => PfnAnswerRight(in)

\* The thread plugin's three handlers agree: every file MThread_List lists
\* in the threads directory or a <tid> directory is served by MThread_Read
\* with the listed size (a stack's up to its DWORD cast), every listed
\* memory file is served by MThread_Write over the same region, and every
\* <tid> directory listed at the root lists its thread's files.
ThreadListAgrees == in.kind = "thread" => ThreadAnswerRight(in)

\* VMMDLL_ProcessGetInformation keeps its size-query protocol and fills the
\* caller's VMMDLL_PROCESS_INFORMATION with the process asked for and only
\* it: a refused call leaves the buffer as it was, and after a successful
\* one every field holds that process's value where it applies to the
\* system and the token, and zero where it does not.  The buffer is one the
\* caller prepared (zeroed, magic and version set) for a single call;
\* reusing it after an earlier call (PinfoMaxCalls > 1) leaves stale
\* fields, README finding 10.
PinfoProcessInfoRight == in.kind = "pinfo" => PinfoAnswerRight(in)

=============================================================================
