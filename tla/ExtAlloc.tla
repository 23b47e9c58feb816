------------------------------- MODULE ExtAlloc -------------------------------
(***************************************************************************)
(* The external allocation registry (src/vmm/vmmdll_core.c 680-738) and    *)
(* the API calls that hand its blocks to the user (src/vmm/vmmdll.c).      *)
(*                                                                         *)
(* VmmDllCore_MemAllocExternal allocates an OB object (refcount 1), pushes *)
(* it into the global ObMap g_VMMDLL_ALLOCMAP_EXT under its data address,  *)
(* which takes a reference of its own, and drops the creator's reference:  *)
(* from then on the map alone owns the block.  VMMDLL_MemFree removes the  *)
(* key and drops the map's reference; VMMDLL_MemSize looks the key up and  *)
(* then reads the object header.                                           *)
(*                                                                         *)
(* Every VMMDLL_Map_Get*_Impl, VMMDLL_VfsListBlob_Impl, VMMDLL_MemSearch   *)
(* and VMMDLL_ProcessGetInformationString follows one pattern: fetch the   *)
(* source data (may fail), MemAllocExternal (may fail), fill the block     *)
(* (for the calls that copy strings through an ObStrMap this may fail),    *)
(* and on a failure after the allocation VMMDLL_MemFree the block at fail. *)
(* Each call below lists which of its steps can fail.                      *)
(*                                                                         *)
(* The OB core and ObMap are not in this repository: Ob_AllocEx, Ob_DECREF *)
(* and the ObMap operations are modelled from spec 4.7 as atomic steps.    *)
(* LocalAlloc may return any free address, so addresses are reused.        *)
(***************************************************************************)
EXTENDS Naturals, FiniteSets, Sequences

CONSTANTS
    Threads,     \* threads calling the API, each the user of what it gets
    Addrs,       \* the addresses the allocator can return
    MaxCalls,    \* bound on the number of API calls
    None

ASSUME None \notin Addrs

(* Each API call is the sequence of its steps that change what happens:  *)
(* "fetch" may goto fail before the block exists, "alloc" is the           *)
(* MemAllocExternal whose NULL goes to fail, "allocOpt" is a               *)
(* MemAllocExternal the call makes only when it has data to return, and    *)
(* "fill" may goto fail after the allocation.  The sizeof sanity checks    *)
(* are constant in a build and are left out.                               *)

\* ObStrMap_New, VmmProcessGet, VmmMap_GetPte, ObStrMap_FinalizeBufferXUW;
\* the block; an ObStrMap_PushPtrUXUW while filling the entries.
VMMDLL_Map_GetPte_Impl == <<"fetch", "fetch", "fetch", "fetch", "alloc", "fill">>
VMMDLL_Map_GetVad_Impl == <<"fetch", "fetch", "fetch", "fetch", "alloc", "fill">>
\* VmmProcessGet, VmmMap_GetVadEx; a plain memcpy fill.
VMMDLL_Map_GetVadEx_Impl == <<"fetch", "fetch", "alloc">>
VMMDLL_Map_GetModule_Impl == <<"fetch", "fetch", "fetch", "fetch", "alloc", "fill">>
\* VmmMap_GetModuleEntryEx, ObStrMap_New, ObStrMap_FinalizeBufferXUW.
VMMDLL_Map_GetModuleFromName_Impl == <<"fetch", "fetch", "fetch", "alloc", "fill">>
VMMDLL_Map_GetUnloadedModule_Impl == <<"fetch", "fetch", "fetch", "fetch", "alloc", "fill">>
\* ObStrMap_New, VmmProcessGet, VmmMap_GetModuleEntryEx, VmmMap_GetEAT
\* (VmmMap_GetIAT), ObStrMap_FinalizeBufferXUW.
VMMDLL_Map_GetEAT_Impl == <<"fetch", "fetch", "fetch", "fetch", "fetch", "alloc", "fill">>
VMMDLL_Map_GetIAT_Impl == <<"fetch", "fetch", "fetch", "fetch", "fetch", "alloc", "fill">>
VMMDLL_Map_GetHeap_Impl == <<"fetch", "fetch", "alloc">>
VMMDLL_Map_GetHeapAlloc_Impl == <<"fetch", "fetch", "alloc">>
VMMDLL_Map_GetThread_Impl == <<"fetch", "fetch", "alloc">>
VMMDLL_Map_GetHandle_Impl == <<"fetch", "fetch", "fetch", "fetch", "alloc", "fill">>
\* VmmMap_GetPhysMem (VmmMap_GetPool); its fail frees the NULL block.
VMMDLL_Map_GetPhysMem_Impl == <<"fetch", "alloc">>
VMMDLL_Map_GetPool_Impl == <<"fetch", "alloc">>
\* ObStrMap_New, VmmMap_GetNet (GetUser, GetService), FinalizeBufferXUW.
VMMDLL_Map_GetNet_Impl == <<"fetch", "fetch", "fetch", "alloc", "fill">>
VMMDLL_Map_GetUsers_Impl == <<"fetch", "fetch", "fetch", "alloc", "fill">>
VMMDLL_Map_GetServices_Impl == <<"fetch", "fetch", "fetch", "alloc", "fill">>
\* ObMap_New, ObStrMap_New, VMMDLL_VfsList_Impl, ObStrMap_FinalizeBufferU;
\* the blob; the second FinalizeBufferU and an ObMap_GetByIndex, each of
\* which leaves fResult FALSE and frees the blob at fail.
VMMDLL_VfsListBlob_Impl == <<"fetch", "fetch", "fetch", "fetch", "alloc", "fill", "fill">>
\* VmmProcessGet, VmmSearch; the array only when there were hits (pObData).
VMMDLL_MemSearch_Impl == <<"fetch", "fetch", "allocOpt">>
\* VmmProcessGet; the copy only when the process has the string.
VMMDLL_ProcessGetInformationString_Impl == <<"fetch", "allocOpt">>

Impls == [
    GetPte |-> VMMDLL_Map_GetPte_Impl, GetVad |-> VMMDLL_Map_GetVad_Impl,
    GetVadEx |-> VMMDLL_Map_GetVadEx_Impl, GetModule |-> VMMDLL_Map_GetModule_Impl,
    GetModuleFromName |-> VMMDLL_Map_GetModuleFromName_Impl,
    GetUnloadedModule |-> VMMDLL_Map_GetUnloadedModule_Impl,
    GetEAT |-> VMMDLL_Map_GetEAT_Impl, GetIAT |-> VMMDLL_Map_GetIAT_Impl,
    GetHeap |-> VMMDLL_Map_GetHeap_Impl, GetHeapAlloc |-> VMMDLL_Map_GetHeapAlloc_Impl,
    GetThread |-> VMMDLL_Map_GetThread_Impl, GetHandle |-> VMMDLL_Map_GetHandle_Impl,
    GetPhysMem |-> VMMDLL_Map_GetPhysMem_Impl, GetPool |-> VMMDLL_Map_GetPool_Impl,
    GetNet |-> VMMDLL_Map_GetNet_Impl, GetUsers |-> VMMDLL_Map_GetUsers_Impl,
    GetServices |-> VMMDLL_Map_GetServices_Impl, VfsListBlob |-> VMMDLL_VfsListBlob_Impl,
    MemSearch |-> VMMDLL_MemSearch_Impl,
    ProcessGetInformationString |-> VMMDLL_ProcessGetInformationString_Impl]

VARIABLES
    heap,      \* the live OB objects
    rc,        \* their reference counts
    reg,       \* the keys of g_VMMDLL_ALLOCMAP_EXT
    pc,        \* where each thread is
    api,       \* the API call the thread is in
    step,      \* the index of the call's next step
    pMapDst,   \* the block the thread's call is allocating or filling
    held,      \* the blocks returned to the thread and not yet freed
    sz,        \* the pointer a MemSize call is looking at
    calls

vars == <<heap, rc, reg, pc, api, step, pMapDst, held, sz, calls>>

Init ==
    /\ heap = {}
    /\ rc = [a \in Addrs |-> 0]
    /\ reg = {}
    /\ pc = [t \in Threads |-> "idle"]
    /\ api = [t \in Threads |-> "GetPte"]
    /\ step = [t \in Threads |-> 1]
    /\ pMapDst = [t \in Threads |-> None]
    /\ held = [t \in Threads |-> {}]
    /\ sz = [t \in Threads |-> None]
    /\ calls = 0

\* VmmDllCore_MemFreeExternal: ObMap_RemoveByKey, then Ob_DECREF of the
\* object removed; nothing happens for a pointer that is not a key.
FreeExternal(p) ==
    IF p \in reg
    THEN /\ reg' = reg \ {p}
         /\ rc' = [rc EXCEPT ![p] = @ - 1]
         /\ heap' = IF rc[p] = 1 THEN heap \ {p} ELSE heap
    ELSE UNCHANGED <<reg, rc, heap>>

\* The step the thread's call is at.
At(t, k) == pc[t] = "call" /\ step[t] <= Len(Impls[api[t]]) /\ Impls[api[t]][step[t]] = k

\* Leaving the call through fail (or a return of NULL) with nothing to free.
Abandon(t) == /\ pc' = [pc EXCEPT ![t] = "idle"]
              /\ pMapDst' = [pMapDst EXCEPT ![t] = None]

-----------------------------------------------------------------------------
(* An API call that returns an external block.                             *)

\* Entry of the _Impl function: *ppMapDst = NULL.
Start(t, f) ==
    /\ pc[t] = "idle" /\ calls < MaxCalls
    /\ calls' = calls + 1
    /\ api' = [api EXCEPT ![t] = f]
    /\ step' = [step EXCEPT ![t] = 1]
    /\ pc' = [pc EXCEPT ![t] = "call"]
    /\ UNCHANGED <<heap, rc, reg, pMapDst, held, sz>>

\* VmmProcessGet, VmmMap_Get*, ObStrMap_New or FinalizeBuffer fails: goto
\* fail with pMapDst NULL, nothing to free.
FetchFail(t) ==
    /\ At(t, "fetch")
    /\ Abandon(t)
    /\ UNCHANGED <<heap, rc, reg, api, step, held, sz, calls>>

Fetch(t) ==
    /\ At(t, "fetch")
    /\ step' = [step EXCEPT ![t] = @ + 1]
    /\ UNCHANGED <<heap, rc, reg, pc, api, pMapDst, held, sz, calls>>

\* MemAllocExternal: cb > 0x40000000, cb < cbHdr or Ob_AllocEx failing
\* return NULL, and the caller's goto fail finds pMapDst NULL.
AllocFail(t) ==
    /\ At(t, "alloc") \/ At(t, "allocOpt")
    /\ Abandon(t)
    /\ UNCHANGED <<heap, rc, reg, api, step, held, sz, calls>>

\* MemSearch with no hits, or a process without the string: nothing is
\* allocated and *ppva (the returned string) stays NULL.
AllocSkip(t) ==
    /\ At(t, "allocOpt")
    /\ Abandon(t)
    /\ UNCHANGED <<heap, rc, reg, api, step, held, sz, calls>>

\* Ob_AllocEx: a new object at a free address, refcount 1.
Alloc(t) ==
    /\ At(t, "alloc") \/ At(t, "allocOpt")
    /\ \E a \in Addrs \ heap :
        /\ heap' = heap \cup {a}
        /\ rc' = [rc EXCEPT ![a] = 1]
        /\ pMapDst' = [pMapDst EXCEPT ![t] = a]
    /\ pc' = [pc EXCEPT ![t] = "push"]
    /\ UNCHANGED <<reg, api, step, held, sz, calls>>

\* Mutant: the map takes no reference of its own.
PushNoIncref(t) ==
    LET a == pMapDst[t] IN
    /\ pc[t] = "push"
    /\ \/ /\ a \notin reg
          /\ reg' = reg \cup {a}
          /\ UNCHANGED rc
       \/ UNCHANGED <<reg, rc>>
    /\ pc' = [pc EXCEPT ![t] = "decref"]
    /\ UNCHANGED <<heap, api, step, pMapDst, held, sz, calls>>

\* ObMap_Push: the map INCREFs on success; it fails on an existing key or
\* when it cannot grow.
Push(t) ==
    LET a == pMapDst[t] IN
    /\ pc[t] = "push"
    /\ \/ /\ a \notin reg
          /\ reg' = reg \cup {a}
          /\ rc' = [rc EXCEPT ![a] = @ + 1]
       \/ UNCHANGED <<reg, rc>>
    /\ pc' = [pc EXCEPT ![t] = "decref"]
    /\ UNCHANGED <<heap, api, step, pMapDst, held, sz, calls>>

\* pObData = Ob_DECREF(pObData); return pObData ? pObData->pb : NULL.  A
\* NULL sends the caller to fail with nothing to free.
Decref(t) ==
    LET a == pMapDst[t] IN
    /\ pc[t] = "decref"
    /\ rc' = [rc EXCEPT ![a] = @ - 1]
    /\ IF rc[a] = 1
       THEN /\ heap' = heap \ {a}
            /\ Abandon(t)
            /\ UNCHANGED step
       ELSE /\ pc' = [pc EXCEPT ![t] = "call"]
            /\ step' = [step EXCEPT ![t] = @ + 1]
            /\ UNCHANGED <<heap, pMapDst>>
    /\ UNCHANGED <<reg, api, held, sz, calls>>

\* Mutant: the fail path forgets the block.
FillFailNoFree(t) ==
    /\ At(t, "fill")
    /\ UNCHANGED <<reg, rc, heap>>
    /\ Abandon(t)
    /\ UNCHANGED <<api, step, held, sz, calls>>

\* An ObStrMap_PushPtrUXUW (or ObMap_GetByIndex) fails while filling: goto
\* fail, where "if(pMapDst && !*ppMapDst) VMMDLL_MemFree(pMapDst)".
FillFail(t) ==
    /\ At(t, "fill")
    /\ FreeExternal(pMapDst[t])
    /\ Abandon(t)
    /\ UNCHANGED <<api, step, held, sz, calls>>

Fill(t) ==
    /\ At(t, "fill")
    /\ step' = [step EXCEPT ![t] = @ + 1]
    /\ UNCHANGED <<heap, rc, reg, pc, api, pMapDst, held, sz, calls>>

\* *ppMapDst = pMapDst after the last step: the block goes to the caller.
Return(t) ==
    /\ pc[t] = "call" /\ step[t] > Len(Impls[api[t]])
    /\ held' = [held EXCEPT ![t] = @ \cup {pMapDst[t]}]
    /\ Abandon(t)
    /\ UNCHANGED <<heap, rc, reg, api, step, sz, calls>>

-----------------------------------------------------------------------------
(* The user's calls on blocks it holds.                                    *)

\* VMMDLL_MemFree.
UserFree(t) ==
    /\ pc[t] = "idle"
    /\ \E p \in held[t] :
        /\ FreeExternal(p)
        /\ held' = [held EXCEPT ![t] = @ \ {p}]
    /\ UNCHANGED <<pc, api, step, pMapDst, sz, calls>>

\* VMMDLL_MemSize: ObMap_ExistsKey, then the header is read.
UserSizeCheck(t) ==
    /\ pc[t] = "idle"
    /\ \E p \in held[t] \cap reg :
        /\ sz' = [sz EXCEPT ![t] = p]
        /\ pc' = [pc EXCEPT ![t] = "sizeRead"]
    /\ UNCHANGED <<heap, rc, reg, api, step, pMapDst, held, calls>>

UserSizeRead(t) ==
    /\ pc[t] = "sizeRead"
    /\ sz' = [sz EXCEPT ![t] = None]
    /\ pc' = [pc EXCEPT ![t] = "idle"]
    /\ UNCHANGED <<heap, rc, reg, api, step, pMapDst, held, calls>>

Next ==
    \E t \in Threads :
        \/ \E f \in DOMAIN Impls : Start(t, f)
        \/ FetchFail(t) \/ Fetch(t) \/ AllocFail(t) \/ AllocSkip(t) \/ Alloc(t)
        \/ Push(t) \/ Decref(t) \/ FillFail(t) \/ Fill(t) \/ Return(t)
        \/ UserFree(t) \/ UserSizeCheck(t) \/ UserSizeRead(t)

Spec == Init /\ [][Next]_vars

-----------------------------------------------------------------------------
Filling == {pMapDst[t] : t \in {u \in Threads : pc[u] = "call"}} \ {None}
Creating == {pMapDst[t] : t \in {u \in Threads : pc[u] \in {"push", "decref"}}}

\* Each live block has exactly one reference for the registry's key and one
\* for the MemAllocExternal that is still between Ob_AllocEx and its
\* Ob_DECREF: the ObMap_Push INCREF and the creator's DECREF must pair up,
\* or a block is freed while registered or never freed at all.
RefCountExact ==
    \A a \in Addrs :
        rc[a] = (IF a \in reg THEN 1 ELSE 0) + (IF a \in Creating THEN 1 ELSE 0)
        /\ (a \in heap <=> rc[a] > 0)

\* Every registered block is held by one user, or being filled or created
\* by one API call, and every held or filled block is registered: no goto
\* fail path of an _Impl leaves a block that nobody will free, and no reuse
\* of a freed address gives one block two owners.
RegistryExact ==
    /\ reg \subseteq UNION {held[t] : t \in Threads} \cup Filling \cup Creating
    /\ UNION {held[t] : t \in Threads} \cup Filling \subseteq reg
    /\ \A t, u \in Threads :
        /\ t # u => held[t] \cap held[u] = {}
        /\ pMapDst[u] \in Filling => pMapDst[u] \notin held[t]

=============================================================================
