---------------------------- MODULE MC_VmmHandle ----------------------------
(* Instantiates VmmHandle with two API threads, three handle allocations   *)
(* and an allow-list of two slots, so that the list fills up and a removal *)
(* from slot 0 moves the last handle.                                      *)
EXTENDS VmmHandle, TLC

CONSTANTS t1, t2, h1, h2, h3

MCThreads == {t1, t2}
MCHandles == {h1, h2, h3}
=============================================================================
