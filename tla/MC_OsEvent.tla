----------------------------- MODULE MC_OsEvent -----------------------------
(* Three threads, each calling WaitForSingleObject, SetEvent or ResetEvent *)
(* on one event.                                                           *)
EXTENDS OsEvent, TLC

CONSTANTS t1, t2, t3

MCThreads == {t1, t2, t3}
=============================================================================
