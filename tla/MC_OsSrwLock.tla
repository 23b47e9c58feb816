---------------------------- MODULE MC_OsSrwLock ----------------------------
(* Three threads on the lock of an SLIST head: two push and pop two       *)
(* entries, the third is other code taking the lock with any acquire      *)
(* function, so one can hold, one sleep, and one steal the lock between a *)
(* release and the woken sleeper's retry.                                  *)
EXTENDS SList, TLC

CONSTANTS t1, t2, t3, e1, e2

MCThreads == {t1, t2, t3}
MCListThreads == {t1, t2}
MCLockThreads == {t3}
MCEntries == {e1, e2}
MCDepthMod == 65536
=============================================================================
