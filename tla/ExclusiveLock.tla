--------------------------- MODULE ExclusiveLock ---------------------------
(***************************************************************************)
(* What an exclusive lock promises: at most one owner, who takes the lock *)
(* only while it is free and is the only one who can give it back.         *)
(***************************************************************************)
CONSTANTS Threads, NoOwner

VARIABLE owner

Init == owner = NoOwner

Acquire(t) == owner = NoOwner /\ owner' = t

Release(t) == owner = t /\ owner' = NoOwner

Next == \E t \in Threads : Acquire(t) \/ Release(t)

Spec == Init /\ [][Next]_owner
=============================================================================
