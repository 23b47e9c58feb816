------------------------------ MODULE LifoStack ------------------------------
(***************************************************************************)
(* What an interlocked singly linked list (SLIST) promises: a stack whose  *)
(* push and pop each take effect at once.  A pop returns the entry pushed  *)
(* last and not yet popped, or NULL exactly when the stack is empty.  A    *)
(* pop is called (its result is "pending") and later returns, once.        *)
(***************************************************************************)
EXTENDS Sequences

CONSTANTS Threads, Entries, NULL

VARIABLES
    stk,   \* the entries, the one pushed last first
    ret    \* what each thread's last pop returned, or "pending"

Init == stk = <<>> /\ ret = [t \in Threads |-> NULL]

Push(e) == stk' = <<e>> \o stk /\ UNCHANGED ret

CallPop(t) == ret[t] # "pending" /\ ret' = [ret EXCEPT ![t] = "pending"] /\ UNCHANGED stk

Pop(t) ==
    /\ ret[t] = "pending" /\ stk # <<>>
    /\ ret' = [ret EXCEPT ![t] = Head(stk)]
    /\ stk' = Tail(stk)

PopEmpty(t) == ret[t] = "pending" /\ stk = <<>> /\ ret' = [ret EXCEPT ![t] = NULL] /\ UNCHANGED stk

Next == (\E e \in Entries : Push(e)) \/ (\E t \in Threads : CallPop(t) \/ Pop(t) \/ PopEmpty(t))

Spec == Init /\ [][Next]_<<stk, ret>>
=============================================================================
