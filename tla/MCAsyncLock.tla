----------------------------- MODULE MCAsyncLock -----------------------------
EXTENDS AsyncLock, TLC, FiniteSets

CONSTANTS t1, t2, t3, t4

MCTasks == {t1, t2, t3, t4}

-----------------------------------------------------------------------------
(* The inductive invariant of Locking_proofs, checked before it is used. *)
QueueIsTheWaiting ==
    /\ \A t \in Tasks : at[t] = "waiting" <=>
          \E i \in 1..Len(lock.waiting) : lock.waiting[i] = t
    /\ \A i, j \in 1..Len(lock.waiting) :
          lock.waiting[i] = lock.waiting[j] => i = j
=============================================================================
