------------------------------ MODULE AsyncLock ------------------------------
(***************************************************************************)
(* The promise-based mutex of src/utils/SafeCollection.js.  JavaScript     *)
(* runs one piece of code between two awaits without interruption, so an   *)
(* action is such a piece: a call of acquire() up to its await or its      *)
(* return, the resumption of a resolved waiter (which tests the flag again *)
(* in the while loop), and the synchronous release().  Between release()   *)
(* and the resumption of the waiter it resolved, another task may call     *)
(* acquire() and find the lock free; the waiter then queues again at the   *)
(* back.                                                                   *)
(***************************************************************************)
EXTENDS AsyncLockState, Naturals

ASSUME AsyncLockAssumption == MaxCalls \in Nat

VARIABLES lock,       \* the AsyncLock object
          at,         \* where each task is in withLock()
          calls       \* how many times each task called withLock()

vars == <<lock, at, calls>>

Places == {"outside", "waiting", "woken", "inside"}

Init == /\ lock = FreeLock
        /\ at = [t \in Tasks |-> "outside"]
        /\ calls = [t \in Tasks |-> 0]

-----------------------------------------------------------------------------
\* one evaluation of acquire()'s loop condition and what follows it
TryAcquire(t) ==
    \/ /\ ~lock.locked
       /\ lock' = Taken(lock)
       /\ at' = [at EXCEPT ![t] = "inside"]
    \/ /\ lock.locked
       /\ lock' = Queued(lock, t)
       /\ at' = [at EXCEPT ![t] = "waiting"]

\* a task calls withLock(fn)
Call(t) == /\ at[t] = "outside"
           /\ calls[t] < MaxCalls
           /\ calls' = [calls EXCEPT ![t] = @ + 1]
           /\ TryAcquire(t)

\* mutant: `if' instead of `while' in acquire(): the resumed waiter does
\* not test the flag again
ResumeWithoutTest(t) == /\ at[t] = "woken"
                        /\ lock' = Taken(lock)
                        /\ at' = [at EXCEPT ![t] = "inside"]
                        /\ UNCHANGED calls

\* mutant: the resumed waiter that finds the lock free does not take it
ResumeWithoutTaking(t) == /\ at[t] = "woken"
                          /\ ~lock.locked
                          /\ at' = [at EXCEPT ![t] = "inside"]
                          /\ UNCHANGED <<lock, calls>>

\* the promise of a waiter was resolved: it tests _locked again
Resume(t) == /\ at[t] = "woken"
             /\ TryAcquire(t)
             /\ UNCHANGED calls

\* fn settled, by a value or an exception: the finally block releases
Release(t) ==
    /\ at[t] = "inside"
    /\ lock' = Released(lock)
    /\ at' = [u \in Tasks |-> IF u = t THEN "outside"
                              ELSE IF u \in WokenBy(lock) THEN "woken"
                              ELSE at[u]]
    /\ UNCHANGED calls

Next == \E t \in Tasks : Call(t) \/ Resume(t) \/ Release(t)

\* a resolved promise is resumed, and a critical section ends
Fairness == \A t \in Tasks : WF_vars(Resume(t)) /\ WF_vars(Release(t))

Spec == Init /\ [][Next]_vars /\ Fairness

-----------------------------------------------------------------------------
TypeOK == /\ lock \in [locked : BOOLEAN, waiting : Seq(Tasks)]
          /\ at \in [Tasks -> Places]
          /\ calls \in [Tasks -> Nat]

(* Two tasks are never between acquire() and release() together, although  *)
(* a released lock may be taken by a task that never waited.               *)
MutualExclusion ==
    \A t, u \in Tasks : at[t] = "inside" /\ at[u] = "inside" => t = u

(* No wakeup is lost: when the lock is free and someone waits for it, a    *)
(* resolved waiter is on its way, so the queue is never stranded by a      *)
(* release whose waiter found the lock taken again.                        *)
NoStrandedWaiter ==
    ~lock.locked /\ lock.waiting # <<>> => \E t \in Tasks : at[t] = "woken"

(* Every caller gets the lock: whoever waits is eventually inside.  Under  *)
(* a bounded number of calls, since barging callers may overtake a waiter  *)
(* once each.                                                              *)
EveryWaiterServed ==
    \A t \in Tasks : at[t] = "waiting" ~> at[t] = "inside"
=============================================================================
