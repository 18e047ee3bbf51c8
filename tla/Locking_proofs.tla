--------------------------- MODULE Locking_proofs ---------------------------
(***************************************************************************)
(* The locks and what is built on them, one layer after the other:         *)
(*   AsyncLock, its mutual exclusion and the absence of lost wakeups;      *)
(*   SafeMap: each of its locks is an AsyncLock, and an operation that     *)
(*     awaits its caller's function is atomic where every operation of the *)
(*     program takes the lock of its key;                                  *)
(*   AccountLockManager, which keeps the queues of the accounts and their  *)
(*     counts in a SafeMap: one queue per account, and a count that is     *)
(*     right whatever times out or fails.                                  *)
(***************************************************************************)
EXTENDS AsyncLock, SafeMap, AccountQueues, FiniteSetTheorems, SequenceTheorems, TLAPS

-----------------------------------------------------------------------------
(* AsyncLock *)

\* the flag is up exactly when a task is inside
FlagMeansInside == lock.locked <=> \E t \in Tasks : at[t] = "inside"

\* _waiting holds the resolvers of exactly the waiting tasks, each once
QueueIsTheWaiting ==
    /\ \A t \in Tasks : at[t] = "waiting" <=>
          \E i \in 1..Len(lock.waiting) : lock.waiting[i] = t
    /\ \A i, j \in 1..Len(lock.waiting) :
          lock.waiting[i] = lock.waiting[j] => i = j

IInv == /\ TypeOK
        /\ MutualExclusion
        /\ FlagMeansInside
        /\ QueueIsTheWaiting
        /\ NoStrandedWaiter

-----------------------------------------------------------------------------
(* The state of the lock keeps its type through every action.              *)
LEMMA TypeStep == TypeOK /\ [Next]_vars => TypeOK'
<1> SUFFICES ASSUME TypeOK, [Next]_vars PROVE TypeOK'
  OBVIOUS
<1> USE DEF TypeOK, Places
<1>1. ASSUME NEW t \in Tasks, TryAcquire(t)
      PROVE  lock' \in [locked : BOOLEAN, waiting : Seq(Tasks)] /\ at' \in [Tasks -> Places]
  <2>1. CASE ~lock.locked
    BY <1>1, <2>1 DEF TryAcquire, Taken
  <2>2. CASE lock.locked
    <3>1. lock' = [lock EXCEPT !.waiting = Append(lock.waiting, t)]
      BY <1>1, <2>2 DEF TryAcquire, Queued
    <3>2. Append(lock.waiting, t) \in Seq(Tasks)
      OBVIOUS
    <3>3. at' \in [Tasks -> Places]
      BY <1>1, <2>2 DEF TryAcquire
    <3>4. QED
      BY <3>1, <3>2, <3>3
  <2>3. QED
    BY <2>1, <2>2
<1>2. CASE UNCHANGED vars
  BY <1>2 DEF vars
<1>3. ASSUME NEW t \in Tasks, Call(t) PROVE TypeOK'
  BY <1>3, <1>1 DEF Call
<1>4. ASSUME NEW t \in Tasks, Resume(t) PROVE TypeOK'
  BY <1>4, <1>1 DEF Resume
<1>5. ASSUME NEW t \in Tasks, Release(t) PROVE TypeOK'
  <2>1. lock' \in [locked : BOOLEAN, waiting : Seq(Tasks)]
    BY <1>5 DEF Release, Released
  <2>2. at' \in [Tasks -> Places]
    BY <1>5 DEF Release
  <2>3. QED
    BY <2>1, <2>2, <1>5 DEF Release
<1>6. QED
  BY <1>2, <1>3, <1>4, <1>5 DEF Next

(* A task that evaluates acquire()'s condition keeps the invariant, whether *)
(* it calls for the first time or was woken.                                *)
LEMMA TryAcquireKeeps ==
    ASSUME IInv, NEW t \in Tasks, at[t] \in {"outside", "woken"}, TryAcquire(t)
    PROVE  /\ MutualExclusion'
           /\ FlagMeansInside'
           /\ QueueIsTheWaiting'
           /\ NoStrandedWaiter'
<1> USE DEF IInv, TypeOK
<1>1. CASE ~lock.locked
  <2>1. lock'.locked = TRUE /\ lock'.waiting = lock.waiting
    BY <1>1 DEF TryAcquire, Taken
  <2>2. at' = [at EXCEPT ![t] = "inside"]
    BY <1>1 DEF TryAcquire
  <2>3. MutualExclusion' /\ FlagMeansInside'
    BY <1>1, <2>1, <2>2 DEF MutualExclusion, FlagMeansInside
  <2>4. QueueIsTheWaiting'
    BY <2>1, <2>2 DEF QueueIsTheWaiting
  <2>5. QED
    BY <2>1, <2>3, <2>4 DEF NoStrandedWaiter
<1>2. CASE lock.locked
  <2>1. lock'.locked = TRUE /\ lock'.waiting = Append(lock.waiting, t)
    BY <1>2 DEF TryAcquire, Queued
  <2>2. at' = [at EXCEPT ![t] = "waiting"]
    BY <1>2 DEF TryAcquire
  <2>3. MutualExclusion' /\ FlagMeansInside'
    BY <1>2, <2>1, <2>2 DEF MutualExclusion, FlagMeansInside
  <2> DEFINE w == lock.waiting
  <2>4. QueueIsTheWaiting'
    <3>1. /\ w \in Seq(Tasks) /\ Len(w) \in Nat
          /\ \A u \in Tasks : at[u] = "waiting" <=> \E i \in 1..Len(w) : w[i] = u
          /\ \A i, j \in 1..Len(w) : w[i] = w[j] => i = j
      BY DEF QueueIsTheWaiting
    <3> HIDE DEF w
    <3>2. /\ Len(Append(w, t)) = Len(w) + 1 /\ Append(w, t)[Len(w) + 1] = t
          /\ \A i \in 1..Len(w) : Append(w, t)[i] = w[i]
      BY <3>1
    <3>3. /\ \A i \in 1..(Len(w) + 1) : i \in 1..Len(w) \/ i = Len(w) + 1
          /\ \A i \in 1..Len(w) : i \in 1..(Len(w) + 1)
          /\ Len(w) + 1 \in 1..(Len(w) + 1)
      BY <3>1
    <3>4. /\ at'[t] = "waiting" /\ at[t] # "waiting"
          /\ \A u \in Tasks : u # t => at'[u] = at[u]
      BY <2>2
    <3>5. \A u \in Tasks : at'[u] = "waiting" <=>
            \E i \in 1..(Len(w) + 1) : Append(w, t)[i] = u
      BY <3>1, <3>2, <3>3, <3>4
    <3>6. \A i, j \in 1..(Len(w) + 1) : Append(w, t)[i] = Append(w, t)[j] => i = j
      BY <3>1, <3>2, <3>3, <3>4
    <3>7. QED
      BY <2>1, <3>2, <3>5, <3>6 DEF QueueIsTheWaiting, w
  <2>5. QED
    BY <2>1, <2>3, <2>4 DEF NoStrandedWaiter
<1>3. QED
  BY <1>1, <1>2

(* release() keeps the invariant: the one it wakes leaves the queue.       *)
LEMMA ReleaseKeeps ==
    ASSUME IInv, NEW t \in Tasks, Release(t)
    PROVE  /\ MutualExclusion'
           /\ FlagMeansInside'
           /\ QueueIsTheWaiting'
           /\ NoStrandedWaiter'
<1> USE DEF IInv, TypeOK
<1> DEFINE w == lock.waiting
<1>0. w \in Seq(Tasks) /\ at[t] = "inside" /\ lock'.locked = FALSE
  BY DEF Release, Released
<1>1. CASE w = <<>>
  <2>1. lock'.waiting = <<>> /\ WokenBy(lock) = {}
    BY <1>1 DEF Release, Released, WokenBy
  <2>2. at' = [at EXCEPT ![t] = "outside"]
    BY <2>1 DEF Release
  <2>3. MutualExclusion' /\ FlagMeansInside'
    BY <1>0, <2>2 DEF MutualExclusion, FlagMeansInside
  <2>4. QueueIsTheWaiting'
    BY <1>0, <1>1, <2>1, <2>2 DEF QueueIsTheWaiting
  <2>5. QED
    BY <2>1, <2>3, <2>4 DEF NoStrandedWaiter
<1>2. CASE w # <<>>
  <2> DEFINE h == Head(w)
  <2>1. h \in Tasks /\ h = w[1] /\ Len(w) \in Nat \ {0}
    BY <1>0, <1>2
  <2>2. lock'.waiting = Tail(w) /\ WokenBy(lock) = {h}
    BY <1>2 DEF Release, Released, WokenBy
  <2>3. at[h] = "waiting" /\ h # t
    BY <1>0, <2>1 DEF QueueIsTheWaiting
  <2>4. at' = [at EXCEPT ![t] = "outside", ![h] = "woken"]
    BY <2>2, <2>3 DEF Release
  <2>5. MutualExclusion' /\ FlagMeansInside'
    BY <1>0, <2>4, <2>3 DEF MutualExclusion, FlagMeansInside
  <2>6. /\ Len(Tail(w)) = Len(w) - 1
        /\ \A i \in 1..(Len(w) - 1) : Tail(w)[i] = w[i + 1]
    BY <1>0, <1>2
  <2>7. QueueIsTheWaiting'
    <3>1. ASSUME NEW u \in Tasks
          PROVE  at'[u] = "waiting" <=>
                   \E i \in 1..(Len(w) - 1) : Tail(w)[i] = u
      <4>1. CASE u = h
        BY <4>1, <2>1, <2>3, <2>4, <2>6 DEF QueueIsTheWaiting
      <4>2. CASE u = t
        <5>1. at'[u] = "outside"
          BY <4>2, <2>3, <2>4
        <5>2. \A i \in 1..Len(w) : w[i] # u
          BY <4>2, <1>0 DEF QueueIsTheWaiting
        <5>3. \A i \in 1..(Len(w) - 1) : i + 1 \in 1..Len(w)
          BY <2>1
        <5> HIDE DEF w
        <5>4. QED
          BY <5>1, <5>2, <5>3, <2>6
      <4>3. CASE u # h /\ u # t
        <5>1. at'[u] = at[u]
          BY <4>3, <2>4
        <5>2. ASSUME NEW i \in 1..Len(w), w[i] = u
              PROVE  i - 1 \in 1..(Len(w) - 1) /\ Tail(w)[i - 1] = u
          BY <5>2, <4>3, <2>1, <2>6
        <5>3. ASSUME NEW i \in 1..(Len(w) - 1), Tail(w)[i] = u
              PROVE  i + 1 \in 1..Len(w) /\ w[i + 1] = u
          BY <5>3, <2>1, <2>6
        <5>4. at[u] = "waiting" <=> \E i \in 1..Len(w) : w[i] = u
          BY DEF QueueIsTheWaiting
        <5> HIDE DEF w
        <5>5. QED
          BY <5>1, <5>2, <5>3, <5>4
      <4>4. QED
        BY <4>1, <4>2, <4>3
    <3>2. ASSUME NEW i \in 1..(Len(w) - 1), NEW j \in 1..(Len(w) - 1),
                 Tail(w)[i] = Tail(w)[j]
          PROVE  i = j
      BY <3>2, <2>1, <2>6 DEF QueueIsTheWaiting
    <3> HIDE DEF w, h
    <3>3. lock'.waiting = Tail(w) /\ Len(lock'.waiting) = Len(w) - 1
      BY <2>2, <2>6
    <3>4. \A u \in Tasks : at'[u] = "waiting" <=>
            \E i \in 1..Len(lock'.waiting) : lock'.waiting[i] = u
      BY <3>1, <3>3
    <3>5. \A i, j \in 1..Len(lock'.waiting) :
            lock'.waiting[i] = lock'.waiting[j] => i = j
      BY <3>2, <3>3
    <3>6. QED
      BY <3>4, <3>5 DEF QueueIsTheWaiting
  <2>8. NoStrandedWaiter'
    BY <2>1, <2>3, <2>4 DEF NoStrandedWaiter
  <2>9. QED
    BY <2>5, <2>7, <2>8
<1>3. QED
  BY <1>1, <1>2

(* The conjunction of the parts is inductive.                              *)
LEMMA Inductive == IInv /\ [Next]_vars => IInv'
<1> SUFFICES ASSUME IInv, [Next]_vars PROVE IInv'
  OBVIOUS
<1>1. TypeOK'
  BY TypeStep DEF IInv
<1>2. CASE UNCHANGED vars
  BY <1>2, <1>1 DEF vars, IInv, MutualExclusion, FlagMeansInside,
     QueueIsTheWaiting, NoStrandedWaiter
<1>3. ASSUME NEW t \in Tasks, Call(t) PROVE IInv'
  BY <1>1, <1>3, TryAcquireKeeps DEF Call, IInv
<1>4. ASSUME NEW t \in Tasks, Resume(t) PROVE IInv'
  BY <1>1, <1>4, TryAcquireKeeps DEF Resume, IInv
<1>5. ASSUME NEW t \in Tasks, Release(t) PROVE IInv'
  BY <1>1, <1>5, ReleaseKeeps DEF IInv
<1>6. QED
  BY <1>2, <1>3, <1>4, <1>5 DEF Next

(* Nobody is inside a new lock and nobody waits for it.                    *)
LEMMA Initial == Init => IInv
BY DEF Init, FreeLock, IInv, TypeOK, Places, MutualExclusion,
       FlagMeansInside, QueueIsTheWaiting, NoStrandedWaiter

-----------------------------------------------------------------------------
(* Every reachable state of the lock satisfies the inductive invariant.    *)
THEOREM Invariance == Spec => []IInv
BY Initial, Inductive, PTL DEF Spec

(* The lock, its queue and the places of the tasks keep their types.       *)
THEOREM Typing == Spec => []TypeOK
BY Invariance, PTL DEF IInv

(* At most one task is between acquire() and release() at any time.        *)
THEOREM Mutex == Spec => []MutualExclusion
<1>1. IInv => MutualExclusion
  BY DEF IInv
<1>2. QED
  BY <1>1, Invariance, PTL

(* No release strands a waiter: see NoStrandedWaiter.                      *)
THEOREM NoLostWakeup == Spec => []NoStrandedWaiter
<1>1. IInv => NoStrandedWaiter
  BY DEF IInv
<1>2. QED
  BY <1>1, Invariance, PTL

-----------------------------------------------------------------------------
(* SafeMap *)

\* t holds the lock of its operation
Holding(t) == stage[t] \in {"inside", "computing", "leaving"}
LocksTyped == locks \in [Locks -> [locked : BOOLEAN, waiting : Seq(Tasks)]]

MapTyped ==
  /\ LocksTyped
  /\ stage \in [Tasks -> Stages] /\ op \in [Tasks -> Operations \cup {NoOp}]
  /\ map \in [Keys -> Values \cup {Absent}] /\ old \in [Tasks -> Values \cup {Absent}]
  /\ todo \in [Tasks -> SUBSET Keys] /\ SegmentOf \in [Keys -> Segments]
  /\ \A t \in Tasks : stage[t] = "deleting" \/ todo[t] # {} => "cleanupExpired" \in kinds

\* a task at a lock has an operation, whoever holds a lock has raised its flag and holds
\* it alone, and a queue holds tasks that wait for its lock, each once
LocksOwned ==
  /\ \A t \in Tasks : stage[t] \notin {"outside", "deleting"} => op[t] \in Operations
  /\ \A t \in Tasks : Holding(t) => locks[LockOf(op[t])].locked
  /\ \A t, u \in Tasks :
       Holding(t) /\ Holding(u) /\ LockOf(op[t]) = LockOf(op[u]) => t = u
  /\ \A l \in Locks : \A i \in DOMAIN locks[l].waiting :
       stage[locks[l].waiting[i]] = "waiting" /\ LockOf(op[locks[l].waiting[i]]) = l
  /\ \A l \in Locks : \A i, j \in DOMAIN locks[l].waiting :
       locks[l].waiting[i] = locks[l].waiting[j] => i = j

MapInv == MapTyped /\ LocksOwned /\ LockedIsAtomic

\* the lock of an operation is one of the locks
LEMMA LockTyped ==
  ASSUME MapTyped, NEW o \in Operations
  PROVE  LockOf(o) \in Locks
<1>1. CASE o.kind \in Whole
  BY <1>1 DEF LockOf, Locks
<1>2. CASE o.kind \notin Whole
  <2>1. o.key \in Keys
    BY <1>2 DEF Operations, Whole
  <2>2. QED
    BY <1>2, <2>1 DEF MapTyped, LockOf, Locks
<1>3. QED
  BY <1>1, <1>2

\* a lock that is taken or whose queue grows
LEMMA TryAcquireOwns ==
  ASSUME MapTyped, LocksOwned, kinds' = kinds,
         NEW t \in Tasks, stage[t] \in {"outside", "woken", "deleting"},
         NEW o \in Operations, op' = [op EXCEPT ![t] = o], TryLock(t, LockOf(o))
  PROVE  LocksTyped' /\ stage' \in [Tasks -> Stages] /\ LocksOwned'
<1> DEFINE l == LockOf(o)
<1>1. /\ locks \in [Locks -> [locked : BOOLEAN, waiting : Seq(Tasks)]]
      /\ stage \in [Tasks -> Stages] /\ op \in [Tasks -> Operations \cup {NoOp}]
      /\ l \in Locks /\ Operations' = Operations
  BY LockTyped DEF MapTyped, LocksTyped, Operations
<1>2. ~Holding(t) /\ stage[t] # "waiting"
  BY DEF Holding
<1>3. /\ op' \in [Tasks -> Operations \cup {NoOp}] /\ op'[t] = o
      /\ \A u \in Tasks : u # t => op'[u] = op[u]
  BY <1>1
<1>4. \A x : LockOf(x)' = LockOf(x)
  BY DEF LockOf
<1>5. CASE ~locks[l].locked
  <2>1. /\ locks' = [locks EXCEPT ![l] = [locks[l] EXCEPT !.locked = TRUE]]
        /\ stage' = [stage EXCEPT ![t] = "inside"]
    BY <1>5 DEF TryLock, Taken, MoveTo
  <2>2. locks[l] \in [locked : BOOLEAN, waiting : Seq(Tasks)]
    BY <1>1
  <2>3. /\ [locks[l] EXCEPT !.locked = TRUE] \in [locked : BOOLEAN, waiting : Seq(Tasks)]
        /\ [locks[l] EXCEPT !.locked = TRUE].waiting = locks[l].waiting
        /\ [locks[l] EXCEPT !.locked = TRUE].locked = TRUE
    BY <2>2
  <2>4. /\ locks' \in [Locks -> [locked : BOOLEAN, waiting : Seq(Tasks)]]
        /\ locks'[l].locked
        /\ \A m \in Locks : locks'[m].waiting = locks[m].waiting
        /\ \A m \in Locks : m # l => locks'[m] = locks[m]
    BY <1>1, <2>1, <2>3
  <2>5. /\ stage' \in [Tasks -> Stages] /\ stage'[t] = "inside"
        /\ \A u \in Tasks : u # t => stage'[u] = stage[u]
    BY <1>1, <2>1 DEF Stages
  <2> HIDE DEF l
  <2>6. \A u \in Tasks : u # t => (Holding(u)' <=> Holding(u))
    BY <2>5 DEF Holding
  <2>7. \A u \in Tasks : Holding(u) => LockOf(op[u]) # l
    BY <1>5 DEF LocksOwned
  <2>8. \A u \in Tasks : stage'[u] \notin {"outside", "deleting"} => op'[u] \in Operations'
    BY <1>1, <1>3, <2>5 DEF LocksOwned
  <2>9. \A u \in Tasks : Holding(u)' => locks'[LockOf(op'[u])].locked
    <3>1. ASSUME NEW u \in Tasks, Holding(u)' PROVE locks'[LockOf(op'[u])].locked
      <4>1. CASE u = t
        BY <1>3, <2>4, <4>1 DEF l
      <4>2. CASE u # t
        <5>1. Holding(u) /\ op'[u] = op[u] /\ LockOf(op[u]) # l
          BY <1>3, <2>6, <2>7, <3>1, <4>2
        <5>2. op[u] \in Operations /\ locks[LockOf(op[u])].locked
          BY <5>1 DEF LocksOwned, Holding
        <5>3. LockOf(op[u]) \in Locks
          BY <5>2, LockTyped
        <5>4. QED
          BY <2>4, <5>1, <5>2, <5>3
      <4>3. QED
        BY <4>1, <4>2
    <3>2. QED
      BY <3>1
  <2>10. \A u, v \in Tasks :
           Holding(u)' /\ Holding(v)' /\ LockOf(op'[u]) = LockOf(op'[v]) => u = v
    BY <1>3, <2>6, <2>7 DEF LocksOwned, l
  <2>11. \A m \in Locks : \A i \in DOMAIN locks'[m].waiting :
           stage'[locks'[m].waiting[i]] = "waiting" /\ LockOf(op'[locks'[m].waiting[i]]) = m
    <3>1. ASSUME NEW m \in Locks, NEW i \in DOMAIN locks[m].waiting
          PROVE  stage'[locks[m].waiting[i]] = "waiting" /\ LockOf(op'[locks[m].waiting[i]]) = m
      <4> DEFINE u == locks[m].waiting[i]
      <4>1. stage[u] = "waiting" /\ LockOf(op[u]) = m
        BY DEF LocksOwned
      <4>2. u \in Tasks
        BY <1>1
      <4> HIDE DEF u
      <4>3. stage'[u] = "waiting" /\ LockOf(op'[u]) = m
        BY <1>2, <1>3, <2>5, <4>1, <4>2
      <4>4. QED
        BY <4>3 DEF u
    <3>2. ASSUME NEW m \in Locks, NEW i \in DOMAIN locks'[m].waiting
          PROVE  /\ stage'[locks'[m].waiting[i]] = "waiting"
                 /\ LockOf(op'[locks'[m].waiting[i]]) = m
      <4>1. locks'[m].waiting = locks[m].waiting
        BY <2>4
      <4>2. QED
        BY <3>1, <4>1
    <3>3. QED
      BY <3>2
  <2>12. \A m \in Locks : \A i, j \in DOMAIN locks'[m].waiting :
           locks'[m].waiting[i] = locks'[m].waiting[j] => i = j
    BY <2>4 DEF LocksOwned
  <2>13. QED
    BY <1>4, <2>4, <2>5, <2>8, <2>9, <2>10, <2>11, <2>12 DEF LocksOwned, LocksTyped
<1>6. CASE locks[l].locked
  <2> DEFINE w == locks[l].waiting
  <2>1. /\ locks' = [locks EXCEPT ![l] = [locks[l] EXCEPT !.waiting = Append(w, t)]]
        /\ stage' = [stage EXCEPT ![t] = "waiting"]
    BY <1>6 DEF TryLock, Queued, MoveTo
  <2>2. locks[l] \in [locked : BOOLEAN, waiting : Seq(Tasks)] /\ w \in Seq(Tasks)
    BY <1>1
  <2>3. /\ Append(w, t) \in Seq(Tasks) /\ Len(w) \in Nat /\ DOMAIN w = 1..Len(w)
        /\ DOMAIN Append(w, t) = 1..(Len(w) + 1)
        /\ Append(w, t)[Len(w) + 1] = t
        /\ \A i \in DOMAIN w : Append(w, t)[i] = w[i]
    BY <2>2, AppendProperties
  <2> HIDE DEF w
  <2>4. /\ [locks[l] EXCEPT !.waiting = Append(w, t)] \in [locked : BOOLEAN, waiting : Seq(Tasks)]
        /\ [locks[l] EXCEPT !.waiting = Append(w, t)].waiting = Append(w, t)
        /\ [locks[l] EXCEPT !.waiting = Append(w, t)].locked = locks[l].locked
    BY <2>2, <2>3
  <2>5. /\ locks' \in [Locks -> [locked : BOOLEAN, waiting : Seq(Tasks)]]
        /\ locks'[l].waiting = Append(w, t)
        /\ \A m \in Locks : locks'[m].locked = locks[m].locked
        /\ \A m \in Locks : m # l => locks'[m] = locks[m]
    BY <1>1, <2>1, <2>4
  <2>6. /\ stage' \in [Tasks -> Stages] /\ stage'[t] = "waiting"
        /\ \A u \in Tasks : u # t => stage'[u] = stage[u]
    BY <1>1, <2>1 DEF Stages
  <2> HIDE DEF l
  <2>7. \A u \in Tasks : Holding(u)' => Holding(u) /\ u # t /\ op'[u] = op[u]
    BY <1>3, <2>6 DEF Holding
  <2>8. \A u \in Tasks : stage'[u] \notin {"outside", "deleting"} => op'[u] \in Operations'
    BY <1>1, <1>3, <2>6 DEF LocksOwned
  <2>9. \A u \in Tasks : Holding(u)' => locks'[LockOf(op'[u])].locked
    <3>1. ASSUME NEW u \in Tasks, Holding(u)' PROVE locks'[LockOf(op'[u])].locked
      <4>1. Holding(u) /\ op'[u] = op[u]
        BY <2>7, <3>1
      <4>2. op[u] \in Operations /\ locks[LockOf(op[u])].locked
        BY <4>1 DEF LocksOwned, Holding
      <4>3. LockOf(op[u]) \in Locks
        BY <4>2, LockTyped
      <4>4. QED
        BY <2>5, <4>1, <4>2, <4>3
    <3>2. QED
      BY <3>1
  <2>10. \A u, v \in Tasks :
           Holding(u)' /\ Holding(v)' /\ LockOf(op'[u]) = LockOf(op'[v]) => u = v
    BY <2>7 DEF LocksOwned
  <2>11. ASSUME NEW m \in Locks, NEW i \in DOMAIN locks[m].waiting
         PROVE  /\ locks[m].waiting[i] # t
                /\ stage'[locks[m].waiting[i]] = "waiting"
                /\ LockOf(op'[locks[m].waiting[i]]) = m
    <3> DEFINE u == locks[m].waiting[i]
    <3>1. stage[u] = "waiting" /\ LockOf(op[u]) = m
      BY DEF LocksOwned
    <3>2. u \in Tasks
      BY <1>1
    <3> HIDE DEF u
    <3>3. u # t /\ stage'[u] = "waiting" /\ LockOf(op'[u]) = m
      BY <1>2, <1>3, <2>6, <3>1, <3>2
    <3>4. QED
      BY <3>3 DEF u
  <2>12. \A m \in Locks : \A i \in DOMAIN locks'[m].waiting :
           stage'[locks'[m].waiting[i]] = "waiting" /\ LockOf(op'[locks'[m].waiting[i]]) = m
    <3>1. ASSUME NEW m \in Locks, m # l, NEW i \in DOMAIN locks'[m].waiting
          PROVE  /\ stage'[locks'[m].waiting[i]] = "waiting"
                 /\ LockOf(op'[locks'[m].waiting[i]]) = m
      BY <2>5, <2>11, <3>1
    <3>2. ASSUME NEW i \in 1..(Len(w) + 1)
          PROVE  stage'[Append(w, t)[i]] = "waiting" /\ LockOf(op'[Append(w, t)[i]]) = l
      <4>1. CASE i = Len(w) + 1
        BY <1>3, <2>3, <2>6, <4>1 DEF l
      <4>2. CASE i # Len(w) + 1
        <5>1. i \in DOMAIN w
          BY <2>3, <4>2
        <5>2. QED
          BY <1>1, <2>3, <2>11, <5>1 DEF w
      <4>3. QED
        BY <4>1, <4>2
    <3>3. ASSUME NEW m \in Locks, NEW i \in DOMAIN locks'[m].waiting
          PROVE  /\ stage'[locks'[m].waiting[i]] = "waiting"
                 /\ LockOf(op'[locks'[m].waiting[i]]) = m
      <4>1. CASE m # l
        BY <3>1, <4>1
      <4>2. CASE m = l
        <5>1. locks'[m].waiting = Append(w, t) /\ i \in 1..(Len(w) + 1)
          BY <2>3, <2>5, <4>2
        <5>2. QED
          BY <3>2, <4>2, <5>1
      <4>3. QED
        BY <4>1, <4>2
    <3>4. QED
      BY <3>3
  <2>13. \A m \in Locks : \A i, j \in DOMAIN locks'[m].waiting :
           locks'[m].waiting[i] = locks'[m].waiting[j] => i = j
    <3>1. ASSUME NEW m \in Locks, m # l
          PROVE  \A i, j \in DOMAIN locks'[m].waiting :
                   locks'[m].waiting[i] = locks'[m].waiting[j] => i = j
      <4>1. locks'[m] = locks[m]
        BY <2>5, <3>1
      <4>2. \A i, j \in DOMAIN locks[m].waiting :
              locks[m].waiting[i] = locks[m].waiting[j] => i = j
        BY DEF LocksOwned
      <4>3. QED
        BY <4>1, <4>2
    <3>2. \A i \in DOMAIN w : w[i] # t
      BY <1>1, <2>11 DEF w
    <3>3. \A i, j \in DOMAIN w : w[i] = w[j] => i = j
      BY <1>1 DEF LocksOwned, w
    <3>4. \A i \in 1..(Len(w) + 1) : i \in DOMAIN w \/ i = Len(w) + 1
      BY <2>3
    <3>5. \A i, j \in 1..(Len(w) + 1) : Append(w, t)[i] = Append(w, t)[j] => i = j
      BY <2>3, <3>2, <3>3, <3>4
    <3>6. QED
      BY <2>3, <2>5, <3>1, <3>5
  <2>14. QED
    BY <1>4, <2>5, <2>6, <2>8, <2>9, <2>10, <2>12, <2>13 DEF LocksOwned, LocksTyped
<1>7. QED
  BY <1>5, <1>6

\* release(): the head of the queue, if there is one, is woken
LEMMA ReleaseOwns ==
  ASSUME MapTyped, LocksOwned, kinds' = kinds, NEW t \in Tasks, Holding(t),
         NEW place \in {"outside", "deleting"}, ReleaseTo(t, place),
         op' = op \/ op' = [op EXCEPT ![t] = NoOp]
  PROVE  LocksTyped' /\ stage' \in [Tasks -> Stages] /\ LocksOwned'
         /\ stage'[t] = place
         /\ \A u \in Tasks : stage'[u] = "deleting" => stage[u] = "deleting" \/ u = t
<1> DEFINE l == LockOf(op[t])
           w == locks[l].waiting
<1>1. /\ locks \in [Locks -> [locked : BOOLEAN, waiting : Seq(Tasks)]]
      /\ stage \in [Tasks -> Stages] /\ op \in [Tasks -> Operations \cup {NoOp}]
      /\ Operations' = Operations /\ op[t] \in Operations
  BY DEF MapTyped, LocksTyped, Operations, LocksOwned, Holding
<1>2. l \in Locks
  BY <1>1, LockTyped
<1>3. \A x : LockOf(x)' = LockOf(x)
  BY DEF LockOf
<1>4. \A u \in Tasks : u # t => op'[u] = op[u]
  BY <1>1
<1>5. /\ locks' = [locks EXCEPT ![l] = Released(locks[l])]
      /\ stage' = [u \in Tasks |-> IF u = t THEN place
                                ELSE IF u \in WokenBy(locks[l]) THEN "woken" ELSE stage[u]]
  BY DEF ReleaseTo
<1>6. w \in Seq(Tasks) /\ Len(w) \in Nat /\ DOMAIN w = 1..Len(w)
  BY <1>1, <1>2, LenProperties
<1>7. /\ \A i \in DOMAIN w : stage[w[i]] = "waiting" /\ LockOf(op[w[i]]) = l
      /\ \A i, j \in DOMAIN w : w[i] = w[j] => i = j
  BY <1>2 DEF LocksOwned
<1>8. \A u \in WokenBy(locks[l]) : u \in Tasks /\ stage[u] = "waiting" /\ w # <<>> /\ u = w[1]
  BY <1>6, <1>7 DEF WokenBy
<1>9. /\ Released(locks[l]) \in [locked : BOOLEAN, waiting : Seq(Tasks)]
      /\ \A i \in DOMAIN Released(locks[l]).waiting :
           /\ i + 1 \in DOMAIN w /\ Released(locks[l]).waiting[i] = w[i + 1]
           /\ i \in Nat \ {0} /\ w[i + 1] \in Tasks
           /\ w[i + 1] \notin WokenBy(locks[l])
  <2>1. CASE w = <<>>
    BY <2>1 DEF Released
  <2>2. CASE w # <<>>
    <3>1. /\ Released(locks[l]) = [locked |-> FALSE, waiting |-> Tail(w)]
          /\ WokenBy(locks[l]) = {w[1]}
      BY <2>2 DEF Released, WokenBy
    <3> HIDE DEF w
    <3>2. /\ Tail(w) \in Seq(Tasks) /\ DOMAIN Tail(w) = 1..(Len(w) - 1)
          /\ \A i \in 1..(Len(w) - 1) : Tail(w)[i] = w[i + 1]
      BY <1>6, <2>2, HeadTailProperties
    <3>3. \A i \in 1..(Len(w) - 1) :
            i + 1 \in DOMAIN w /\ i \in Nat \ {0} /\ i + 1 # 1 /\ 1 \in DOMAIN w
      BY <1>6
    <3>4. \A i \in 1..(Len(w) - 1) : w[i + 1] \in Tasks /\ w[i + 1] # w[1]
      BY <1>6, <1>7, <3>3
    <3>5. QED
      BY <3>1, <3>2, <3>3, <3>4
  <2>3. QED
    BY <2>1, <2>2
<1> HIDE DEF w
<1>10. /\ locks' \in [Locks -> [locked : BOOLEAN, waiting : Seq(Tasks)]]
       /\ locks'[l] = Released(locks[l])
       /\ \A m \in Locks : m # l => locks'[m] = locks[m]
  BY <1>1, <1>2, <1>5, <1>9
<1>11. /\ stage' \in [Tasks -> Stages] /\ stage'[t] = place
       /\ \A u \in Tasks : u # t =>
            stage'[u] = stage[u] \/ (stage'[u] = "woken" /\ stage[u] = "waiting")
       /\ \A u \in Tasks : u # t /\ u \notin WokenBy(locks[l]) => stage'[u] = stage[u]
  BY <1>1, <1>5, <1>8 DEF Stages
<1> HIDE DEF l
<1>12. \A u \in Tasks : Holding(u)' => Holding(u) /\ u # t /\ op'[u] = op[u]
  BY <1>4, <1>11 DEF Holding
<1>13. \A u \in Tasks : stage'[u] \notin {"outside", "deleting"} => op'[u] \in Operations'
  BY <1>1, <1>4, <1>11 DEF LocksOwned
<1>14. \A u \in Tasks : Holding(u)' => locks'[LockOf(op'[u])].locked
  <2>1. ASSUME NEW u \in Tasks, Holding(u)' PROVE locks'[LockOf(op'[u])].locked
    <3>1. Holding(u) /\ u # t /\ op'[u] = op[u]
      BY <1>12, <2>1
    <3>2. op[u] \in Operations /\ locks[LockOf(op[u])].locked
      BY <3>1 DEF LocksOwned, Holding
    <3>3. LockOf(op[u]) \in Locks /\ LockOf(op[u]) # l
      BY <3>1, <3>2, LockTyped DEF LocksOwned, l
    <3>4. QED
      BY <1>10, <3>1, <3>2, <3>3
  <2>2. QED
    BY <2>1
<1>15. \A u, v \in Tasks :
         Holding(u)' /\ Holding(v)' /\ LockOf(op'[u]) = LockOf(op'[v]) => u = v
  BY <1>12 DEF LocksOwned
<1>16. ASSUME NEW m \in Locks, NEW u \in Tasks, stage[u] = "waiting", LockOf(op[u]) = m,
             u \notin WokenBy(locks[l])
       PROVE  stage'[u] = "waiting" /\ LockOf(op'[u]) = m
  <2>1. u # t
    BY <1>16 DEF Holding
  <2>2. QED
    BY <1>4, <1>11, <1>16, <2>1
<1>17. \A m \in Locks : \A i \in DOMAIN locks'[m].waiting :
         /\ stage'[locks'[m].waiting[i]] = "waiting"
         /\ LockOf(op'[locks'[m].waiting[i]]) = m
  <2>1. ASSUME NEW m \in Locks, m # l, NEW i \in DOMAIN locks[m].waiting
        PROVE  /\ stage'[locks[m].waiting[i]] = "waiting"
               /\ LockOf(op'[locks[m].waiting[i]]) = m
    <3> DEFINE u == locks[m].waiting[i]
    <3>1. u \in Tasks
      BY <1>1
    <3>2. stage[u] = "waiting" /\ LockOf(op[u]) = m
      BY DEF LocksOwned
    <3> HIDE DEF u
    <3>3. u \notin WokenBy(locks[l])
      <4>1. ASSUME u \in WokenBy(locks[l]) PROVE FALSE
        <5>1. w # <<>> /\ u = w[1]
          BY <1>8, <4>1
        <5>2. 1 \in DOMAIN w
          BY <1>6, <5>1
        <5>3. QED
          BY <1>7, <2>1, <3>2, <5>1, <5>2
      <4>2. QED
        BY <4>1
    <3>4. QED
      BY <1>16, <3>1, <3>2, <3>3 DEF u
  <2>2. ASSUME NEW i \in DOMAIN locks'[l].waiting
        PROVE  /\ stage'[locks'[l].waiting[i]] = "waiting"
               /\ LockOf(op'[locks'[l].waiting[i]]) = l
    <3>1. /\ i + 1 \in DOMAIN w /\ locks'[l].waiting[i] = w[i + 1] /\ w[i + 1] \in Tasks
          /\ w[i + 1] \notin WokenBy(locks[l])
      BY <1>9, <1>10
    <3>2. QED
      BY <1>2, <1>7, <1>16, <3>1
  <2>3. QED
    BY <1>10, <2>1, <2>2
<1>18. \A m \in Locks : \A i, j \in DOMAIN locks'[m].waiting :
         locks'[m].waiting[i] = locks'[m].waiting[j] => i = j
  <2>1. \A m \in Locks : m # l => \A i, j \in DOMAIN locks'[m].waiting :
          locks'[m].waiting[i] = locks'[m].waiting[j] => i = j
    BY <1>10 DEF LocksOwned
  <2>2. ASSUME NEW i \in DOMAIN locks'[l].waiting, NEW j \in DOMAIN locks'[l].waiting,
               locks'[l].waiting[i] = locks'[l].waiting[j]
        PROVE  i = j
    <3>1. /\ i + 1 \in DOMAIN w /\ j + 1 \in DOMAIN w /\ w[i + 1] = w[j + 1]
          /\ i \in Nat /\ j \in Nat
      BY <1>9, <1>10, <2>2
    <3>2. i + 1 = j + 1
      BY <1>7, <3>1
    <3>3. QED
      BY <3>1, <3>2
  <2>3. QED
    BY <2>1, <2>2
<1>19. \A u \in Tasks : stage'[u] = "deleting" => stage[u] = "deleting" \/ u = t
  BY <1>11
<1>20. QED
  BY <1>3, <1>10, <1>11, <1>13, <1>14, <1>15, <1>17, <1>18, <1>19 DEF LocksOwned, LocksTyped

\* a step that leaves the locks alone and moves no task to a lock or away from one
LEMMA StaysOwned ==
  ASSUME MapTyped, LocksOwned, UNCHANGED <<kinds, locks>>,
         NEW t \in Tasks, NEW place \in Stages,
         stage' = [stage EXCEPT ![t] = place],
         \/ op' = op /\ Holding(t) /\ place \in {"computing", "leaving"}
         \/ /\ stage[t] \in {"outside", "deleting"} /\ place \in {"outside", "deleting"}
            /\ op' = op \/ op' = [op EXCEPT ![t] = NoOp]
  PROVE  LocksTyped' /\ stage' \in [Tasks -> Stages] /\ LocksOwned'
<1>1. /\ stage \in [Tasks -> Stages] /\ op \in [Tasks -> Operations \cup {NoOp}]
      /\ locks \in [Locks -> [locked : BOOLEAN, waiting : Seq(Tasks)]]
      /\ Operations' = Operations
  BY DEF MapTyped, LocksTyped, Operations
<1>2. \A x : LockOf(x)' = LockOf(x)
  BY DEF LockOf
<1>3. /\ stage' \in [Tasks -> Stages] /\ stage'[t] = place
      /\ \A u \in Tasks : u # t => stage'[u] = stage[u]
  BY <1>1
<1>4. \A u \in Tasks : u # t => op'[u] = op[u]
  BY <1>1
<1>5. \A u \in Tasks : Holding(u)' => Holding(u) /\ op'[u] = op[u]
  BY <1>3, <1>4 DEF Holding
<1>6. \A u \in Tasks : stage'[u] \notin {"outside", "deleting"} => op'[u] \in Operations'
  BY <1>1, <1>3, <1>4 DEF LocksOwned, Holding
<1>7. \A u \in Tasks : stage[u] = "waiting" => stage'[u] = "waiting" /\ op'[u] = op[u]
  BY <1>3, <1>4 DEF Holding
<1>8. \A l \in Locks : \A i \in DOMAIN locks[l].waiting :
        stage'[locks[l].waiting[i]] = "waiting" /\ LockOf(op'[locks[l].waiting[i]]) = l
  <2>1. \A l \in Locks : \A i \in DOMAIN locks[l].waiting : locks[l].waiting[i] \in Tasks
    BY <1>1
  <2>2. QED
    BY <1>7, <2>1 DEF LocksOwned
<1>9. \A u \in Tasks : Holding(u)' => locks[LockOf(op'[u])].locked
  BY <1>5 DEF LocksOwned
<1>10. \A u, v \in Tasks :
         Holding(u)' /\ Holding(v)' /\ LockOf(op'[u]) = LockOf(op'[v]) => u = v
  BY <1>5 DEF LocksOwned
<1>11. QED
  BY <1>1, <1>2, <1>3, <1>6, <1>8, <1>9, <1>10 DEF LocksOwned, LocksTyped

-----------------------------------------------------------------------------
(* What the operations do to a key *)

\* an operation that is neither on the whole map nor without a lock works on one key
LEMMA KeyOf ==
  ASSUME NEW o \in Operations, o.kind \notin Whole
  PROVE  o.key \in Keys /\ LockOf(o) = SegmentOf[o.key]
BY DEF Operations, LockOf, Whole

\* nobody else computes on a key while a task changes it under its lock
LEMMA OnlyOwn ==
  ASSUME MapTyped, LocksOwned, LockedIsAtomic, kinds \cap (Whole \cup Unlocked) = {},
         NEW t \in Tasks, Holding(t),
         \A k \in Keys : k # op[t].key => map'[k] = map[k],
         NEW u \in Tasks, u # t, stage[u] = "computing"
  PROVE  map'[op[u].key] = old[u]
<1>1. op[t] \in Operations /\ op[u] \in Operations /\ Holding(u)
  BY DEF LocksOwned, Holding
<1>2. op[t].kind \notin Whole /\ op[u].kind \notin Whole
  BY <1>1 DEF Operations, Whole, Atomic, Compound
<1>3. /\ op[u].key \in Keys /\ LockOf(op[u]) = SegmentOf[op[u].key]
      /\ LockOf(op[t]) = SegmentOf[op[t].key]
  BY <1>1, <1>2, KeyOf
<1>4. op[u].key # op[t].key
  BY <1>1, <1>3 DEF LocksOwned
<1>5. map[op[u].key] = old[u]
  BY DEF LockedIsAtomic, CompoundIsAtomic
<1>6. QED
  BY <1>3, <1>4, <1>5

\* a step that leaves the map, the operations and what was read as they are, and begins
\* no computation
LEMMA StaysAtomic ==
  ASSUME MapTyped, LocksOwned, LockedIsAtomic, UNCHANGED <<kinds, map>>,
         \A u \in Tasks : stage'[u] = "computing" =>
           stage[u] = "computing" /\ op'[u] = op[u] /\ old'[u] = old[u]
  PROVE  LockedIsAtomic'
BY DEF LockedIsAtomic, CompoundIsAtomic

\* acquire() moves its caller only, and not to a computation or a cleanup
LEMMA TryAcquirePlaces ==
  ASSUME stage \in [Tasks -> Stages], NEW t \in Tasks, NEW l, TryLock(t, l)
  PROVE  \A u \in Tasks :
           /\ stage'[u] \in {"computing", "deleting"} => u # t
           /\ u # t => stage'[u] = stage[u]
BY DEF TryLock, MoveTo

\* what the end of an operation leaves to the other tasks
LEMMA FinishFrame ==
  ASSUME MapTyped, LocksOwned, kinds' = kinds, NEW t \in Tasks, Holding(t), Finish(t)
  PROVE  /\ LocksTyped' /\ stage' \in [Tasks -> Stages] /\ LocksOwned'
         /\ op' \in [Tasks -> Operations' \cup {NoOp}]
         /\ old' \in [Tasks -> Values \cup {Absent}]
         /\ \A u \in Tasks : stage'[u] = "deleting" => stage[u] = "deleting"
         /\ \A u \in Tasks : stage'[u] = "computing" =>
              u # t /\ stage[u] = "computing" /\ op'[u] = op[u] /\ old'[u] = old[u]
<1>1. /\ ReleaseTo(t, "outside") /\ op' = [op EXCEPT ![t] = NoOp]
      /\ old' = [old EXCEPT ![t] = Absent]
  BY DEF Finish
<1>2. /\ LocksTyped' /\ stage' \in [Tasks -> Stages] /\ LocksOwned' /\ stage'[t] = "outside"
      /\ \A u \in Tasks : stage'[u] = "deleting" => stage[u] = "deleting" \/ u = t
  BY <1>1, ReleaseOwns
<1>3. op' \in [Tasks -> Operations' \cup {NoOp}] /\ \A u \in Tasks : u # t => op'[u] = op[u]
  BY <1>1 DEF MapTyped, Operations
<1>4. old' \in [Tasks -> Values \cup {Absent}] /\ \A u \in Tasks : u # t => old'[u] = old[u]
  BY <1>1 DEF MapTyped
<1>5. \A u \in Tasks : stage'[u] = "computing" => stage[u] = "computing"
  BY <1>1 DEF ReleaseTo
<1>6. QED
  BY <1>2, <1>3, <1>4, <1>5

-----------------------------------------------------------------------------
(* The actions *)

\* an acquisition, the first or a further one
LEMMA AcquireKeeps ==
  ASSUME MapInv, UNCHANGED <<kinds, map, old>>, NEW t \in Tasks,
         stage[t] \in {"outside", "woken", "deleting"},
         NEW o \in Operations, op' = [op EXCEPT ![t] = o], TryLock(t, LockOf(o)),
         NEW K \in SUBSET todo[t], todo' = [todo EXCEPT ![t] = K]
  PROVE  MapInv'
<1>1. MapTyped /\ LocksOwned /\ LockedIsAtomic
  BY DEF MapInv
<1>2. LocksTyped' /\ stage' \in [Tasks -> Stages] /\ LocksOwned'
  BY <1>1, TryAcquireOwns
<1>3. \A u \in Tasks : /\ stage'[u] \in {"computing", "deleting"} => u # t
                       /\ u # t => stage'[u] = stage[u] /\ op'[u] = op[u]
  BY <1>1, TryAcquirePlaces DEF MapTyped
<1>4. Operations' = Operations /\ op' \in [Tasks -> Operations \cup {NoOp}]
  BY <1>1 DEF MapTyped, Operations
<1>5. todo' \in [Tasks -> SUBSET Keys] /\ \A u \in Tasks : todo'[u] \subseteq todo[u]
  BY <1>1 DEF MapTyped
<1>6. \A u \in Tasks : stage'[u] = "deleting" \/ todo'[u] # {} => "cleanupExpired" \in kinds'
  BY <1>1, <1>3, <1>5 DEF MapTyped
<1>7. MapTyped'
  BY <1>1, <1>2, <1>4, <1>5, <1>6 DEF MapTyped
<1>8. LockedIsAtomic'
  BY <1>1, <1>3, StaysAtomic
<1>9. QED
  BY <1>2, <1>7, <1>8 DEF MapInv

\* the end of an operation, with what it made of the map
LEMMA FinishKeeps ==
  ASSUME MapInv, UNCHANGED <<kinds, todo>>, NEW t \in Tasks, Holding(t), Finish(t),
         map' \in [Keys -> Values \cup {Absent}],
         kinds \cap (Whole \cup Unlocked) = {} =>
           \A k \in Keys : k # op[t].key => map'[k] = map[k]
  PROVE  MapInv'
<1>1. MapTyped /\ LocksOwned /\ LockedIsAtomic
  BY DEF MapInv
<1>2. /\ LocksTyped' /\ stage' \in [Tasks -> Stages] /\ LocksOwned'
      /\ op' \in [Tasks -> Operations' \cup {NoOp}]
      /\ old' \in [Tasks -> Values \cup {Absent}]
      /\ \A u \in Tasks : stage'[u] = "deleting" => stage[u] = "deleting"
      /\ \A u \in Tasks : stage'[u] = "computing" =>
           u # t /\ stage[u] = "computing" /\ op'[u] = op[u] /\ old'[u] = old[u]
  BY <1>1, FinishFrame
<1>3. MapTyped'
  BY <1>1, <1>2 DEF MapTyped
<1>4. LockedIsAtomic'
  <2>1. SUFFICES ASSUME kinds \cap (Whole \cup Unlocked) = {},
                        NEW u \in Tasks, stage'[u] = "computing"
                 PROVE  map'[op'[u].key] = old'[u]
    BY DEF LockedIsAtomic, CompoundIsAtomic
  <2>2. u # t /\ stage[u] = "computing" /\ op'[u] = op[u] /\ old'[u] = old[u]
    BY <1>2, <2>1
  <2>3. map'[op[u].key] = old[u]
    BY <1>1, <2>1, <2>2, OnlyOwn
  <2>4. QED
    BY <2>2, <2>3
<1>5. QED
  BY <1>2, <1>3, <1>4 DEF MapInv

\* a change of one key
LEMMA OneKey ==
  ASSUME MapTyped, NEW k \in Keys, NEW v \in Values \cup {Absent}, map' = [map EXCEPT ![k] = v]
  PROVE  /\ map' \in [Keys -> Values \cup {Absent}]
         /\ \A j \in Keys : j # k => map'[j] = map[j]
BY DEF MapTyped

\* an operation on a key is one of those with a key
LEMMA Keyed ==
  ASSUME MapTyped, LocksOwned, NEW t \in Tasks, Holding(t),
         op[t].kind \in Atomic \cup Compound \cup {"cleanupExpired"}
  PROVE  op[t].key \in Keys
<1>1. op[t] \in Operations
  BY DEF LocksOwned, Holding
<1>2. QED
  BY <1>1 DEF Operations, Whole, Atomic, Compound

\* set(), delete() and deleteIf()
LEMMA RunAtomicKeeps ==
  ASSUME MapInv, NEW t \in Tasks, RunAtomic(t)
  PROVE  MapInv'
<1>1. MapTyped /\ LocksOwned /\ Holding(t) /\ Finish(t) /\ UNCHANGED <<kinds, todo>>
  BY DEF MapInv, Holding, RunAtomic
<1>2. op[t].key \in Keys
  BY <1>1, Keyed DEF RunAtomic
<1>3. map' = map \/ \E v \in Values \cup {Absent} : map' = [map EXCEPT ![op[t].key] = v]
  BY DEF RunAtomic
<1>4. /\ map' \in [Keys -> Values \cup {Absent}]
      /\ \A k \in Keys : k # op[t].key => map'[k] = map[k]
  BY <1>1, <1>2, <1>3, OneKey DEF MapTyped
<1>5. QED
  BY <1>1, <1>4, FinishKeeps

\* the caller's function has settled
LEMMA EndFnKeeps ==
  ASSUME MapInv, NEW t \in Tasks, EndFn(t)
  PROVE  MapInv'
<1>1. MapTyped /\ LocksOwned /\ Holding(t) /\ Finish(t) /\ UNCHANGED <<kinds, todo>>
  BY DEF MapInv, Holding, EndFn
<1>2. op[t].key \in Keys \/ op[t].kind \in Whole
  BY <1>1 DEF LocksOwned, Holding, Operations
<1>3. map' = map \/ \E v \in Values \cup {Absent} : map' = [map EXCEPT ![op[t].key] = v]
  BY DEF EndFn
<1>4. /\ map' \in [Keys -> Values \cup {Absent}]
      /\ \A k \in Keys : k # op[t].key => map'[k] = map[k]
  BY <1>1, <1>3 DEF MapTyped
<1>5. QED
  BY <1>1, <1>4, FinishKeeps

\* a delete() of cleanupExpired()
LEMMA RunDeleteKeeps ==
  ASSUME MapInv, NEW t \in Tasks, RunDelete(t)
  PROVE  MapInv'
<1>1. /\ MapTyped /\ LocksOwned /\ LockedIsAtomic /\ Holding(t) /\ ReleaseTo(t, "deleting")
      /\ UNCHANGED <<kinds, op, old, todo>> /\ map' = [map EXCEPT ![op[t].key] = Absent]
      /\ op[t].kind = "cleanupExpired"
  BY DEF MapInv, Holding, RunDelete
<1>2. /\ map' \in [Keys -> Values \cup {Absent}]
      /\ \A k \in Keys : k # op[t].key => map'[k] = map[k]
  BY <1>1 DEF MapTyped
<1>3. /\ LocksTyped' /\ stage' \in [Tasks -> Stages] /\ LocksOwned'
      /\ \A u \in Tasks : stage'[u] = "deleting" => stage[u] = "deleting" \/ u = t
  BY <1>1, ReleaseOwns
<1>4. \A u \in Tasks : stage'[u] = "computing" => u # t /\ stage[u] = "computing"
  BY <1>1 DEF ReleaseTo
<1>5. "cleanupExpired" \in kinds /\ Operations' = Operations
  BY <1>1 DEF LocksOwned, Holding, Operations, Whole
<1>6. MapTyped'
  BY <1>1, <1>2, <1>3, <1>5 DEF MapTyped
<1>7. LockedIsAtomic'
  <2>1. SUFFICES ASSUME kinds \cap (Whole \cup Unlocked) = {},
                        NEW u \in Tasks, stage'[u] = "computing"
                 PROVE  map'[op'[u].key] = old'[u]
    BY <1>1 DEF LockedIsAtomic, CompoundIsAtomic
  <2>2. u # t /\ stage[u] = "computing"
    BY <1>4, <2>1
  <2>3. map'[op[u].key] = old[u]
    BY <1>1, <1>2, <2>1, <2>2, OnlyOwn
  <2>4. QED
    BY <1>1, <2>3
<1>8. QED
  BY <1>3, <1>6, <1>7 DEF MapInv

\* the function given to getOrCreate(), update(), updateIfPresent() or compute() is called
LEMMA BeginFnKeeps ==
  ASSUME MapInv, NEW t \in Tasks, BeginFn(t)
  PROVE  MapInv'
<1>1. /\ MapTyped /\ LocksOwned /\ LockedIsAtomic /\ Holding(t)
      /\ UNCHANGED <<kinds, map, locks, op, todo>>
      /\ stage' = [stage EXCEPT ![t] = "computing"] /\ old' = [old EXCEPT ![t] = map[op[t].key]]
      /\ op[t].kind \in Compound
  BY DEF MapInv, Holding, BeginFn, MoveTo
<1>2. op[t].key \in Keys
  BY <1>1, Keyed
<1>3. LocksTyped' /\ stage' \in [Tasks -> Stages] /\ LocksOwned'
  BY <1>1, StaysOwned DEF Stages
<1>4. /\ old' \in [Tasks -> Values \cup {Absent}] /\ old'[t] = map[op[t].key]
      /\ stage'[t] = "computing"
      /\ \A u \in Tasks : u # t => old'[u] = old[u] /\ stage'[u] = stage[u]
  BY <1>1, <1>2 DEF MapTyped
<1>5. Operations' = Operations
  BY <1>1 DEF Operations
<1>6. MapTyped'
  BY <1>1, <1>3, <1>4, <1>5 DEF MapTyped
<1>7. LockedIsAtomic'
  BY <1>1, <1>4 DEF LockedIsAtomic, CompoundIsAtomic
<1>8. QED
  BY <1>3, <1>6, <1>7 DEF MapInv

\* a step that changes the map as a whole, or without a lock, which no execution the
\* property speaks of has
LEMMA OthersKeep ==
  ASSUME MapInv, UNCHANGED <<kinds, locks, old>>, NEW t \in Tasks, NEW place \in Stages,
         stage' = [stage EXCEPT ![t] = place], place # "computing",
         \/ op' = op /\ Holding(t) /\ place = "leaving"
         \/ /\ stage[t] \in {"outside", "deleting"} /\ place \in {"outside", "deleting"}
            /\ op' = op \/ op' = [op EXCEPT ![t] = NoOp],
         map' \in [Keys -> Values \cup {Absent}],
         kinds \cap (Whole \cup Unlocked) = {} => map' = map,
         todo' \in [Tasks -> SUBSET Keys],
         \A u \in Tasks : stage'[u] = "deleting" \/ todo'[u] # {} => "cleanupExpired" \in kinds
  PROVE  MapInv'
<1>1. MapTyped /\ LocksOwned /\ LockedIsAtomic
  BY DEF MapInv
<1>2. LocksTyped' /\ stage' \in [Tasks -> Stages] /\ LocksOwned'
  BY <1>1, StaysOwned
<1>3. Operations' = Operations /\ op' \in [Tasks -> Operations \cup {NoOp}]
  BY <1>1 DEF MapTyped, Operations
<1>4. MapTyped'
  BY <1>1, <1>2, <1>3 DEF MapTyped
<1>5. \A u \in Tasks : stage'[u] = "computing" =>
        u # t /\ stage[u] = "computing" /\ op'[u] = op[u] /\ old'[u] = old[u]
  BY <1>1 DEF MapTyped
<1>6. LockedIsAtomic'
  BY <1>1, <1>5 DEF LockedIsAtomic, CompoundIsAtomic
<1>7. QED
  BY <1>2, <1>4, <1>6 DEF MapInv

\* every step keeps the invariant
LEMMA MapInductive ==
  ASSUME MapInv, [SMNext]_smvars
  PROVE  MapInv'
<1>0. MapTyped /\ LocksOwned /\ LockedIsAtomic
  BY DEF MapInv
<1>1. ASSUME NEW t \in Tasks, NEW o \in Operations, Begin(t, o) PROVE MapInv'
  <2>1. /\ stage[t] = "outside" /\ op' = [op EXCEPT ![t] = o] /\ TryLock(t, LockOf(o))
        /\ UNCHANGED <<kinds, map, old, todo>>
    BY <1>1 DEF Begin, Acquire
  <2>2. todo' = [todo EXCEPT ![t] = todo[t]]
    BY <1>0, <2>1 DEF MapTyped
  <2>3. QED
    BY <2>1, <2>2, AcquireKeeps
<1>2. ASSUME NEW t \in Tasks, Unguarded(t) PROVE MapInv'
  <2>1. /\ stage[t] = "outside" /\ UNCHANGED <<kinds, locks, stage, op, old, todo>>
        /\ kinds \cap (Whole \cup Unlocked) # {}
    BY <1>2 DEF Unguarded, Unlocked
  <2>2. stage' = [stage EXCEPT ![t] = "outside"] /\ "outside" \in Stages
    BY <1>0, <2>1 DEF MapTyped, Stages
  <2>3. map' \in [Keys -> Values \cup {Absent}]
    <3>1. CASE \E k \in Keys, v \in Values \cup {Absent} : map' = [map EXCEPT ![k] = v]
      BY <1>0, <3>1, OneKey
    <3>2. CASE map' = [k \in Keys |-> Absent]
      BY <3>2
    <3>3. QED
      BY <1>2, <3>1, <3>2 DEF Unguarded
  <2>4. /\ todo' \in [Tasks -> SUBSET Keys]
        /\ \A u \in Tasks : stage'[u] = "deleting" \/ todo'[u] # {} => "cleanupExpired" \in kinds
    BY <1>0, <2>1 DEF MapTyped
  <2>5. QED
    BY <2>1, <2>2, <2>3, <2>4, OthersKeep
<1>3. ASSUME NEW t \in Tasks, ResumeWaiter(t) PROVE MapInv'
  <2>1. /\ stage[t] = "woken" /\ TryLock(t, LockOf(op[t]))
        /\ UNCHANGED <<kinds, map, op, old, todo>>
    BY <1>3 DEF ResumeWaiter
  <2>2. op[t] \in Operations /\ op' = [op EXCEPT ![t] = op[t]]
    BY <1>0, <2>1 DEF MapTyped, LocksOwned
  <2>3. todo' = [todo EXCEPT ![t] = todo[t]]
    BY <1>0, <2>1 DEF MapTyped
  <2>4. QED
    BY <2>1, <2>2, <2>3, AcquireKeeps
<1>4. ASSUME NEW t \in Tasks, RunNothing(t) \/ LeaveWhole(t) PROVE MapInv'
  <2>1. Holding(t) /\ Finish(t) /\ UNCHANGED <<kinds, map, todo>>
    BY <1>4 DEF RunNothing, LeaveWhole, Holding
  <2>2. /\ map' \in [Keys -> Values \cup {Absent}]
        /\ \A k \in Keys : k # op[t].key => map'[k] = map[k]
    BY <1>0, <2>1 DEF MapTyped
  <2>3. QED
    BY <2>1, <2>2, FinishKeeps
<1>5. ASSUME NEW t \in Tasks, RunWhole(t) \/ Visit(t) PROVE MapInv'
  <2>1. /\ Holding(t) /\ UNCHANGED <<kinds, locks, op, old, todo>>
        /\ stage' = [stage EXCEPT ![t] = "leaving"] /\ op[t].kind \in Whole
        /\ map' = map \/ map' \in [Keys -> Values \cup {Absent}]
    <3>1. map' = map \/ map' \in [Keys -> Values \cup {Absent}]
      <4>1. CASE map' = [k \in Keys |-> Absent]
        BY <4>1
      <4>2. CASE \E K \in SUBSET Keys, v \in Values \cup {Absent} :
                   map' = [k \in Keys |-> IF k \in K THEN v ELSE map[k]]
        BY <1>0, <4>2 DEF MapTyped
      <4>3. CASE \E k \in Keys, v \in Values \cup {Absent} : map' = [map EXCEPT ![k] = v]
        BY <1>0, <4>3, OneKey
      <4>4. QED
        BY <1>5, <4>1, <4>2, <4>3 DEF RunWhole, Visit
    <3>2. CASE RunWhole(t)
      BY <3>1, <3>2 DEF RunWhole, Holding, MoveTo
    <3>3. CASE Visit(t)
      <4>1. stage' = [stage EXCEPT ![t] = "leaving"]
        BY <1>0, <3>3 DEF Visit, MapTyped
      <4>2. QED
        BY <3>1, <3>3, <4>1 DEF Visit, Holding, Whole
    <3>4. QED
      BY <1>5, <3>2, <3>3
  <2>2. map' \in [Keys -> Values \cup {Absent}] /\ "leaving" \in Stages
    BY <1>0, <2>1 DEF MapTyped, Stages
  <2>3. kinds \cap (Whole \cup Unlocked) # {}
    <3>1. op[t] \in Operations
      BY <1>0, <2>1 DEF LocksOwned, Holding
    <3>2. op[t].kind \in kinds
      BY <3>1 DEF Operations
    <3>3. QED
      BY <2>1, <3>2
  <2>4. /\ todo' \in [Tasks -> SUBSET Keys]
        /\ \A u \in Tasks : stage'[u] = "deleting" \/ todo'[u] # {} => "cleanupExpired" \in kinds
    BY <1>0, <2>1 DEF MapTyped
  <2>5. QED
    BY <2>1, <2>2, <2>3, <2>4, OthersKeep
<1>6. ASSUME NEW t \in Tasks, CollectExpired(t) PROVE MapInv'
  <2>1. /\ stage[t] = "outside" /\ "cleanupExpired" \in kinds
        /\ UNCHANGED <<kinds, map, locks, op, old>> /\ stage' = [stage EXCEPT ![t] = "deleting"]
        /\ todo' = [todo EXCEPT ![t] = {k \in Keys : map[k] \in Expired}]
    BY <1>6 DEF CollectExpired, MoveTo
  <2>2. /\ todo' \in [Tasks -> SUBSET Keys] /\ map' \in [Keys -> Values \cup {Absent}]
        /\ "deleting" \in Stages
    BY <1>0, <2>1 DEF MapTyped, Stages
  <2>3. QED
    BY <2>1, <2>2, OthersKeep
<1>7. ASSUME NEW t \in Tasks, DeleteNext(t) PROVE MapInv'
  <2>1. PICK k \in todo[t] :
          /\ Acquire(t, [kind |-> "cleanupExpired", key |-> k])
          /\ todo' = [todo EXCEPT ![t] = todo[t] \ {k}]
    BY <1>7 DEF DeleteNext
  <2> DEFINE o == [kind |-> "cleanupExpired", key |-> k]
  <2>2. o \in Operations
    <3>1. k \in Keys /\ "cleanupExpired" \in kinds
      BY <1>0 DEF MapTyped
    <3>2. QED
      BY <3>1 DEF Operations
  <2>3. /\ stage[t] = "deleting" /\ op' = [op EXCEPT ![t] = o] /\ TryLock(t, LockOf(o))
        /\ UNCHANGED <<kinds, map, old>>
    BY <1>7, <2>1 DEF DeleteNext, Acquire
  <2> HIDE DEF o
  <2>4. todo[t] \ {k} \in SUBSET todo[t]
    OBVIOUS
  <2>5. QED
    BY <2>1, <2>2, <2>3, <2>4, AcquireKeeps
<1>8. ASSUME NEW t \in Tasks, EndCleanup(t) PROVE MapInv'
  <2>1. /\ stage[t] = "deleting" /\ UNCHANGED <<kinds, map, locks, old, todo>>
        /\ stage' = [stage EXCEPT ![t] = "outside"] /\ op' = [op EXCEPT ![t] = NoOp]
    BY <1>8 DEF EndCleanup, MoveTo
  <2>2. /\ todo' \in [Tasks -> SUBSET Keys] /\ map' \in [Keys -> Values \cup {Absent}]
        /\ "outside" \in Stages
        /\ \A u \in Tasks : stage'[u] = "deleting" \/ todo'[u] # {} => "cleanupExpired" \in kinds
    BY <1>0, <2>1 DEF MapTyped, Stages
  <2>3. QED
    BY <2>1, <2>2, OthersKeep
<1>9. CASE UNCHANGED smvars
  BY <1>9 DEF smvars, MapInv, MapTyped, LocksTyped, LocksOwned, Holding, LockOf,
     Operations, LockedIsAtomic, CompoundIsAtomic
<1>10. QED
  BY <1>1, <1>2, <1>3, <1>4, <1>5, <1>6, <1>7, <1>8, <1>9, RunAtomicKeeps, EndFnKeeps,
     RunDeleteKeeps, BeginFnKeeps DEF SMNext, InsideStep

\* so does the beginning
LEMMA MapInitial ==
  ASSUME SMInit
  PROVE  MapInv
<1>1. MapTyped
  BY SafeMapAssumption DEF SMInit, MapTyped, LocksTyped, FreeLock, Stages
<1>2. LocksOwned
  BY DEF SMInit, LocksOwned, Holding, FreeLock
<1>3. QED
  BY <1>1, <1>2 DEF SMInit, MapInv, LockedIsAtomic, CompoundIsAtomic

(* While the function given to getOrCreate(), update(), updateIfPresent()   *)
(* or compute() runs, nobody changes the value it was given, if all the     *)
(* operations of the program take the lock of their key.                    *)
THEOREM CompoundsAreAtomic == SMSpec => []LockedIsAtomic
<1>1. SMInit => MapInv
  BY MapInitial
<1>2. MapInv /\ [SMNext]_smvars => MapInv'
  BY MapInductive
<1>3. MapInv => LockedIsAtomic
  BY DEF MapInv
<1>4. QED
  BY <1>1, <1>2, <1>3, PTL DEF SMSpec

-----------------------------------------------------------------------------
(* The locks of SafeMap *)

\* how often every task came to every lock
CallsTyped == acquired \in [Locks -> [Tasks -> Nat]]

\* what a step of the map is to one of its locks
StepAt(l) == LockAt(l)!Next \/ UNCHANGED LockAt(l)!vars

\* the place of a task at a lock, by where it is in its operation
LEMMA PlaceOf ==
  ASSUME NEW l, NEW t \in Tasks
  PROVE  /\ stage[t] \in {"outside", "deleting"} \/ LockOf(op[t]) # l
              => PlaceAt(l)[t] = "outside"
         /\ stage[t] \in {"computing", "leaving", "inside"} /\ LockOf(op[t]) = l
              => PlaceAt(l)[t] = "inside"
         /\ stage[t] \in {"waiting", "woken"} /\ LockOf(op[t]) = l
              => PlaceAt(l)[t] = stage[t]
BY DEF PlaceAt

\* it is the same after a step that leaves the task where it was, or moves it between
\* places that are one to the lock
LEMMA SamePlace ==
  ASSUME NEW l,
         \A u \in Tasks :
            \/ stage'[u] = stage[u] /\ op'[u] = op[u]
            \/ stage[u] \in {"outside", "deleting"} /\ stage'[u] \in {"outside", "deleting"}
            \/ /\ Holding(u) /\ stage'[u] \in {"inside", "computing", "leaving"}
               /\ op'[u] = op[u]
  PROVE  PlaceAt(l)' = PlaceAt(l)
<1>1. \A x : LockOf(x)' = LockOf(x)
  BY DEF LockOf
<1>2. ASSUME NEW u \in Tasks
      PROVE  (IF stage'[u] \in {"outside", "deleting"} THEN "outside"
              ELSE IF LockOf(op'[u]) # l THEN "outside"
              ELSE IF stage'[u] \in {"computing", "leaving"} THEN "inside" ELSE stage'[u])
             = (IF stage[u] \in {"outside", "deleting"} THEN "outside"
                ELSE IF LockOf(op[u]) # l THEN "outside"
                ELSE IF stage[u] \in {"computing", "leaving"} THEN "inside" ELSE stage[u])
  BY DEF Holding
<1>3. QED
  BY <1>1, <1>2 DEF PlaceAt

\* an acquisition is a call or a resumption at the lock it is for
LEMMA AcquireAt ==
  ASSUME MapTyped, LocksOwned, CallsTyped, NEW t \in Tasks, NEW o \in Operations,
         op' = [op EXCEPT ![t] = o], TryLock(t, LockOf(o)),
         \/ /\ stage[t] \in {"outside", "deleting"}
            /\ acquired[LockOf(o)][t] < MaxCalls
            /\ acquired' = [acquired EXCEPT ![LockOf(o)][t] = @ + 1]
         \/ stage[t] = "woken" /\ op[t] = o /\ acquired' = acquired
  PROVE  CallsTyped' /\ \A l \in Locks : StepAt(l)
<1> DEFINE m == LockOf(o)
<1>1. /\ locks \in [Locks -> [locked : BOOLEAN, waiting : Seq(Tasks)]]
      /\ stage \in [Tasks -> Stages] /\ op \in [Tasks -> Operations \cup {NoOp}]
      /\ m \in Locks /\ acquired[m] \in [Tasks -> Nat]
  BY LockTyped DEF MapTyped, LocksTyped, CallsTyped
<1>2. op'[t] = o /\ \A u \in Tasks : u # t => op'[u] = op[u] /\ stage'[u] = stage[u]
  BY <1>1, TryAcquirePlaces
<1>3. \A x : LockOf(x)' = LockOf(x)
  BY DEF LockOf
<1>4. /\ CallsTyped'
      /\ \A l \in Locks : l # m => acquired'[l] = acquired[l]
      /\ \/ /\ stage[t] \in {"outside", "deleting"} /\ acquired[m][t] < MaxCalls
            /\ acquired'[m] = [acquired[m] EXCEPT ![t] = acquired[m][t] + 1]
         \/ stage[t] = "woken" /\ op[t] = o /\ acquired'[m] = acquired[m]
  <2>1. CASE acquired' = acquired
    BY <2>1, <1>1 DEF CallsTyped
  <2>2. CASE /\ stage[t] \in {"outside", "deleting"} /\ acquired[m][t] < MaxCalls
             /\ acquired' = [acquired EXCEPT ![m][t] = @ + 1]
    <3>1. acquired' = [acquired EXCEPT ![m] = [acquired[m] EXCEPT ![t] = acquired[m][t] + 1]]
      BY <2>2
    <3>2. [acquired[m] EXCEPT ![t] = acquired[m][t] + 1] \in [Tasks -> Nat]
      BY <1>1
    <3> HIDE DEF m
    <3>3. QED
      BY <1>1, <2>2, <3>1, <3>2 DEF CallsTyped
  <2>3. QED
    BY <2>1, <2>2
<1> HIDE DEF m
<1>5. \/ /\ ~locks[m].locked /\ locks' = [locks EXCEPT ![m] = Taken(locks[m])]
         /\ stage'[t] = "inside"
      \/ /\ locks[m].locked /\ locks' = [locks EXCEPT ![m] = Queued(locks[m], t)]
         /\ stage'[t] = "waiting"
  BY <1>1 DEF TryLock, MoveTo, m
<1>6. ASSUME NEW l \in Locks, l # m PROVE StepAt(l)
  <2>1. locks'[l] = locks[l] /\ acquired'[l] = acquired[l]
    BY <1>1, <1>4, <1>5, <1>6
  <2>2. PlaceAt(l)' = PlaceAt(l)
    <3>1. stage[t] \in {"outside", "deleting"} \/ op[t] = o
      BY <1>4
    <3>2. QED
      BY <1>2, <1>3, <1>6, <3>1 DEF PlaceAt, m
  <2>3. QED
    BY <2>1, <2>2 DEF StepAt, LockAt!vars
<1>7. StepAt(m)
  <2> DEFINE p == PlaceAt(m)
  <2>1. p' = [p EXCEPT ![t] = stage'[t]]
    BY <1>2, <1>3, <1>5 DEF PlaceAt, m
  <2>2. p[t] = IF stage[t] = "woken" THEN "woken" ELSE "outside"
    BY <1>4 DEF PlaceAt, m
  <2>3. LockAt(m)!TryAcquire(t)
    BY <1>1, <1>5, <2>1 DEF LockAt!TryAcquire, Taken, Queued,
       LockAt!Taken, LockAt!Queued
  <2>4. LockAt(m)!Call(t) \/ LockAt(m)!Resume(t)
    BY <1>4, <2>2, <2>3 DEF LockAt!Call, LockAt!Resume
  <2>5. QED
    BY <2>4 DEF StepAt, LockAt!Next
<1>8. QED
  BY <1>4, <1>6, <1>7

\* a release is one at the lock that was held
LEMMA ReleaseAt ==
  ASSUME MapTyped, LocksOwned, CallsTyped, NEW t \in Tasks, Holding(t), UNCHANGED acquired,
         NEW o \in Operations, op[t] = o,
         NEW place \in {"outside", "deleting"}, ReleaseTo(t, place),
         op' = op \/ op' = [op EXCEPT ![t] = NoOp]
  PROVE  CallsTyped' /\ \A l \in Locks : StepAt(l)
<1> DEFINE m == LockOf(o)
<1>1. /\ locks \in [Locks -> [locked : BOOLEAN, waiting : Seq(Tasks)]]
      /\ m \in Locks
      /\ stage \in [Tasks -> Stages] /\ op \in [Tasks -> Operations \cup {NoOp}]
  BY LockTyped DEF MapTyped, LocksTyped, LocksOwned, Holding
<1>2. /\ locks' = [locks EXCEPT ![m] = Released(locks[m])]
      /\ stage' = [u \in Tasks |-> IF u = t THEN place
                                   ELSE IF u \in WokenBy(locks[m]) THEN "woken" ELSE stage[u]]
  BY DEF ReleaseTo
<1>3. \A u \in Tasks : u # t => op'[u] = op[u]
  BY <1>1
<1>4. \A x : LockOf(x)' = LockOf(x)
  BY DEF LockOf
<1>5. \A u \in WokenBy(locks[m]) :
        u \in Tasks /\ stage[u] = "waiting" /\ LockOf(op[u]) = m
  <2>1. locks[m].waiting \in Seq(Tasks)
    BY <1>1
  <2>2. ASSUME locks[m].waiting # <<>>
        PROVE  /\ Head(locks[m].waiting) = locks[m].waiting[1]
               /\ 1 \in DOMAIN locks[m].waiting /\ locks[m].waiting[1] \in Tasks
    BY <2>1, <2>2
  <2> HIDE DEF m
  <2>3. QED
    BY <1>1, <2>2 DEF WokenBy, LocksOwned
<1>6. CallsTyped'
  BY DEF CallsTyped, Locks
<1> HIDE DEF m
<1>7. ASSUME NEW l \in Locks, l # m PROVE StepAt(l)
  <2>1. locks'[l] = locks[l] /\ acquired'[l] = acquired[l]
    BY <1>1, <1>2, <1>7
  <2>2. PlaceAt(l)' = PlaceAt(l)
    BY <1>2, <1>3, <1>4, <1>5, <1>7 DEF PlaceAt, m
  <2>3. QED
    BY <2>1, <2>2 DEF StepAt, LockAt!vars
<1>8. StepAt(m)
  <2> DEFINE p == PlaceAt(m)
  <2>1. p[t] = "inside"
    BY PlaceOf DEF Holding, m
  <2>2. p' = [u \in Tasks |-> IF u = t THEN "outside"
                              ELSE IF u \in WokenBy(locks[m]) THEN "woken" ELSE p[u]]
    BY <1>2, <1>3, <1>4, <1>5 DEF PlaceAt
  <2>3. WokenBy(locks[m]) = LockAt(m)!WokenBy(locks[m])
    BY DEF WokenBy, LockAt!WokenBy
  <2>4. locks'[m] = LockAt(m)!Released(locks[m])
    BY <1>1, <1>2 DEF Released, LockAt!Released
  <2>5. LockAt(m)!Release(t)
    BY <2>1, <2>2, <2>3, <2>4 DEF LockAt!Release
  <2>6. QED
    BY <2>5 DEF StepAt, LockAt!Next
<1>9. QED
  BY <1>6, <1>7, <1>8

\* a step that leaves the locks, and moves one task between places that are one to them
LEMMA NoneAt ==
  ASSUME MapTyped, CallsTyped, UNCHANGED <<locks, acquired>>, NEW t \in Tasks, NEW place,
         stage' = [stage EXCEPT ![t] = place],
         \/ op' = op /\ Holding(t) /\ place \in {"computing", "leaving"}
         \/ /\ stage[t] \in {"outside", "deleting"} /\ place \in {"outside", "deleting"}
            /\ op' = op \/ op' = [op EXCEPT ![t] = NoOp]
  PROVE  CallsTyped' /\ \A l \in Locks : StepAt(l)
<1>1. /\ stage \in [Tasks -> Stages] /\ op \in [Tasks -> Operations \cup {NoOp}]
  BY DEF MapTyped
<1>2. /\ stage'[t] = place
      /\ \A u \in Tasks : u # t => stage'[u] = stage[u] /\ op'[u] = op[u]
  BY <1>1
<1>3. \A u \in Tasks :
        \/ stage'[u] = stage[u] /\ op'[u] = op[u]
        \/ stage[u] \in {"outside", "deleting"} /\ stage'[u] \in {"outside", "deleting"}
        \/ /\ Holding(u) /\ stage'[u] \in {"inside", "computing", "leaving"}
           /\ op'[u] = op[u]
  BY <1>2
<1>4. \A l \in Locks : PlaceAt(l)' = PlaceAt(l)
  BY <1>3, SamePlace
<1>5. \A l \in Locks : StepAt(l)
  BY <1>4 DEF StepAt, LockAt!vars
<1>6. CallsTyped'
  BY DEF CallsTyped, Locks
<1>7. QED
  BY <1>5, <1>6

\* every step of the map is one of each of its locks, or none
LEMMA EachLockSteps ==
  ASSUME MapInv, CallsTyped, [SMNext]_smvars
  PROVE  CallsTyped' /\ \A l \in Locks : StepAt(l)
<1>0. MapTyped /\ LocksOwned
  BY DEF MapInv
<1> DEFINE Goal == CallsTyped' /\ \A l \in Locks : StepAt(l)
<1> HIDE DEF Goal
<1>1. ASSUME NEW t \in Tasks, NEW o \in Operations, stage[t] \in {"outside", "deleting"},
             Acquire(t, o)
      PROVE  Goal
  BY <1>0, <1>1, AcquireAt DEF Acquire, Goal
<1>2. ASSUME NEW t \in Tasks, NEW place \in {"outside", "deleting"}, Holding(t),
             ReleaseTo(t, place), UNCHANGED acquired,
             op' = op \/ op' = [op EXCEPT ![t] = NoOp]
      PROVE  Goal
  <2>1. PICK o \in Operations : op[t] = o
    BY <1>0, <1>2 DEF LocksOwned, Holding
  <2>2. QED
    BY <1>0, <1>2, <2>1, ReleaseAt DEF Goal
<1>3. ASSUME NEW t \in Tasks, NEW o \in Operations, Begin(t, o) PROVE Goal
  BY <1>1, <1>3 DEF Begin
<1>4. ASSUME NEW t \in Tasks, Unguarded(t) PROVE Goal
  <2>1. stage[t] = "outside" /\ UNCHANGED <<locks, stage, op, acquired>>
    BY <1>4 DEF Unguarded
  <2>2. stage' = [stage EXCEPT ![t] = "outside"]
    BY <1>0, <2>1 DEF MapTyped
  <2>3. QED
    BY <1>0, <2>1, <2>2, NoneAt DEF Goal
<1>5. ASSUME NEW t \in Tasks, ResumeWaiter(t) PROVE Goal
  <2>1. stage[t] = "woken" /\ TryLock(t, LockOf(op[t])) /\ UNCHANGED <<op, acquired>>
    BY <1>5 DEF ResumeWaiter
  <2>2. PICK o \in Operations : op[t] = o
    BY <1>0, <2>1 DEF LocksOwned
  <2>3. op' = [op EXCEPT ![t] = o]
    BY <1>0, <2>1, <2>2 DEF MapTyped
  <2>4. QED
    BY <1>0, <2>1, <2>2, <2>3, AcquireAt DEF Goal
<1>6. ASSUME NEW t \in Tasks,
             RunAtomic(t) \/ RunNothing(t) \/ EndFn(t) \/ LeaveWhole(t)
      PROVE  Goal
  <2>1. Holding(t) /\ Finish(t) /\ UNCHANGED acquired
    BY <1>6 DEF RunAtomic, RunNothing, EndFn, LeaveWhole, Holding
  <2>2. QED
    BY <1>2, <2>1 DEF Finish
<1>7. ASSUME NEW t \in Tasks, RunDelete(t) PROVE Goal
  BY <1>2, <1>7 DEF RunDelete, Holding
<1>8. ASSUME NEW t \in Tasks, BeginFn(t) \/ RunWhole(t) PROVE Goal
  <2>1. /\ Holding(t) /\ UNCHANGED <<locks, op, acquired>>
        /\ \E place \in {"computing", "leaving"} : stage' = [stage EXCEPT ![t] = place]
    BY <1>8 DEF BeginFn, RunWhole, MoveTo, Holding
  <2>2. QED
    BY <1>0, <2>1, NoneAt DEF Goal
<1>9. ASSUME NEW t \in Tasks, CollectExpired(t) PROVE Goal
  BY <1>0, <1>9, NoneAt DEF CollectExpired, MoveTo, Goal
<1>10. ASSUME NEW t \in Tasks, DeleteNext(t) PROVE Goal
  <2>1. PICK k \in todo[t] : Acquire(t, [kind |-> "cleanupExpired", key |-> k])
    BY <1>10 DEF DeleteNext
  <2>2. [kind |-> "cleanupExpired", key |-> k] \in Operations
    <3>1. k \in Keys /\ "cleanupExpired" \in kinds
      BY <1>0 DEF MapTyped
    <3>2. QED
      BY <3>1 DEF Operations
  <2>3. QED
    BY <1>1, <1>10, <2>1, <2>2 DEF DeleteNext
<1>11. ASSUME NEW t \in Tasks, EndCleanup(t) PROVE Goal
  BY <1>0, <1>11, NoneAt DEF EndCleanup, MoveTo, Goal
<1>12. CASE UNCHANGED smvars
  <2>1. UNCHANGED <<locks, stage, op, acquired>>
    BY <1>12 DEF smvars
  <2>2. \A l \in Locks : PlaceAt(l)' = PlaceAt(l)
    BY <2>1 DEF PlaceAt, LockOf
  <2>3. QED
    BY <2>1, <2>2 DEF Goal, CallsTyped, Locks, StepAt, LockAt!vars
<1>13. ASSUME NEW t \in Tasks, Visit(t) PROVE Goal
  <2>1. /\ Holding(t) /\ UNCHANGED <<locks, op, acquired>>
        /\ stage' = [stage EXCEPT ![t] = "leaving"]
    BY <1>0, <1>13 DEF Visit, Holding, MapTyped
  <2>2. QED
    BY <1>0, <2>1, NoneAt DEF Goal
<1>14. QED
  BY <1>3, <1>4, <1>5, <1>6, <1>7, <1>8, <1>9, <1>10, <1>11, <1>12, <1>13
     DEF SMNext, InsideStep, Goal

(* Every lock of the map behaves as an AsyncLock, whatever operations are in *)
(* use: what is proved of AsyncLock holds of each segment and of the global  *)
(* lock.                                                                     *)
THEOREM EachLockIsOne == SMSpec => LocksAreAsyncLocks
<1> DEFINE LInv == MapInv /\ CallsTyped
           Steps == \A l \in Locks : StepAt(l)
<1>1. SMInit => LInv
  BY MapInitial DEF SMInit, CallsTyped
<1>2. SMInit => \A l \in Locks : LockAt(l)!Init
  <2>1. ASSUME SMInit, NEW l \in Locks PROVE LockAt(l)!Init
    <3>1. locks[l] = LockAt(l)!FreeLock
      BY <2>1 DEF SMInit, FreeLock, LockAt!FreeLock
    <3>2. PlaceAt(l) = [t \in Tasks |-> "outside"] /\ acquired[l] = [t \in Tasks |-> 0]
      BY <2>1 DEF SMInit, PlaceAt
    <3>3. QED
      BY <3>1, <3>2 DEF LockAt!Init
  <2>2. QED
    BY <2>1
<1>3. LInv /\ [SMNext]_smvars => LInv' /\ Steps
  BY MapInductive, EachLockSteps
<1>4. [Steps]_smvars = [\A l \in Locks :
          LockAt(l)!Next \/ UNCHANGED LockAt(l)!vars]_smvars
  BY DEF StepAt
<1>5. QED
  BY <1>1, <1>2, <1>3, <1>4, PTL DEF SMSpec, LocksAreAsyncLocks, StepAt

(* Every part of the map's state keeps its type.                            *)
THEOREM MapsTyped == SMSpec => []SMTypeOK
<1> DEFINE TInv == MapInv /\ CallsTyped /\ kinds \in Mixes
<1>1. SMInit => TInv
  BY MapInitial DEF SMInit, CallsTyped
<1>2. TInv /\ [SMNext]_smvars => TInv'
  <2>1. ASSUME [SMNext]_smvars PROVE kinds' = kinds
    BY <2>1 DEF SMNext, smvars, Begin, Unguarded, ResumeWaiter, InsideStep, RunAtomic,
       RunNothing, BeginFn, EndFn, RunWhole, Visit, LeaveWhole, RunDelete, CollectExpired,
       DeleteNext, EndCleanup
  <2>2. QED
    BY <2>1, MapInductive, EachLockSteps
<1>3. TInv => SMTypeOK
  BY DEF MapInv, MapTyped, LocksTyped, CallsTyped, SMTypeOK
<1>4. QED
  BY <1>1, <1>2, <1>3, PTL DEF SMSpec

\* what AsyncLock promises of one lock of the map
ServedAt(l) == LockAt(l)!MutualExclusion /\ LockAt(l)!NoStrandedWaiter

\* the holders of a lock are those its flag speaks of
LEMMA OneInside ==
  ASSUME LocksOwned, NEW l \in Locks
  PROVE  LockAt(l)!MutualExclusion
<1>1. ASSUME NEW t \in Tasks, PlaceAt(l)[t] = "inside"
      PROVE  Holding(t) /\ LockOf(op[t]) = l
  BY <1>1 DEF PlaceAt, Holding
<1>2. QED
  BY <1>1 DEF LockAt!MutualExclusion, LocksOwned

\* a release wakes the head of the queue, and whoever finds the lock raises its flag
LEMMA NoneStranded ==
  ASSUME MapTyped, LocksOwned, NEW l \in Locks, LockAt(l)!NoStrandedWaiter, StepAt(l)
  PROVE  (LockAt(l)!NoStrandedWaiter)'
<1>1. locks[l] \in [locked : BOOLEAN, waiting : Seq(Tasks)]
  BY DEF MapTyped, LocksTyped
<1>2. ASSUME NEW t \in Tasks, LockAt(l)!TryAcquire(t) PROVE locks'[l].locked
  BY <1>1, <1>2 DEF LockAt!TryAcquire, LockAt!Taken, LockAt!Queued
<1>3. ASSUME NEW t \in Tasks, LockAt(l)!Release(t), locks'[l].waiting # <<>>
      PROVE  \E u \in Tasks : PlaceAt(l)'[u] = "woken"
  <2> DEFINE w == locks[l].waiting
  <2>1. /\ w \in Seq(Tasks) /\ locks'[l] = LockAt(l)!Released(locks[l])
        /\ PlaceAt(l)[t] = "inside"
    BY <1>1, <1>3 DEF LockAt!Release
  <2>2. w # <<>>
    BY <1>3, <2>1 DEF LockAt!Released
  <2>3. Head(w) = w[1] /\ 1 \in DOMAIN w /\ w[1] \in Tasks
    BY <2>1, <2>2
  <2>4. stage[Head(w)] = "waiting"
    BY <2>3 DEF LocksOwned
  <2>5. stage[t] # "waiting"
    BY <2>1 DEF PlaceAt
  <2>6. Head(w) \in LockAt(l)!WokenBy(locks[l])
    BY <2>2 DEF LockAt!WokenBy
  <2>7. PlaceAt(l)'[Head(w)] = "woken"
    BY <1>3, <2>3, <2>4, <2>5, <2>6 DEF LockAt!Release
  <2>8. QED
    BY <2>3, <2>7
<1>4. CASE UNCHANGED LockAt(l)!vars
  BY <1>4 DEF LockAt!vars, LockAt!NoStrandedWaiter
<1>5. CASE LockAt(l)!Next
  BY <1>2, <1>3, <1>5 DEF LockAt!Next, LockAt!Call, LockAt!Resume, LockAt!NoStrandedWaiter
<1>6. QED
  BY <1>4, <1>5 DEF StepAt

(* So two operations on keys of one segment are never inside together, nor   *)
(* two on the whole map, and no release of any of the locks leaves those     *)
(* that wait for it behind, whichever operations are in use.                 *)
THEOREM EachLockServes == SMSpec => [](\A l \in Locks : ServedAt(l))
<1> DEFINE LInv == MapInv /\ CallsTyped
           Served == \A l \in Locks : LockAt(l)!NoStrandedWaiter
<1>1. SMInit => LInv /\ Served
  <2>1. ASSUME SMInit, NEW l \in Locks PROVE LockAt(l)!NoStrandedWaiter
    BY <2>1 DEF SMInit, FreeLock, LockAt!NoStrandedWaiter
  <2>2. SMInit => LInv
    BY MapInitial DEF SMInit, CallsTyped
  <2>3. QED
    BY <2>1, <2>2
<1>2. LInv /\ Served /\ [SMNext]_smvars => LInv' /\ Served'
  <2>1. ASSUME LInv, Served, [SMNext]_smvars PROVE LInv' /\ Served'
    <3>1. LInv' /\ \A l \in Locks : StepAt(l)
      BY <2>1, MapInductive, EachLockSteps
    <3>2. MapTyped /\ LocksOwned
      BY <2>1 DEF MapInv
    <3>3. ASSUME NEW l \in Locks PROVE (LockAt(l)!NoStrandedWaiter)'
      BY <2>1, <3>1, <3>2, NoneStranded
    <3>4. Locks' = Locks
      BY DEF Locks
    <3>5. QED
      BY <3>1, <3>3, <3>4
  <2>2. QED
    BY <2>1
<1>3. LInv /\ Served => \A l \in Locks : ServedAt(l)
  BY OneInside DEF MapInv, ServedAt
<1>4. QED
  BY <1>1, <1>2, <1>3, PTL DEF SMSpec

-----------------------------------------------------------------------------
(* AccountQueues *)

Elems(s) == {s[i] : i \in DOMAIN s}
Once(s) == \A i, j \in DOMAIN s : s[i] = s[j] => i = j
Past == {o \in Orders : pc[o] # "called"}

\* every queue holds the orders whose turn there is to come, each once
Lined ==
  /\ Elems(global) \subseteq At("queued") /\ Once(global)
  /\ \A q \in Queues :
       /\ Elems(waiting[q]) \subseteq {o \in At("admitted") : queueOf[o] = q}
       /\ Once(waiting[q])

\* an account has a queue exactly when it has an entry, and there are no more queues
\* than orders that asked for one
Made ==
  /\ \A a \in Accounts : entries[a] # NoEntry => entries[a].queue # 0
  /\ \A o \in Orders : pc[o] # "called" <=> queueOf[o] # 0
  /\ made <= Cardinality(Past)

\* without a cleanup an entry stays, counts, and is the one an order was given
Entered ==
  cleanups = 0 =>
    /\ idle = {}
    /\ \A o \in Past : EntryOf(o) # NoEntry /\ queueOf[o] = EntryOf(o).queue
    /\ \A a \in Accounts :
         entries[a] # NoEntry => entries[a].active = Cardinality(Counted(a))

QueuesInv == AQTypeOK /\ Lined /\ Made /\ Entered

\* the first of a queue leaves it
LEMMA HeadLeaves ==
  ASSUME NEW S, NEW s \in Seq(S), s # <<>>, Once(s)
  PROVE  /\ Head(s) \in Elems(s) /\ Head(s) \in S
         /\ Tail(s) \in Seq(S) /\ Elems(Tail(s)) \subseteq Elems(s) \ {Head(s)} /\ Once(Tail(s))
<1>1. /\ Len(s) \in Nat /\ DOMAIN s = 1..Len(s) /\ 1 \in DOMAIN s
  BY LenProperties, EmptySeq
<1>2. /\ Head(s) = s[1] /\ Head(s) \in S /\ Tail(s) \in Seq(S)
      /\ DOMAIN Tail(s) = 1..(Len(s) - 1)
      /\ \A i \in 1..(Len(s) - 1) : Tail(s)[i] = s[i + 1]
  BY HeadTailProperties
<1>3. \A i \in 1..(Len(s) - 1) : i \in Nat \ {0} /\ i + 1 \in DOMAIN s /\ i + 1 # 1
  BY <1>1
<1>4. Elems(Tail(s)) \subseteq Elems(s) \ {Head(s)}
  BY <1>1, <1>2, <1>3 DEF Elems, Once
<1>5. ASSUME NEW i \in DOMAIN Tail(s), NEW j \in DOMAIN Tail(s), Tail(s)[i] = Tail(s)[j]
      PROVE  i = j
  <2>1. i + 1 = j + 1
    BY <1>2, <1>3, <1>5 DEF Once
  <2>2. QED
    BY <1>2, <1>3, <2>1
<1>6. QED
  BY <1>1, <1>2, <1>4, <1>5 DEF Elems, Once

\* a newcomer joins at the end
LEMMA LastJoins ==
  ASSUME NEW S, NEW s \in Seq(S), NEW x \in S, Once(s), x \notin Elems(s)
  PROVE  /\ Append(s, x) \in Seq(S) /\ Elems(Append(s, x)) = Elems(s) \cup {x}
         /\ Once(Append(s, x))
<1>1. /\ Len(s) \in Nat /\ DOMAIN s = 1..Len(s)
      /\ Append(s, x) \in Seq(S) /\ DOMAIN Append(s, x) = 1..(Len(s) + 1)
      /\ Append(s, x)[Len(s) + 1] = x
      /\ \A i \in DOMAIN s : Append(s, x)[i] = s[i]
  BY AppendProperties
<1>2. \A i \in 1..(Len(s) + 1) : i \in DOMAIN s \/ i = Len(s) + 1
  BY <1>1
<1>3. Len(s) + 1 \in 1..(Len(s) + 1) /\ \A i \in DOMAIN s : i \in 1..(Len(s) + 1)
  BY <1>1
<1>4. Elems(Append(s, x)) = Elems(s) \cup {x}
  BY <1>1, <1>2, <1>3 DEF Elems
<1>5. Once(Append(s, x))
  BY <1>1, <1>2 DEF Elems, Once
<1>6. QED
  BY <1>1, <1>4, <1>5

\* sets of orders are finite
LEMMA Finite ==
  ASSUME NEW S \in SUBSET Orders
  PROVE  IsFiniteSet(S) /\ Cardinality(S) \in Nat /\ Cardinality(S) <= Cardinality(Orders)
         /\ Cardinality(Orders) \in Nat
BY FS_Subset, FS_CardinalityType, AccountQueuesAssumption

\* one order less
LEMMA OneOut ==
  ASSUME NEW S \in SUBSET Orders, NEW x \in S
  PROVE  Cardinality(S \ {x}) = Cardinality(S) - 1
BY Finite, FS_RemoveElement

\* one order more
LEMMA OneIn ==
  ASSUME NEW S \in SUBSET Orders, NEW x \in Orders \ S
  PROVE  Cardinality(S \cup {x}) = Cardinality(S) + 1
BY Finite, FS_AddElement

Between == {"queued", "admitted", "running", "leaving"}

\* one order goes on
LEMMA Moved ==
  ASSUME pc \in [Orders -> CallPlaces], NEW o \in Orders, NEW place \in CallPlaces,
         Goto(o, place)
  PROVE  /\ pc' \in [Orders -> CallPlaces] /\ pc'[o] = place
         /\ \A p \in Orders : p # o => pc'[p] = pc[p]
BY DEF Goto

\* ... and stays counted, or stays uncounted, and asked for its queue before
LEMMA StaysCounted ==
  ASSUME pc \in [Orders -> CallPlaces], NEW o \in Orders, NEW place \in CallPlaces,
         Goto(o, place),
         pc[o] \in Between <=> place \in Between, pc[o] # "called", place # "called"
  PROVE  Past' = Past /\ \A a \in Accounts : Counted(a)' = Counted(a)
<1>1. /\ pc'[o] = place /\ \A p \in Orders : p # o => pc'[p] = pc[p]
  BY Moved
<1>2. QED
  BY <1>1 DEF Past, Counted, Between

\* an account's count changes
LEMMA EntryKept ==
  ASSUME AQTypeOK, NEW a \in Accounts, NEW n \in Int, entries' = [entries EXCEPT ![a].active = n],
         entries[a].queue # 0
  PROVE  /\ entries' \in [Accounts -> [queue : Queues \cup {0}, active : Int]]
         /\ entries'[a].queue = entries[a].queue /\ entries'[a].active = n
         /\ entries'[a] # NoEntry
         /\ \A b \in Accounts : b # a => entries'[b] = entries[b]
<1>1. entries \in [Accounts -> [queue : Queues \cup {0}, active : Int]]
  BY DEF AQTypeOK
<1>2. entries' = [entries EXCEPT ![a] = [entries[a] EXCEPT !.active = n]]
  BY <1>1
<1> DEFINE e == [entries[a] EXCEPT !.active = n]
<1>3. /\ e \in [queue : Queues \cup {0}, active : Int]
      /\ e.queue = entries[a].queue /\ e.active = n
  BY <1>1
<1>4. entries'[a] = e /\ \A b \in Accounts : b # a => entries'[b] = entries[b]
  BY <1>1, <1>2
<1>5. entries' \in [Accounts -> [queue : Queues \cup {0}, active : Int]]
  BY <1>1, <1>2, <1>3
<1> HIDE DEF e
<1>6. e # NoEntry
  BY <1>3 DEF NoEntry
<1>7. QED
  BY <1>3, <1>4, <1>5, <1>6

-----------------------------------------------------------------------------
(* The actions *)

\* an account is one, and has a type
LEMMA Accounted ==
  ASSUME AQTypeOK, NEW o \in Orders
  PROVE  /\ AccountOf[o] \in Accounts
         /\ \A a \in Accounts :
              /\ entries[a].queue \in Queues \cup {0} /\ entries[a].active \in Int
              /\ entries[a] = NoEntry <=> entries[a].queue = 0 /\ entries[a].active = 0
         /\ made \in Nat /\ Cardinality(Orders) \in Nat /\ Queues = 1..Cardinality(Orders)
<1>1. entries \in [Accounts -> [queue : Queues \cup {0}, active : Int]]
  BY DEF AQTypeOK
<1>2. \A e \in [queue : Queues \cup {0}, active : Int] :
        /\ e.queue \in Queues \cup {0} /\ e.active \in Int
        /\ e = NoEntry <=> e.queue = 0 /\ e.active = 0
  BY DEF NoEntry
<1>3. Cardinality(Orders) \in Nat
  BY Finite
<1>4. Queues = 1..Cardinality(Orders)
  BY DEF Queues
<1>5. AccountOf[o] \in Accounts
  BY AccountQueuesAssumption
<1>6. made \in Nat
  BY <1>3, <1>4 DEF AQTypeOK
<1>7. QED
  BY <1>1, <1>2, <1>3, <1>4, <1>5, <1>6

\* a new queue is one more than there were, and not more than the orders that asked
LEMMA GetQueueKeeps ==
  ASSUME QueuesInv, NEW o \in Orders, GetQueue(o)
  PROVE  QueuesInv'
<1> DEFINE a == AccountOf[o]
<1>1. /\ AQTypeOK /\ Lined /\ Made /\ Entered
      /\ pc[o] = "called" /\ Goto(o, "given")
      /\ UNCHANGED <<running, global, waiting, result, idle, cleanups>>
  BY DEF QueuesInv, GetQueue
<1>2. /\ pc \in [Orders -> CallPlaces] /\ queueOf \in [Orders -> Queues \cup {0}]
      /\ entries \in [Accounts -> [queue : Queues \cup {0}, active : Int]]
      /\ a \in Accounts
  BY <1>1, Accounted DEF AQTypeOK
<1>3. /\ pc' \in [Orders -> CallPlaces] /\ pc'[o] = "given"
      /\ \A p \in Orders : p # o => pc'[p] = pc[p]
  BY <1>1, <1>2, Moved DEF CallPlaces
<1>4. o \notin Past /\ Past' = Past \cup {o} /\ Past \subseteq Orders
  BY <1>1, <1>3 DEF Past
<1>5. /\ Cardinality(Past') = Cardinality(Past) + 1
      /\ Cardinality(Past') <= Cardinality(Orders)
      /\ Cardinality(Past) \in Nat /\ Cardinality(Orders) \in Nat
  BY <1>4, OneIn, Finite
<1>6. \A b \in Accounts : Counted(b)' = Counted(b)
  BY <1>1, <1>3 DEF Counted
<1>7. At("queued")' = At("queued") /\ At("admitted")' = At("admitted")
  BY <1>1, <1>3 DEF At
<1>8. queueOf[o] = 0
  BY <1>1 DEF Made
<1>9. CASE EntryOf(o) = NoEntry
  <2>1. /\ made' = made + 1 /\ queueOf' = [queueOf EXCEPT ![o] = made + 1]
        /\ entries' = [entries EXCEPT ![a] = [queue |-> made + 1, active |-> 0]]
    BY <1>9 DEF GetQueue
  <2>2. made + 1 \in Queues /\ made \in Nat /\ made' <= Cardinality(Past')
    BY <1>1, <1>5, <2>1, Accounted DEF Made
  <2>3. [queue |-> made + 1, active |-> 0] \in [queue : Queues \cup {0}, active : Int]
    BY <2>2
  <2>4. /\ entries' \in [Accounts -> [queue : Queues \cup {0}, active : Int]]
        /\ entries'[a] = [queue |-> made + 1, active |-> 0]
        /\ \A b \in Accounts : b # a => entries'[b] = entries[b]
    BY <1>2, <2>1, <2>3
  <2>5. entries'[a].queue = made + 1 /\ entries'[a].active = 0 /\ entries'[a] # NoEntry
    BY <2>2, <2>4 DEF NoEntry
  <2>6. /\ queueOf' \in [Orders -> Queues \cup {0}] /\ queueOf'[o] = made + 1
        /\ \A p \in Orders : p # o => queueOf'[p] = queueOf[p]
    BY <1>2, <2>1, <2>2
  <2>7. AQTypeOK'
    BY <1>1, <1>3, <2>1, <2>2, <2>4, <2>6 DEF AQTypeOK
  <2>8. Lined'
    <3>1. \A q \in Queues, p \in Orders : p \in At("admitted") /\ queueOf[p] = q =>
            p \in At("admitted")' /\ queueOf'[p] = q
      BY <1>1, <1>7, <2>6 DEF At
    <3>2. QED
      BY <1>1, <1>7, <3>1 DEF Lined, Elems, Once, At
  <2>9. Made'
    <3>1. \A p \in Orders : pc'[p] # "called" <=> queueOf'[p] # 0
      BY <1>1, <1>3, <2>2, <2>6 DEF Made
    <3>2. \A b \in Accounts : entries'[b] # NoEntry => entries'[b].queue # 0
      BY <1>1, <2>2, <2>4, <2>5 DEF Made
    <3>3. QED
      BY <2>2, <3>1, <3>2 DEF Made
  <2>10. Entered'
    <3>1. SUFFICES ASSUME cleanups = 0 PROVE Entered'
      BY <1>1 DEF Entered
    <3>2. \A p \in Past : AccountOf[p] # a /\ AccountOf[p] \in Accounts
      BY <1>1, <1>9, <3>1, Accounted DEF Entered, EntryOf, Past
    <3>3. \A p \in Past' : EntryOf(p)' # NoEntry /\ queueOf'[p] = EntryOf(p)'.queue
      BY <1>1, <1>4, <2>4, <2>5, <2>6, <3>1, <3>2 DEF Entered, EntryOf
    <3>4. Counted(a) = {}
      BY <3>2 DEF Counted, Past
    <3>5. \A b \in Accounts :
            entries'[b] # NoEntry => entries'[b].active = Cardinality(Counted(b)')
      BY <1>1, <1>6, <2>4, <2>5, <3>1, <3>4, FS_EmptySet DEF Entered
    <3>6. QED
      BY <1>1, <3>1, <3>3, <3>5 DEF Entered
  <2>11. QED
    BY <2>7, <2>8, <2>9, <2>10 DEF QueuesInv
<1>10. CASE EntryOf(o) # NoEntry
  <2>1. /\ UNCHANGED <<made, entries>>
        /\ queueOf' = [queueOf EXCEPT ![o] = entries[a].queue]
    BY <1>10 DEF GetQueue, EntryOf
  <2>2. entries[a].queue \in Queues \cup {0} /\ entries[a].queue # 0
    BY <1>1, <1>2, <1>10, Accounted DEF Made, EntryOf
  <2>3. /\ queueOf' \in [Orders -> Queues \cup {0}] /\ queueOf'[o] = entries[a].queue
        /\ \A p \in Orders : p # o => queueOf'[p] = queueOf[p]
    BY <1>2, <2>1, <2>2
  <2>4. AQTypeOK'
    BY <1>1, <1>3, <2>1, <2>3 DEF AQTypeOK
  <2>5. Lined'
    <3>1. \A q \in Queues, p \in Orders : p \in At("admitted") /\ queueOf[p] = q =>
            p \in At("admitted")' /\ queueOf'[p] = q
      BY <1>1, <1>7, <2>3 DEF At
    <3>2. QED
      BY <1>1, <1>7, <3>1 DEF Lined, Elems, Once, At
  <2>6. Made'
    <3>1. \A p \in Orders : pc'[p] # "called" <=> queueOf'[p] # 0
      BY <1>1, <1>3, <2>2, <2>3 DEF Made
    <3>2. made' <= Cardinality(Past')
      BY <1>1, <1>5, <2>1, Accounted DEF Made
    <3>3. QED
      BY <1>1, <2>1, <3>1, <3>2 DEF Made
  <2>7. Entered'
    <3>1. \A p \in Past' : cleanups = 0 =>
            EntryOf(p)' # NoEntry /\ queueOf'[p] = EntryOf(p)'.queue
      BY <1>1, <1>4, <1>10, <2>1, <2>3 DEF Entered, EntryOf, Past
    <3>2. QED
      BY <1>1, <1>6, <2>1, <3>1 DEF Entered
  <2>8. QED
    BY <2>4, <2>5, <2>6, <2>7 DEF QueuesInv
<1>11. QED
  BY <1>9, <1>10

\* what a step keeps that only moves an order on
LEMMA MovesOn ==
  ASSUME QueuesInv, NEW o \in Orders, pc[o] # "called", NEW place \in CallPlaces \ {"called"},
         Goto(o, place), UNCHANGED <<made, queueOf>>
  PROVE  /\ pc' \in [Orders -> CallPlaces] /\ pc'[o] = place
         /\ \A p \in Orders : p # o => pc'[p] = pc[p]
         /\ Past' = Past /\ made' <= Cardinality(Past')
         /\ \A p \in Orders : pc'[p] # "called" <=> queueOf'[p] # 0
<1>1. AQTypeOK /\ Made /\ pc \in [Orders -> CallPlaces]
  BY DEF QueuesInv, AQTypeOK
<1>2. /\ pc' \in [Orders -> CallPlaces] /\ pc'[o] = place
      /\ \A p \in Orders : p # o => pc'[p] = pc[p]
  BY <1>1, Moved
<1>3. Past' = Past
  BY <1>2 DEF Past
<1>4. QED
  BY <1>1, <1>2, <1>3 DEF Made

\* the first update of executeInQueue() and its entry into the global queue
LEMMA CountKeeps ==
  ASSUME QueuesInv, NEW o \in Orders, Count(o)
  PROVE  QueuesInv'
<1> DEFINE a == AccountOf[o]
<1>1. /\ AQTypeOK /\ Lined /\ Made /\ Entered /\ pc[o] = "given"
      /\ UNCHANGED <<made, queueOf, running, waiting, idle, cleanups>>
      /\ a \in Accounts
  BY Accounted DEF QueuesInv, Count
<1>2. CASE EntryOf(o) = NoEntry
  <2>1. /\ Goto(o, "done") /\ result' = [result EXCEPT ![o] = "rejected"]
        /\ UNCHANGED <<entries, global>>
    BY <1>2 DEF Count
  <2>2. /\ pc' \in [Orders -> CallPlaces] /\ pc'[o] = "done"
        /\ \A p \in Orders : p # o => pc'[p] = pc[p]
        /\ Past' = Past /\ made' <= Cardinality(Past')
        /\ \A p \in Orders : pc'[p] # "called" <=> queueOf'[p] # 0
    BY <1>1, <2>1, MovesOn DEF CallPlaces
  <2>3. AQTypeOK'
    BY <1>1, <2>1, <2>2 DEF AQTypeOK
  <2>4. At("queued")' = At("queued") /\ At("admitted")' = At("admitted")
    BY <1>1, <2>2 DEF At
  <2>5. Lined'
    BY <1>1, <2>1, <2>4 DEF Lined, Elems, Once
  <2>6. cleanups # 0
    BY <1>1, <1>2 DEF Entered, Past
  <2>7. QED
    BY <1>1, <2>1, <2>2, <2>3, <2>5, <2>6 DEF QueuesInv, Made, Entered
<1>3. CASE EntryOf(o) # NoEntry
  <2>1. /\ Goto(o, "queued") /\ UNCHANGED result
        /\ entries' = [entries EXCEPT ![a].active = entries[a].active + 1]
        /\ global' = Append(global, o)
    BY <1>1, <1>3 DEF Count, AQTypeOK
  <2>2. /\ pc' \in [Orders -> CallPlaces] /\ pc'[o] = "queued"
        /\ \A p \in Orders : p # o => pc'[p] = pc[p]
        /\ Past' = Past /\ made' <= Cardinality(Past')
        /\ \A p \in Orders : pc'[p] # "called" <=> queueOf'[p] # 0
    BY <1>1, <2>1, MovesOn DEF CallPlaces
  <2>3. entries[a].active \in Int /\ entries[a].queue # 0
    BY <1>1, <1>3, Accounted DEF Made, EntryOf
  <2>4. /\ entries' \in [Accounts -> [queue : Queues \cup {0}, active : Int]]
        /\ entries'[a].queue = entries[a].queue /\ entries'[a].active = entries[a].active + 1
        /\ entries'[a] # NoEntry
        /\ \A b \in Accounts : b # a => entries'[b] = entries[b]
    <3>1. entries[a].active + 1 \in Int
      BY <2>3
    <3>2. QED
      BY <1>1, <2>1, <2>3, <3>1, EntryKept
  <2>5. At("queued")' = At("queued") \cup {o} /\ At("admitted")' = At("admitted")
        /\ o \notin At("queued")
    BY <1>1, <2>2 DEF At
  <2>6. /\ global' \in Seq(Orders) /\ Elems(global)' = Elems(global) \cup {o}
        /\ Once(global)'
    <3>1. o \notin Elems(global) /\ global \in Seq(Orders) /\ Once(global)
      BY <1>1, <2>5 DEF Lined, AQTypeOK
    <3>2. /\ Append(global, o) \in Seq(Orders) /\ Once(Append(global, o))
          /\ Elems(Append(global, o)) = Elems(global) \cup {o}
      BY <3>1, LastJoins
    <3>3. Elems(global)' = Elems(global') /\ (Once(global)' <=> Once(global'))
      BY DEF Elems, Once
    <3>4. QED
      BY <2>1, <3>2, <3>3
  <2>7. AQTypeOK'
    BY <1>1, <2>1, <2>2, <2>4, <2>6 DEF AQTypeOK
  <2>8. Lined'
    <3>1. Elems(global)' \subseteq At("queued")'
      BY <1>1, <2>5, <2>6 DEF Lined
    <3>2. QED
      BY <1>1, <2>5, <2>6, <3>1 DEF Lined, Elems, Once
  <2>9. Made'
    BY <1>1, <2>2, <2>3, <2>4 DEF Made
  <2>10. Entered'
    <3>1. /\ Counted(a)' = Counted(a) \cup {o} /\ o \notin Counted(a)
          /\ Counted(a) \subseteq Orders
      BY <1>1, <2>2 DEF Counted
    <3>2. \A b \in Accounts : b # a => Counted(b)' = Counted(b)
      BY <2>2 DEF Counted
    <3>3. Cardinality(Counted(a)') = Cardinality(Counted(a)) + 1
      BY <3>1, OneIn
    <3>4. cleanups = 0 => \A b \in Accounts :
            entries'[b] # NoEntry => entries'[b].active = Cardinality(Counted(b)')
      BY <1>1, <1>3, <2>4, <3>2, <3>3 DEF Entered, EntryOf
    <3>5. cleanups = 0 => \A p \in Past :
            EntryOf(p)' # NoEntry /\ queueOf'[p] = EntryOf(p)'.queue
      <4>1. \A p \in Past : AccountOf[p] \in Accounts
        BY <1>1, Accounted DEF Past
      <4>2. QED
        BY <1>1, <2>4, <4>1 DEF Entered, EntryOf
    <3>6. QED
      BY <1>1, <2>2, <3>4, <3>5 DEF Entered
  <2>11. QED
    BY <2>7, <2>8, <2>9, <2>10 DEF QueuesInv
<1>4. QED
  BY <1>2, <1>3

\* a step that moves a counted order on, and its place in a queue with it
LEMMA GoesOn ==
  ASSUME QueuesInv, NEW o \in Orders, pc[o] \in Between, NEW place \in Between, Goto(o, place),
         UNCHANGED <<entries, made, queueOf, idle, cleanups>>
  PROVE  /\ pc' \in [Orders -> CallPlaces] /\ pc'[o] = place
         /\ \A p \in Orders : p # o => pc'[p] = pc[p]
         /\ Made' /\ Entered'
<1>1. AQTypeOK /\ Made /\ Entered /\ pc \in [Orders -> CallPlaces]
      /\ place \in CallPlaces \ {"called"} /\ pc[o] # "called"
  BY DEF QueuesInv, AQTypeOK, Between, CallPlaces
<1>2. /\ pc' \in [Orders -> CallPlaces] /\ pc'[o] = place
      /\ \A p \in Orders : p # o => pc'[p] = pc[p]
      /\ Past' = Past /\ made' <= Cardinality(Past')
      /\ \A p \in Orders : pc'[p] # "called" <=> queueOf'[p] # 0
  BY <1>1, MovesOn
<1>3. \A a \in Accounts : Counted(a)' = Counted(a)
  BY <1>1, StaysCounted
<1>4. Made'
  BY <1>1, <1>2 DEF Made
<1>5. Entered'
  BY <1>1, <1>2, <1>3 DEF Entered, EntryOf
<1>6. QED
  BY <1>2, <1>4, <1>5

\* the global queue passes its first order to the account's queue
LEMMA StartGlobalKeeps ==
  ASSUME QueuesInv, StartGlobal
  PROVE  QueuesInv'
<1> DEFINE o == Head(global)
           q == queueOf[o]
<1>1. /\ AQTypeOK /\ Lined /\ global # <<>> /\ Goto(o, "admitted")
      /\ waiting' = [waiting EXCEPT ![q] = Append(waiting[q], o)]
      /\ global' = Tail(global)
      /\ UNCHANGED <<entries, made, queueOf, running, result, idle, cleanups>>
  <2>1. waiting' = [waiting EXCEPT ![q] = Append(@, o)]
    BY DEF StartGlobal
  <2>2. QED
    BY <2>1 DEF StartGlobal, QueuesInv, AQTypeOK
<1>2. /\ global \in Seq(Orders) /\ Once(global) /\ waiting \in [Queues -> Seq(Orders)]
      /\ queueOf \in [Orders -> Queues \cup {0}]
  BY <1>1 DEF AQTypeOK, Lined
<1>3. /\ o \in Elems(global) /\ o \in Orders /\ Tail(global) \in Seq(Orders)
      /\ Elems(Tail(global)) \subseteq Elems(global) \ {o} /\ Once(Tail(global))
  BY <1>1, <1>2, HeadLeaves
<1>4. pc[o] = "queued"
  BY <1>1, <1>3 DEF Lined, At
<1>5. q \in Queues
  BY <1>2, <1>3, <1>4 DEF QueuesInv, Made
<1>6. /\ pc' \in [Orders -> CallPlaces] /\ pc'[o] = "admitted"
      /\ \A p \in Orders : p # o => pc'[p] = pc[p]
      /\ Made' /\ Entered'
  BY <1>1, <1>3, <1>4, GoesOn DEF Between
<1>7. waiting[q] \in Seq(Orders) /\ Once(waiting[q]) /\ o \notin Elems(waiting[q])
  BY <1>1, <1>2, <1>4, <1>5 DEF Lined, At
<1>8. /\ Append(waiting[q], o) \in Seq(Orders) /\ Once(Append(waiting[q], o))
      /\ Elems(Append(waiting[q], o)) = Elems(waiting[q]) \cup {o}
  BY <1>3, <1>7, LastJoins
<1>9. /\ waiting' \in [Queues -> Seq(Orders)] /\ waiting'[q] = Append(waiting[q], o)
      /\ \A r \in Queues : r # q => waiting'[r] = waiting[r]
  BY <1>1, <1>2, <1>5, <1>8
<1>10. AQTypeOK'
  BY <1>1, <1>3, <1>6, <1>9 DEF AQTypeOK
<1> HIDE DEF o
<1>11. Lined'
  <2>1. Elems(Tail(global)) \subseteq At("queued")' /\ Once(Tail(global))
    BY <1>1, <1>3, <1>6 DEF Lined, At
  <2>2. \A p \in Orders : p \in At("admitted") => p \in At("admitted")'
    BY <1>4, <1>6 DEF At
  <2>3. ASSUME NEW r \in Queues
        PROVE  /\ Elems(waiting'[r]) \subseteq {p \in At("admitted")' : queueOf'[p] = r}
               /\ Once(waiting'[r])
    <3>1. /\ Elems(waiting[r]) \subseteq {p \in At("admitted") : queueOf[p] = r}
          /\ Once(waiting[r])
      BY <1>1 DEF Lined
    <3>2. Elems(waiting[r]) \subseteq {p \in At("admitted")' : queueOf'[p] = r}
      BY <1>1, <2>2, <3>1 DEF At
    <3>3. CASE r # q
      BY <1>9, <3>1, <3>2, <3>3
    <3>4. CASE r = q
      <4>1. o \in At("admitted")' /\ queueOf'[o] = q
        BY <1>1, <1>3, <1>6 DEF At
      <4> HIDE DEF q
      <4>2. QED
        BY <1>8, <1>9, <3>2, <3>4, <4>1
    <3>5. QED
      BY <3>3, <3>4
  <2>4. /\ Elems(global)' = Elems(Tail(global)) /\ (Once(global)' <=> Once(Tail(global)))
        /\ \A r \in Queues : /\ Elems(waiting[r])' = Elems(waiting'[r])
                                  /\ Once(waiting[r])' <=> Once(waiting'[r])
    BY <1>1 DEF Elems, Once
  <2>5. QED
    BY <2>1, <2>3, <2>4 DEF Lined
<1>12. QED
  BY <1>6, <1>10, <1>11 DEF QueuesInv

\* the account's queue starts its first task
LEMMA StartTaskKeeps ==
  ASSUME QueuesInv, NEW q \in Queues, StartTask(q)
  PROVE  QueuesInv'
<1> DEFINE o == Head(waiting[q])
<1>1. /\ AQTypeOK /\ Lined /\ waiting[q] # <<>> /\ Goto(o, "running")
      /\ running' = running \cup {o}
      /\ waiting' = [waiting EXCEPT ![q] = Tail(waiting[q])]
      /\ UNCHANGED <<entries, made, queueOf, global, result, idle, cleanups>>
  BY DEF StartTask, QueuesInv, AQTypeOK
<1>2. waiting[q] \in Seq(Orders) /\ Once(waiting[q]) /\ waiting \in [Queues -> Seq(Orders)]
  BY <1>1 DEF AQTypeOK, Lined
<1>3. /\ o \in Elems(waiting[q]) /\ o \in Orders /\ Tail(waiting[q]) \in Seq(Orders)
      /\ Elems(Tail(waiting[q])) \subseteq Elems(waiting[q]) \ {o} /\ Once(Tail(waiting[q]))
  BY <1>1, <1>2, HeadLeaves
<1>4. pc[o] = "admitted" /\ queueOf[o] = q
  BY <1>1, <1>3 DEF Lined, At
<1>5. /\ pc' \in [Orders -> CallPlaces] /\ pc'[o] = "running"
      /\ \A p \in Orders : p # o => pc'[p] = pc[p]
      /\ Made' /\ Entered'
  BY <1>1, <1>3, <1>4, GoesOn DEF Between
<1>6. /\ waiting' \in [Queues -> Seq(Orders)] /\ waiting'[q] = Tail(waiting[q])
      /\ \A r \in Queues : r # q => waiting'[r] = waiting[r]
  BY <1>1, <1>2, <1>3
<1>7. AQTypeOK'
  BY <1>1, <1>3, <1>5, <1>6 DEF AQTypeOK
<1> HIDE DEF o
<1>8. Lined'
  <2>1. Elems(global) \subseteq At("queued")'
    BY <1>1, <1>3, <1>4, <1>5 DEF Lined, At
  <2>2. \A p \in Orders : p \in At("admitted") /\ p # o => p \in At("admitted")'
    BY <1>5 DEF At
  <2>3. ASSUME NEW r \in Queues
        PROVE  /\ Elems(waiting'[r]) \subseteq {p \in At("admitted")' : queueOf'[p] = r}
               /\ Once(waiting'[r])
    <3>1. /\ Elems(waiting[r]) \subseteq {p \in At("admitted") : queueOf[p] = r}
          /\ Once(waiting[r])
      BY <1>1 DEF Lined
    <3>2. o \notin Elems(waiting[r]) =>
            Elems(waiting[r]) \subseteq {p \in At("admitted")' : queueOf'[p] = r}
      BY <1>1, <2>2, <3>1 DEF At
    <3>3. CASE r # q
      <4>1. o \notin Elems(waiting[r])
        BY <1>4, <3>1, <3>3
      <4>2. QED
        BY <1>6, <3>1, <3>2, <3>3, <4>1
    <3>4. CASE r = q
      <4>1. \A p \in Elems(waiting'[q]) : p \in At("admitted")' /\ queueOf'[p] = q
        BY <1>1, <1>3, <1>6, <2>2, <3>1, <3>4 DEF At
      <4>2. QED
        BY <1>3, <1>6, <3>4, <4>1
    <3>5. QED
      BY <3>3, <3>4
  <2>4. /\ Elems(global)' = Elems(global) /\ (Once(global)' <=> Once(global))
        /\ \A r \in Queues : /\ Elems(waiting[r])' = Elems(waiting'[r])
                                  /\ Once(waiting[r])' <=> Once(waiting'[r])
    BY <1>1 DEF Elems, Once
  <2>5. Once(global)
    BY <1>1 DEF Lined
  <2>6. QED
    BY <2>1, <2>3, <2>4, <2>5 DEF Lined
<1>9. QED
  BY <1>5, <1>7, <1>8 DEF QueuesInv

\* a task leaves its slot
LEMMA TaskStops ==
  ASSUME QueuesInv, NEW o \in Orders, pc[o] = "running", Goto(o, "leaving"),
         running' \subseteq running,
         result' \in [Orders -> {"none", "settled", "undefined", "rejected"}],
         UNCHANGED <<entries, made, queueOf, global, waiting, idle, cleanups>>
  PROVE  QueuesInv'
<1>1. AQTypeOK /\ Lined
  BY DEF QueuesInv
<1>2. /\ pc' \in [Orders -> CallPlaces] /\ \A p \in Orders : p # o => pc'[p] = pc[p]
      /\ pc'[o] = "leaving" /\ Made' /\ Entered'
  BY GoesOn DEF Between
<1>3. AQTypeOK'
  BY <1>1, <1>2 DEF AQTypeOK
<1>4. At("queued")' = At("queued") /\ At("admitted")' = At("admitted")
  BY <1>2 DEF At
<1>5. Lined'
  BY <1>1, <1>4 DEF Lined, Elems, Once
<1>6. QED
  BY <1>2, <1>3, <1>5 DEF QueuesInv

\* a task settles, in its slot or after its timeout
LEMMA TaskEndsKeeps ==
  ASSUME QueuesInv, NEW o \in Orders, TaskEnds(o)
  PROVE  QueuesInv'
<1>1. AQTypeOK /\ Lined /\ Made /\ Entered
  BY DEF QueuesInv
<1>2. CASE pc[o] = "running"
  <2>1. result' \in [Orders -> {"none", "settled", "undefined", "rejected"}]
    BY <1>1, <1>2 DEF TaskEnds, AQTypeOK
  <2>2. QED
    BY <1>2, <2>1, TaskStops DEF TaskEnds
<1>3. CASE pc[o] # "running"
  <2>1. /\ UNCHANGED <<pc, result, entries, made, queueOf, global, waiting, idle, cleanups>>
        /\ running' = running \ {o}
    BY <1>3 DEF TaskEnds
  <2>2. AQTypeOK'
    BY <1>1, <2>1 DEF AQTypeOK
  <2>3. QED
    BY <1>1, <2>1, <2>2 DEF QueuesInv, Lined, Elems, Once, At, Made, Past, Entered,
       EntryOf, Counted
<1>4. QED
  BY <1>2, <1>3

\* the finally block of executeInQueue()
LEMMA LeaveKeeps ==
  ASSUME QueuesInv, NEW o \in Orders, Leave(o)
  PROVE  QueuesInv'
<1> DEFINE a == AccountOf[o]
<1>1. /\ AQTypeOK /\ Lined /\ Made /\ Entered /\ pc[o] = "leaving" /\ Goto(o, "done")
      /\ UNCHANGED <<made, queueOf, running, global, waiting, idle, cleanups>>
      /\ a \in Accounts
  BY Accounted DEF QueuesInv, Leave
<1>2. /\ pc' \in [Orders -> CallPlaces] /\ pc'[o] = "done"
      /\ \A p \in Orders : p # o => pc'[p] = pc[p]
      /\ Past' = Past /\ made' <= Cardinality(Past')
      /\ \A p \in Orders : pc'[p] # "called" <=> queueOf'[p] # 0
  BY <1>1, MovesOn DEF CallPlaces
<1>3. At("queued")' = At("queued") /\ At("admitted")' = At("admitted")
  BY <1>1, <1>2 DEF At
<1>4. Lined'
  BY <1>1, <1>3 DEF Lined, Elems, Once
<1>5. CASE EntryOf(o) = NoEntry
  <2>1. UNCHANGED entries /\ result' = [result EXCEPT ![o] = "rejected"]
    BY <1>5 DEF Leave
  <2>2. AQTypeOK'
    BY <1>1, <1>2, <2>1 DEF AQTypeOK
  <2>3. cleanups # 0
    BY <1>1, <1>5 DEF Entered, Past
  <2>4. QED
    BY <1>1, <1>2, <1>4, <2>1, <2>2, <2>3 DEF QueuesInv, Made, Entered
<1>6. CASE EntryOf(o) # NoEntry
  <2>1. UNCHANGED result /\ entries' = [entries EXCEPT ![a].active = entries[a].active - 1]
    BY <1>1, <1>6 DEF Leave, AQTypeOK
  <2>2. entries[a].active \in Int /\ entries[a].queue # 0
    BY <1>1, <1>6, Accounted DEF Made, EntryOf
  <2>3. entries[a].active - 1 \in Int
    BY <2>2
  <2>4. /\ entries' \in [Accounts -> [queue : Queues \cup {0}, active : Int]]
        /\ entries'[a].queue = entries[a].queue /\ entries'[a].active = entries[a].active - 1
        /\ entries'[a] # NoEntry
        /\ \A b \in Accounts : b # a => entries'[b] = entries[b]
    BY <1>1, <2>1, <2>2, <2>3, EntryKept
  <2>5. AQTypeOK'
    BY <1>1, <1>2, <2>1, <2>4 DEF AQTypeOK
  <2>6. Made'
    BY <1>1, <1>2, <2>2, <2>4 DEF Made
  <2>7. Entered'
    <3>1. /\ Counted(a)' = Counted(a) \ {o} /\ o \in Counted(a)
          /\ Counted(a) \subseteq Orders
      BY <1>1, <1>2 DEF Counted
    <3>2. \A b \in Accounts : b # a => Counted(b)' = Counted(b)
      BY <1>2 DEF Counted
    <3>3. Cardinality(Counted(a)') = Cardinality(Counted(a)) - 1
      BY <3>1, OneOut
    <3>4. cleanups = 0 => \A b \in Accounts :
            entries'[b] # NoEntry => entries'[b].active = Cardinality(Counted(b)')
      BY <1>1, <1>6, <2>4, <3>2, <3>3 DEF Entered, EntryOf
    <3>5. cleanups = 0 => \A p \in Past :
            EntryOf(p)' # NoEntry /\ queueOf'[p] = EntryOf(p)'.queue
      <4>1. \A p \in Past : AccountOf[p] \in Accounts
        BY <1>1, Accounted DEF Past
      <4>2. QED
        BY <1>1, <2>4, <4>1 DEF Entered, EntryOf
    <3>6. QED
      BY <1>1, <1>2, <3>4, <3>5 DEF Entered
  <2>8. QED
    BY <1>4, <2>5, <2>6, <2>7 DEF QueuesInv
<1>7. QED
  BY <1>5, <1>6

\* cleanupIdleAccounts(), after which the invariant says nothing of the counts
LEMMA CleanupKeeps ==
  ASSUME QueuesInv, CollectIdle \/ \E a \in Accounts : DeleteIdle(a)
  PROVE  QueuesInv'
<1>1. AQTypeOK /\ Lined /\ Made /\ Entered /\ cleanups \in Nat
  BY AccountQueuesAssumption DEF QueuesInv, AQTypeOK
<1>2. UNCHANGED <<made, pc, queueOf, running, global, waiting, result>>
  BY DEF CollectIdle, DeleteIdle
<1>3. cleanups' # 0 /\ cleanups' \in 0..MaxCleanups /\ idle' \subseteq Accounts
      /\ entries' \in [Accounts -> [queue : Queues \cup {0}, active : Int]]
      /\ \A a \in Accounts : entries'[a] = entries[a] \/ entries'[a] = NoEntry
  <2>1. CASE CollectIdle
    <3>1. cleanups' = cleanups + 1 /\ cleanups < MaxCleanups /\ entries' = entries
          /\ idle' \in SUBSET {a \in Accounts : /\ entries[a] # NoEntry
                                              /\ entries[a].active = 0
                                              /\ waiting[entries[a].queue] = <<>>}
      BY <2>1 DEF CollectIdle
    <3>2. cleanups' # 0 /\ cleanups' \in 0..MaxCleanups
      BY <1>1, <3>1, AccountQueuesAssumption
    <3>3. QED
      BY <1>1, <3>1, <3>2 DEF AQTypeOK
  <2>2. CASE \E a \in Accounts : DeleteIdle(a)
    <3>0. PICK a \in Accounts : DeleteIdle(a)
      BY <2>2
    <3>1. /\ cleanups' = cleanups /\ idle' = idle \ {a} /\ a \in idle
          /\ entries' = [entries EXCEPT ![a] = NoEntry]
      BY <3>0 DEF DeleteIdle
    <3>2. cleanups # 0
      BY <1>1, <3>1 DEF Entered
    <3>3. NoEntry \in [queue : Queues \cup {0}, active : Int]
      BY DEF NoEntry
    <3>4. /\ entries' \in [Accounts -> [queue : Queues \cup {0}, active : Int]]
          /\ \A b \in Accounts : entries'[b] = entries[b] \/ entries'[b] = NoEntry
      BY <1>1, <3>1, <3>3 DEF AQTypeOK
    <3>5. QED
      BY <1>1, <3>1, <3>2, <3>4 DEF AQTypeOK
  <2>3. QED
    BY <2>1, <2>2
<1>4. AQTypeOK'
  BY <1>1, <1>2, <1>3 DEF AQTypeOK
<1>5. Made'
  BY <1>1, <1>2, <1>3 DEF Made, Past
<1>6. Lined'
  BY <1>1, <1>2 DEF Lined, Elems, Once, At
<1>7. QED
  BY <1>3, <1>4, <1>5, <1>6 DEF QueuesInv, Entered

\* every step keeps the invariant
LEMMA QueuesInductive ==
  ASSUME QueuesInv, [AQNext]_aqvars
  PROVE  QueuesInv'
<1>1. ASSUME NEW o \in Orders, QueueTimeout(o) PROVE QueuesInv'
  <2>1. result' \in [Orders -> {"none", "settled", "undefined", "rejected"}]
    BY <1>1 DEF QueueTimeout, QueuesInv, AQTypeOK
  <2>2. QED
    BY <1>1, <2>1, TaskStops DEF QueueTimeout
<1>2. CASE UNCHANGED aqvars
  BY <1>2 DEF aqvars, QueuesInv, AQTypeOK, Lined, Elems, Once, At, Made, Past,
     Entered, EntryOf, Counted
<1>3. QED
  BY <1>1, <1>2, GetQueueKeeps, CountKeeps, TaskEndsKeeps, LeaveKeeps, StartGlobalKeeps,
     StartTaskKeeps, CleanupKeeps DEF AQNext

\* and the initial state satisfies it
LEMMA QueuesInitial ==
  ASSUME AQInit
  PROVE  QueuesInv
<1>1. \A a \in Accounts : Counted(a) = {}
  BY DEF AQInit, Counted
<1>2. AQTypeOK
  BY AccountQueuesAssumption DEF AQInit, AQTypeOK, CallPlaces, NoEntry
<1>3. Lined
  BY DEF AQInit, Lined, Elems, Once
<1>4. Past = {} /\ Cardinality(Past) = 0
  BY FS_EmptySet DEF AQInit, Past
<1>5. Made
  BY <1>4 DEF AQInit, Made, NoEntry
<1>6. Entered
  BY <1>4 DEF AQInit, Entered
<1>7. QED
  BY <1>2, <1>3, <1>5, <1>6 DEF QueuesInv

\* so that it always holds
LEMMA QueuesInvariance == AQSpec => []QueuesInv
<1>1. AQInit => QueuesInv
  BY QueuesInitial
<1>2. QueuesInv /\ [AQNext]_aqvars => QueuesInv'
  BY QueuesInductive
<1>3. QED
  BY <1>1, <1>2, PTL DEF AQSpec

(* As long as no cleanup has run, activeCount is the number of the          *)
(* account's orders between the two updates of executeInQueue().            *)
THEOREM CountsAreRight == AQSpec => []CountsAgree
<1>1. QueuesInv => CountsAgree
  BY DEF QueuesInv, Entered, CountsAgree
<1>2. AQSpec => []QueuesInv
  BY QueuesInvariance
<1>3. QED
  BY <1>1, <1>2, PTL

(* As long as no cleanup has run, getAccountQueue() gives all orders of an  *)
(* account the same queue.                                                  *)
THEOREM OneQueue == AQSpec => []OneQueuePerAccount
<1>1. QueuesInv => OneQueuePerAccount
  BY DEF QueuesInv, Entered, Made, Past, EntryOf, OneQueuePerAccount
<1>2. AQSpec => []QueuesInv
  BY QueuesInvariance
<1>3. QED
  BY <1>1, <1>2, PTL

\* the orders in the slots of a queue, never too many
Slots(q) == {o \in At("running") : queueOf[o] = q}
SlotsKept == \A q \in Queues : Cardinality(Slots(q)) <= PerAccount

\* a queue gives no slot away that it does not have, and no other step gives any
LEMMA SlotsStep ==
  ASSUME QueuesInv, SlotsKept, [AQNext]_aqvars
  PROVE  SlotsKept'
<1>1. /\ pc \in [Orders -> CallPlaces] /\ queueOf \in [Orders -> Queues \cup {0}]
      /\ Queues' = Queues /\ PerAccount \in Nat
      /\ \A q \in Queues : Cardinality(Slots(q)) <= PerAccount /\ Slots(q) \in SUBSET Orders
  BY AccountQueuesAssumption DEF QueuesInv, AQTypeOK, SlotsKept, Slots, At, Queues
<1>2. ASSUME \A q \in Queues : Slots(q)' \subseteq Slots(q) PROVE SlotsKept'
  <2>1. ASSUME NEW q \in Queues PROVE Cardinality(Slots(q)') <= PerAccount
    <3>1. Slots(q)' \subseteq Slots(q) /\ IsFiniteSet(Slots(q))
      BY <1>1, <1>2, Finite
    <3>2. /\ Cardinality(Slots(q)') <= Cardinality(Slots(q))
          /\ Cardinality(Slots(q)') \in Nat /\ Cardinality(Slots(q)) \in Nat
      BY <1>1, <3>1, Finite, FS_Subset
    <3>3. QED
      BY <1>1, <3>2
  <2>2. QED
    BY <1>1, <2>1 DEF SlotsKept
<1>3. ASSUME NEW q \in Queues, StartTask(q) PROVE SlotsKept'
  <2> DEFINE o == Head(waiting[q])
  <2>1. /\ Goto(o, "running") /\ queueOf' = queueOf /\ waiting[q] # <<>>
        /\ Cardinality(Slots(q)) < PerAccount
    BY <1>3 DEF StartTask, Slots
  <2>2. waiting[q] \in Seq(Orders) /\ Once(waiting[q])
    BY DEF QueuesInv, AQTypeOK, Lined
  <2>3. o \in Elems(waiting[q]) /\ o \in Orders
    BY <2>1, <2>2, HeadLeaves
  <2>4. pc[o] = "admitted" /\ queueOf[o] = q
    BY <2>3 DEF QueuesInv, Lined, At
  <2> HIDE DEF o
  <2>5. pc'[o] = "running" /\ \A p \in Orders : p # o => pc'[p] = pc[p]
    BY <1>1, <2>1, <2>3, Moved DEF CallPlaces
  <2>6. /\ Slots(q)' = Slots(q) \cup {o} /\ o \in Orders \ Slots(q)
        /\ \A r \in Queues : r # q => Slots(r)' = Slots(r)
    BY <2>1, <2>3, <2>4, <2>5 DEF Slots, At
  <2>7. /\ Cardinality(Slots(q)') = Cardinality(Slots(q)) + 1 /\ Cardinality(Slots(q)) \in Nat
    BY <1>1, <2>6, OneIn, Finite
  <2>8. ASSUME NEW r \in Queues PROVE Cardinality(Slots(r)') <= PerAccount
    <3>1. CASE r # q
      BY <1>1, <2>6, <3>1
    <3>2. CASE r = q
      <4>1. Cardinality(Slots(q)') <= PerAccount
        BY <1>1, <2>1, <2>7
      <4>2. QED
        BY <3>2, <4>1
    <3>3. QED
      BY <3>1, <3>2
  <2>9. QED
    BY <1>1, <2>8 DEF SlotsKept
<1>4. ASSUME \A o \in Orders : pc'[o] = "running" => pc[o] = "running" /\ queueOf'[o] = queueOf[o]
      PROVE  SlotsKept'
  <2>1. \A q \in Queues : Slots(q)' \subseteq Slots(q)
    BY <1>4 DEF Slots, At
  <2>2. QED
    BY <1>2, <2>1
<1>5. ASSUME NEW o \in Orders, NEW place \in CallPlaces \ {"running"}, Goto(o, place),
             \A p \in Orders : p # o => queueOf'[p] = queueOf[p]
      PROVE  SlotsKept'
  <2>1. pc'[o] # "running" /\ \A p \in Orders : p # o => pc'[p] = pc[p]
    BY <1>1, <1>5, Moved
  <2>2. QED
    BY <1>4, <1>5, <2>1
<1>6. ASSUME NEW o \in Orders, GetQueue(o) PROVE SlotsKept'
  <2>1. Goto(o, "given") /\ \A p \in Orders : p # o => queueOf'[p] = queueOf[p]
    BY <1>1, <1>6 DEF GetQueue
  <2>2. QED
    BY <1>5, <2>1 DEF CallPlaces
<1>7. ASSUME NEW o \in Orders, Count(o) \/ Leave(o) \/ QueueTimeout(o) PROVE SlotsKept'
  <2>1. queueOf' = queueOf /\ (Goto(o, "done") \/ Goto(o, "queued") \/ Goto(o, "leaving"))
    BY <1>7 DEF Count, Leave, QueueTimeout
  <2>2. QED
    BY <1>5, <2>1 DEF CallPlaces
<1>8. ASSUME NEW o \in Orders, TaskEnds(o) PROVE SlotsKept'
  <2>1. queueOf' = queueOf /\ (Goto(o, "leaving") \/ pc' = pc)
    BY <1>8 DEF TaskEnds
  <2>2. QED
    BY <1>4, <1>5, <2>1 DEF CallPlaces
<1>9. CASE StartGlobal
  <2>1. queueOf' = queueOf /\ Goto(Head(global), "admitted") /\ global # <<>>
    BY <1>9 DEF StartGlobal
  <2>2. Head(global) \in Orders
    BY <2>1, HeadLeaves DEF QueuesInv, AQTypeOK, Lined
  <2>3. QED
    BY <1>5, <2>1, <2>2 DEF CallPlaces
<1>10. CASE CollectIdle \/ (\E a \in Accounts : DeleteIdle(a)) \/ UNCHANGED aqvars
  <2>1. queueOf' = queueOf /\ pc' = pc
    BY <1>10 DEF CollectIdle, DeleteIdle, aqvars
  <2>2. QED
    BY <1>4, <2>1
<1>11. QED
  BY <1>3, <1>6, <1>7, <1>8, <1>9, <1>10 DEF AQNext

(* As long as no cleanup has run, an account has at most                    *)
(* maxConcurrentPerAccount orders in slots: they all are in slots of its    *)
(* one queue.                                                               *)
THEOREM LimitHolds == AQSpec => []AccountLimited
<1>1. AQInit => SlotsKept
  <2>1. SUFFICES ASSUME AQInit PROVE SlotsKept
    OBVIOUS
  <2>2. \A q \in Queues : Slots(q) = {}
    BY <2>1 DEF AQInit, Slots, At
  <2>3. QED
    BY <2>2, FS_EmptySet, AccountQueuesAssumption DEF SlotsKept
<1>2. QueuesInv /\ SlotsKept /\ [AQNext]_aqvars => SlotsKept'
  BY SlotsStep
<1>3. QueuesInv /\ SlotsKept => AccountLimited
  <2>1. SUFFICES ASSUME QueuesInv, SlotsKept, cleanups = 0, NEW a \in Accounts
                 PROVE  Cardinality({o \in At("running") : AccountOf[o] = a}) <= PerAccount
    BY DEF AccountLimited
  <2> DEFINE S == {o \in At("running") : AccountOf[o] = a}
             q == entries[a].queue
  <2>2. CASE S = {}
    BY <2>2, FS_EmptySet, AccountQueuesAssumption
  <2>3. CASE S # {}
    <3>1. PICK p \in S : TRUE
      BY <2>3
    <3>2. \A o \in S : o \in Past /\ queueOf[o] = q /\ queueOf[o] \in Queues
      BY <2>1 DEF QueuesInv, AQTypeOK, Entered, Made, EntryOf, Past, At
    <3>3. q \in Queues /\ S \subseteq Slots(q)
      BY <3>1, <3>2 DEF Slots
    <3>4. Slots(q) \in SUBSET Orders
      BY DEF Slots, At
    <3>5. Cardinality(S) <= Cardinality(Slots(q)) /\ Cardinality(Slots(q)) <= PerAccount
      BY <2>1, <3>3, <3>4, Finite, FS_Subset DEF SlotsKept
    <3>6. S \in SUBSET Orders
      BY DEF At
    <3>7. Cardinality(S) \in Nat /\ Cardinality(Slots(q)) \in Nat /\ PerAccount \in Nat
      BY <3>4, <3>6, Finite, AccountQueuesAssumption
    <3>8. QED
      BY <3>5, <3>7
  <2>4. QED
    BY <2>2, <2>3
<1>4. QED
  BY <1>1, <1>2, <1>3, QueuesInvariance, PTL DEF AQSpec

(* The state of the queues has its type, whatever is cleaned up.            *)
THEOREM QueuesTyped == AQSpec => []AQTypeOK
<1>1. QueuesInv => AQTypeOK
  BY DEF QueuesInv
<1>2. QED
  BY <1>1, QueuesInvariance, PTL
=============================================================================
