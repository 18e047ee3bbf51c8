------------------------------- MODULE SafeMap -------------------------------
(***************************************************************************)
(* class SafeMap of src/utils/SafeCollection.js: a Map whose asynchronous  *)
(* operations on a key take the lock of the key's segment, while clear(),  *)
(* batch() and safeForEach() take one global lock and the ...Sync methods  *)
(* take none.                                                              *)
(*                                                                         *)
(* A task runs one operation at a time.  Code between two awaits is one    *)
(* action: the entry up to lock.acquire(), a resumption in acquire(), the  *)
(* part inside the lock up to the await of the caller's function, and the  *)
(* rest with the release.  Values are abstract; what the caller's function *)
(* returns is any value.                                                   *)
(***************************************************************************)
EXTENDS AsyncLockState, Naturals, FiniteSets

CONSTANTS Keys, Values,
          Absent,       \* Map.get() of a missing key: undefined
          Expired,      \* the values isExpiredFn accepts
          Segments, SegmentOf,   \* SegmentedLockManager: key -> lock
          Mixes         \* the sets of operations the tasks of a program use

Global == "global"
Locks == Segments \cup {Global}

\* one operation on a key under the segment lock, by what it does inside
Atomic == {"set", "delete", "deleteIf"}
Compound == {"getOrCreate", "update", "updateIfPresent", "compute"}
\* under the global lock
Whole == {"clear", "batch", "safeForEach"}
\* without a lock
Unlocked == {"setSync", "deleteSync", "clearSync"}
AllKinds == Atomic \cup Compound \cup Whole \cup Unlocked \cup {"cleanupExpired"}

ASSUME SafeMapAssumption ==
    /\ Absent \notin Values
    /\ Expired \subseteq Values
    /\ Global \notin Segments
    /\ SegmentOf \in [Keys -> Segments]
    /\ Mixes \subseteq SUBSET AllKinds
    /\ MaxCalls \in Nat

VARIABLES kinds,    \* the operations in use, the same at all times
          map,      \* _map, a missing key is Absent
          locks,    \* the AsyncLock objects
          stage,    \* where each task is
          op,       \* its operation
          old,      \* the value a compound operation read
          todo,     \* keysToDelete of cleanupExpired() still to delete
          acquired  \* acquisitions so far, per lock and task

smvars == <<kinds, map, locks, stage, op, old, todo, acquired>>

NoOp == [kind |-> "none"]
Operations ==
    [kind : (Atomic \cup Compound \cup {"cleanupExpired"}) \cap kinds, key : Keys]
    \cup [kind : Whole \cap kinds]

\* the lock an operation takes
LockOf(o) == IF o.kind \in Whole THEN Global ELSE SegmentOf[o.key]

SMInit ==
    /\ kinds \in Mixes
    /\ map \in [Keys -> Values \cup {Absent}]
    /\ locks = [l \in Locks |-> FreeLock]
    /\ stage = [t \in Tasks |-> "outside"]
    /\ op = [t \in Tasks |-> NoOp]
    /\ old = [t \in Tasks |-> Absent]
    /\ todo = [t \in Tasks |-> {}]
    /\ acquired = [l \in Locks |-> [t \in Tasks |-> 0]]

-----------------------------------------------------------------------------
MoveTo(t, place) == stage' = [stage EXCEPT ![t] = place]

\* mutant: acquire() does not see that the lock is taken
TryLockBlindly(t, l) ==
    /\ locks' = [locks EXCEPT ![l] = Taken(@)]
    /\ MoveTo(t, "inside")

\* the while condition of acquire() on lock l
TryLock(t, l) ==
    \/ /\ ~locks[l].locked
       /\ locks' = [locks EXCEPT ![l] = Taken(@)]
       /\ MoveTo(t, "inside")
    \/ /\ locks[l].locked
       /\ locks' = [locks EXCEPT ![l] = Queued(@, t)]
       /\ MoveTo(t, "waiting")

\* a first call of acquire() by operation o
Acquire(t, o) ==
    /\ acquired[LockOf(o)][t] < MaxCalls
    /\ acquired' = [acquired EXCEPT ![LockOf(o)][t] = @ + 1]
    /\ op' = [op EXCEPT ![t] = o]
    /\ TryLock(t, LockOf(o))

\* the finally block; `place' is where t goes on
ReleaseTo(t, place) ==
    LET l == LockOf(op[t]) IN
    /\ locks' = [locks EXCEPT ![l] = Released(@)]
    /\ stage' = [u \in Tasks |-> IF u = t THEN place
                                 ELSE IF u \in WokenBy(locks[l]) THEN "woken"
                                 ELSE stage[u]]

Finish(t) == /\ ReleaseTo(t, "outside")
             /\ op' = [op EXCEPT ![t] = NoOp]
             /\ old' = [old EXCEPT ![t] = Absent]

-----------------------------------------------------------------------------
\* the paths that return before any lock: getOrCreate() of a present key and
\* updateIfPresent() of a missing one change nothing and need no action
Begin(t, o) ==
    /\ stage[t] = "outside"
    /\ o.kind # "cleanupExpired"
    /\ o.kind = "getOrCreate" => map[o.key] = Absent
    /\ o.kind = "updateIfPresent" => map[o.key] # Absent
    /\ Acquire(t, o)
    /\ UNCHANGED <<kinds, map, old, todo>>

\* setSync, deleteSync, clearSync
Unguarded(t) ==
    /\ stage[t] = "outside"
    /\ \/ /\ "setSync" \in kinds
          /\ \E k \in Keys, v \in Values : map' = [map EXCEPT ![k] = v]
       \/ /\ "deleteSync" \in kinds
          /\ \E k \in Keys : map' = [map EXCEPT ![k] = Absent]
       \/ /\ "clearSync" \in kinds
          /\ map' = [k \in Keys |-> Absent]
    /\ UNCHANGED <<kinds, locks, stage, op, old, todo, acquired>>

ResumeWaiter(t) ==
    /\ stage[t] = "woken"
    /\ TryLock(t, LockOf(op[t]))
    /\ UNCHANGED <<kinds, map, op, old, todo, acquired>>

\* set, delete, deleteIf: all inside the lock without an await
RunAtomic(t) ==
    /\ stage[t] = "inside" /\ op[t].kind \in Atomic
    /\ LET k == op[t].key IN
          \/ /\ op[t].kind = "set"
             /\ \E v \in Values : map' = [map EXCEPT ![k] = v]
          \/ /\ op[t].kind \in {"delete", "deleteIf"}
             /\ map' = [map EXCEPT ![k] = Absent]
          \/ /\ op[t].kind = "deleteIf"     \* the predicate is false
             /\ UNCHANGED map
    /\ Finish(t)
    /\ UNCHANGED <<kinds, todo, acquired>>

\* the compound operation found nothing to do inside the lock
NothingToDo(t) == \/ op[t].kind = "getOrCreate" /\ map[op[t].key] # Absent
                  \/ op[t].kind = "updateIfPresent" /\ map[op[t].key] = Absent

RunNothing(t) ==
    /\ stage[t] = "inside" /\ op[t].kind \in Compound
    /\ NothingToDo(t)
    /\ Finish(t)
    /\ UNCHANGED <<kinds, map, todo, acquired>>

\* mutant: getOrCreate() does not look again inside the lock
BeginFnAlways(t) ==
    /\ stage[t] = "inside" /\ op[t].kind \in Compound
    /\ old' = [old EXCEPT ![t] = IF op[t].kind = "getOrCreate" THEN Absent
                                 ELSE map[op[t].key]]
    /\ MoveTo(t, "computing")
    /\ UNCHANGED <<kinds, map, locks, op, todo, acquired>>

\* the value is read and the caller's function is called and awaited
BeginFn(t) ==
    /\ stage[t] = "inside" /\ op[t].kind \in Compound
    /\ ~NothingToDo(t)
    /\ old' = [old EXCEPT ![t] = map[op[t].key]]
    /\ MoveTo(t, "computing")
    /\ UNCHANGED <<kinds, map, locks, op, todo, acquired>>

\* it returned a value, which is stored, or threw; compute() deletes on
\* undefined
EndFn(t) ==
    /\ stage[t] = "computing"
    /\ \/ \E v \in Values : map' = [map EXCEPT ![op[t].key] = v]
       \/ op[t].kind = "compute" /\ map' = [map EXCEPT ![op[t].key] = Absent]
       \/ UNCHANGED map
    /\ Finish(t)
    /\ UNCHANGED <<kinds, todo, acquired>>

\* the function given to withLock() on the global lock; it is async, so the
\* release follows an await.  safeForEach() begins its walk
RunWhole(t) ==
    /\ stage[t] = "inside" /\ op[t].kind \in Whole
    /\ \/ op[t].kind = "clear" /\ map' = [k \in Keys |-> Absent]
       \/ /\ op[t].kind = "batch"
          /\ \E K \in SUBSET Keys, v \in Values \cup {Absent} :
                map' = [k \in Keys |-> IF k \in K THEN v ELSE map[k]]
       \/ op[t].kind = "safeForEach" /\ UNCHANGED map
    /\ MoveTo(t, "leaving")
    /\ UNCHANGED <<kinds, locks, op, old, todo, acquired>>

\* safeForEach() awaits its caller's function for each entry, which is given the
\* map itself and may change it
Visit(t) ==
    /\ stage[t] = "leaving" /\ op[t].kind = "safeForEach"
    /\ \E k \in Keys, v \in Values \cup {Absent} : map' = [map EXCEPT ![k] = v]
    /\ UNCHANGED <<kinds, locks, stage, op, old, todo, acquired>>

LeaveWhole(t) ==
    /\ stage[t] = "leaving"
    /\ Finish(t)
    /\ UNCHANGED <<kinds, map, todo, acquired>>

-----------------------------------------------------------------------------
(* cleanupExpired(): the keys are collected without a lock, then deleted    *)
(* one by one with this.delete().                                          *)

CollectExpired(t) ==
    /\ stage[t] = "outside" /\ "cleanupExpired" \in kinds
    /\ todo' = [todo EXCEPT ![t] = {k \in Keys : map[k] \in Expired}]
    /\ todo'[t] # {}
    /\ MoveTo(t, "deleting")
    /\ UNCHANGED <<kinds, map, locks, op, old, acquired>>

DeleteNext(t) ==
    /\ stage[t] = "deleting" /\ todo[t] # {}
    /\ \E k \in todo[t] :
          /\ Acquire(t, [kind |-> "cleanupExpired", key |-> k])
          /\ todo' = [todo EXCEPT ![t] = @ \ {k}]
    /\ UNCHANGED <<kinds, map, old>>

RunDelete(t) ==
    /\ stage[t] = "inside" /\ op[t].kind = "cleanupExpired"
    /\ map' = [map EXCEPT ![op[t].key] = Absent]
    /\ ReleaseTo(t, "deleting")
    /\ UNCHANGED <<kinds, op, old, todo, acquired>>

EndCleanup(t) ==
    /\ stage[t] = "deleting" /\ todo[t] = {}
    /\ MoveTo(t, "outside")
    /\ op' = [op EXCEPT ![t] = NoOp]
    /\ UNCHANGED <<kinds, map, locks, old, todo, acquired>>

-----------------------------------------------------------------------------
\* what a task inside a lock does, and how it ends
InsideStep(t) == \/ RunAtomic(t) \/ RunNothing(t) \/ BeginFn(t) \/ EndFn(t)
                 \/ RunWhole(t) \/ LeaveWhole(t) \/ RunDelete(t)

SMNext == \E t \in Tasks :
             \/ \E o \in Operations : Begin(t, o)
             \/ Unguarded(t) \/ ResumeWaiter(t) \/ InsideStep(t) \/ Visit(t)
             \/ CollectExpired(t) \/ DeleteNext(t) \/ EndCleanup(t)

\* resolved promises are resumed and the callers' functions settle
SMFairness == \A t \in Tasks : WF_smvars(ResumeWaiter(t)) /\ WF_smvars(InsideStep(t))

SMSpec == SMInit /\ [][SMNext]_smvars /\ SMFairness

-----------------------------------------------------------------------------
Stages == {"outside", "waiting", "woken", "inside", "computing", "leaving",
           "deleting"}

SMTypeOK ==
    /\ kinds \in Mixes
    /\ map \in [Keys -> Values \cup {Absent}]
    /\ locks \in [Locks -> [locked : BOOLEAN, waiting : Seq(Tasks)]]
    /\ stage \in [Tasks -> Stages]
    /\ op \in [Tasks -> Operations \cup {NoOp}]
    /\ old \in [Tasks -> Values \cup {Absent}]
    /\ todo \in [Tasks -> SUBSET Keys]
    /\ acquired \in [Locks -> [Tasks -> Nat]]

(* "Supports atomic compound operations": while the caller's function runs, *)
(* the value it was given is the value of the key, so what it returns       *)
(* overwrites nobody's change and getOrCreate() creates once.               *)
CompoundIsAtomic ==
    \A t \in Tasks : stage[t] = "computing" => map[op[t].key] = old[t]

(* So it is as long as nobody uses the operations under the global lock or  *)
(* those without a lock.                                                    *)
LockedIsAtomic == kinds \cap (Whole \cup Unlocked) = {} => CompoundIsAtomic

(* Every operation that waits for a lock gets it, although the holder may   *)
(* await a function of its caller.                                          *)
EveryCallServed ==
    \A t \in Tasks : stage[t] = "waiting" ~> stage[t] \in {"inside", "computing", "leaving"}

(* "Safe cleanup expired items": cleanup deletes expired values only.       *)
CleanupDeletesExpired ==
    [][\A t \in Tasks : RunDelete(t) => map[op[t].key] \in Expired \cup {Absent}]_smvars

\* each lock of the map is an AsyncLock
PlaceAt(l) == [t \in Tasks |->
    IF stage[t] \in {"outside", "deleting"} THEN "outside"
    ELSE IF LockOf(op[t]) # l THEN "outside"
    ELSE IF stage[t] \in {"computing", "leaving"} THEN "inside" ELSE stage[t]]

LockAt(l) == INSTANCE AsyncLock
    WITH lock <- locks[l], at <- PlaceAt(l), calls <- acquired[l]

(* Every lock behaves as AsyncLock, so what is proved of AsyncLock holds of *)
(* the segments and of the global lock: operations on a key exclude each    *)
(* other, and keys of different segments do not wait for one another.       *)
LocksAreAsyncLocks ==
    /\ \A l \in Locks : LockAt(l)!Init
    /\ [][\A l \in Locks : LockAt(l)!Next \/ UNCHANGED LockAt(l)!vars]_smvars
=============================================================================
