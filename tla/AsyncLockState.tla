--------------------------- MODULE AsyncLockState ---------------------------
(***************************************************************************)
(* The two fields of class AsyncLock (src/utils/SafeCollection.js) as a    *)
(* record, and what its synchronous code does to them.  A resolver pushed  *)
(* on _waiting stands for the task that awaits it.                         *)
(***************************************************************************)
EXTENDS Naturals, Sequences

CONSTANTS Tasks,      \* asynchronous tasks that use locks
          MaxCalls    \* bound: how often a task calls acquire() of a lock

\* constructor: _locked = false, _waiting = []
FreeLock == [locked |-> FALSE, waiting |-> <<>>]

\* acquire() found the lock free
Taken(l) == [l EXCEPT !.locked = TRUE]

\* acquire() found the lock taken: the caller's resolver joins _waiting
Queued(l, t) == [l EXCEPT !.waiting = Append(@, t)]

\* release(): the flag falls and one resolver, if any, leaves _waiting
Released(l) ==
    [locked  |-> FALSE,
     waiting |-> IF l.waiting = <<>> THEN <<>> ELSE Tail(l.waiting)]

\* mutant: `if (this._waiting.length > 1)'
WokenByButTheLast(l) == IF Len(l.waiting) < 2 THEN {} ELSE {Head(l.waiting)}

\* the tasks whose resolver release() calls: none or one
WokenBy(l) == IF l.waiting = <<>> THEN {} ELSE {Head(l.waiting)}
=============================================================================
