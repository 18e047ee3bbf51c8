---------------------------- MODULE AccountQueues ----------------------------
(***************************************************************************)
(* class AccountLockManager of src/executor/orderExecutor.js: every order  *)
(* is a task that waits for a slot of one global queue and, holding it,    *)
(* for a slot of its account's queue, which is made on first use and kept  *)
(* in a SafeMap with the number of the account's orders.                   *)
(*                                                                         *)
(* Operations of the SafeMap on one key are atomic (LockedIsAtomic in      *)
(* SafeMap), so each is one action here.  A PQueue is FIFO; its timeout    *)
(* settles the promise of a task and frees the slot, but the task goes on. *)
(***************************************************************************)
EXTENDS Integers, Sequences, FiniteSets

CONSTANTS Orders, Accounts, AccountOf,
          PerAccount,   \* maxConcurrentPerAccount
          GlobalMax,    \* maxConcurrentGlobal
          MaxCleanups   \* bound: calls of cleanupIdleAccounts()

Queues == 1..Cardinality(Orders)

ASSUME AccountQueuesAssumption ==
    /\ IsFiniteSet(Orders)
    /\ AccountOf \in [Orders -> Accounts]
    /\ PerAccount \in Nat \ {0}
    /\ GlobalMax \in Nat \ {0}
    /\ MaxCleanups \in Nat

NoEntry == [queue |-> 0, active |-> 0]

VARIABLES entries,    \* of `locks': per account {queue, activeCount}, or NoEntry
          made,       \* how many account queues have been made
          pc,         \* where executeInQueue() is for each order
          queueOf,    \* the queue it was given
          running,    \* tasks that execute, also after their timeout
          global,     \* orders that wait for a slot of globalQueue
          waiting,    \* orders that wait for a slot, per account queue
          result,     \* how executeInQueue() settled
          idle,       \* keysToDelete of a cleanup under way
          cleanups

aqvars == <<entries, made, pc, queueOf, running, global, waiting, result, idle, cleanups>>

AQInit ==
    /\ entries = [a \in Accounts |-> NoEntry]
    /\ made = 0
    /\ pc = [o \in Orders |-> "called"]
    /\ queueOf = [o \in Orders |-> 0]
    /\ running = {}
    /\ global = <<>>
    /\ waiting = [q \in Queues |-> <<>>]
    /\ result = [o \in Orders |-> "none"]
    /\ idle = {}
    /\ cleanups = 0

At(place) == {o \in Orders : pc[o] = place}
Goto(o, place) == pc' = [pc EXCEPT ![o] = place]
EntryOf(o) == entries[AccountOf[o]]
------------------------------------------------------------------------------
\* mutant: a queue is made without looking for the account's
GetQueueAlwaysNew(o) ==
    /\ pc[o] = "called"
    /\ Goto(o, "given")
    /\ made' = made + 1
    /\ entries' = [entries EXCEPT ![AccountOf[o]] = [queue |-> made + 1, active |-> @.active]]
    /\ queueOf' = [queueOf EXCEPT ![o] = made + 1]
    /\ UNCHANGED <<running, global, waiting, result, idle, cleanups>>

\* getAccountQueue(): locks.getOrCreate()
GetQueue(o) ==
    /\ pc[o] = "called"
    /\ Goto(o, "given")
    /\ IF EntryOf(o) = NoEntry
       THEN /\ made' = made + 1
            /\ entries' = [entries EXCEPT ![AccountOf[o]] = [queue |-> made + 1, active |-> 0]]
            /\ queueOf' = [queueOf EXCEPT ![o] = made + 1]
       ELSE /\ queueOf' = [queueOf EXCEPT ![o] = EntryOf(o).queue]
            /\ UNCHANGED <<made, entries>>
    /\ UNCHANGED <<running, global, waiting, result, idle, cleanups>>

\* locks.update(+1), and globalQueue.add(); without an entry the function given
\* to update() throws, before the try block
Count(o) ==
    /\ pc[o] = "given"
    /\ IF EntryOf(o) = NoEntry
       THEN /\ Goto(o, "done")
            /\ result' = [result EXCEPT ![o] = "rejected"]
            /\ UNCHANGED <<entries, global>>
       ELSE /\ Goto(o, "queued")
            /\ entries' = [entries EXCEPT ![AccountOf[o]].active = @ + 1]
            /\ global' = Append(global, o)
            /\ UNCHANGED result
    /\ UNCHANGED <<made, queueOf, running, waiting, idle, cleanups>>

\* globalQueue has a slot and starts its first function, queue.add(task)
StartGlobal ==
    /\ global # <<>>
    /\ Cardinality(At("admitted") \cup At("running")) < GlobalMax
    /\ LET o == Head(global) IN
       /\ Goto(o, "admitted")
       /\ waiting' = [waiting EXCEPT ![queueOf[o]] = Append(@, o)]
    /\ global' = Tail(global)
    /\ UNCHANGED <<entries, made, queueOf, running, result, idle, cleanups>>

\* the account's queue has a slot and starts its first task
StartTask(q) ==
    /\ waiting[q] # <<>>
    /\ Cardinality({o \in At("running") : queueOf[o] = q}) < PerAccount
    /\ LET o == Head(waiting[q]) IN
       /\ Goto(o, "running")
       /\ running' = running \cup {o}
    /\ waiting' = [waiting EXCEPT ![q] = Tail(@)]
    /\ UNCHANGED <<entries, made, queueOf, global, result, idle, cleanups>>

\* the task settles; both queues free their slots and the finally block begins
TaskEnds(o) ==
    /\ o \in running
    /\ running' = running \ {o}
    /\ IF pc[o] = "running"
       THEN /\ Goto(o, "leaving")
            /\ result' = [result EXCEPT ![o] = "settled"]
       ELSE UNCHANGED <<pc, result>>     \* after its timeout: nobody listens
    /\ UNCHANGED <<entries, made, queueOf, global, waiting, idle, cleanups>>

\* mutant: the queue has no timeout
QueueTimeoutNever(o) == FALSE /\ UNCHANGED aqvars

\* queueTimeout: the promise resolves without a value and the slots are free
QueueTimeout(o) ==
    /\ pc[o] = "running"
    /\ Goto(o, "leaving")
    /\ result' = [result EXCEPT ![o] = "undefined"]
    /\ UNCHANGED <<entries, made, queueOf, running, global, waiting, idle, cleanups>>

\* mutant: the count goes down only for a task that has settled
LeaveSettled(o) ==
    /\ pc[o] = "leaving"
    /\ Goto(o, "done")
    /\ IF result[o] = "settled" /\ EntryOf(o) # NoEntry
       THEN entries' = [entries EXCEPT ![AccountOf[o]].active = @ - 1]
       ELSE UNCHANGED entries
    /\ UNCHANGED <<made, queueOf, running, global, waiting, result, idle, cleanups>>

\* the finally block: locks.update(-1), which throws without an entry and turns
\* whatever the task returned into a rejection
Leave(o) ==
    /\ pc[o] = "leaving"
    /\ Goto(o, "done")
    /\ IF EntryOf(o) = NoEntry
       THEN /\ result' = [result EXCEPT ![o] = "rejected"]
            /\ UNCHANGED entries
       ELSE /\ entries' = [entries EXCEPT ![AccountOf[o]].active = @ - 1]
            /\ UNCHANGED result
    /\ UNCHANGED <<made, queueOf, running, global, waiting, idle, cleanups>>

\* cleanupIdleAccounts(): the old entries without orders are collected ...
CollectIdle ==
    /\ cleanups < MaxCleanups
    /\ idle = {}
    /\ cleanups' = cleanups + 1
    /\ idle' \in SUBSET {a \in Accounts : /\ entries[a] # NoEntry
                                          /\ entries[a].active = 0
                                          /\ waiting[entries[a].queue] = <<>>}
    /\ UNCHANGED <<entries, made, pc, queueOf, running, global, waiting, result>>

\* ... and deleted one after the other
DeleteIdle(a) ==
    /\ a \in idle
    /\ idle' = idle \ {a}
    /\ entries' = [entries EXCEPT ![a] = NoEntry]
    /\ UNCHANGED <<made, pc, queueOf, running, global, waiting, result, cleanups>>

AQNext ==
    \/ \E o \in Orders : \/ GetQueue(o) \/ Count(o) \/ TaskEnds(o)
                         \/ QueueTimeout(o) \/ Leave(o)
    \/ StartGlobal
    \/ \E q \in Queues : StartTask(q)
    \/ CollectIdle
    \/ \E a \in Accounts : DeleteIdle(a)

\* the event loop resumes what is ready, the queues start what has a slot, and
\* their timers fire; nothing makes a task end
AQFairness ==
    /\ \A o \in Orders : /\ WF_aqvars(GetQueue(o)) /\ WF_aqvars(Count(o))
                         /\ WF_aqvars(QueueTimeout(o)) /\ WF_aqvars(Leave(o))
    /\ WF_aqvars(StartGlobal)
    /\ \A q \in Queues : WF_aqvars(StartTask(q))

AQSpec == AQInit /\ [][AQNext]_aqvars /\ AQFairness
------------------------------------------------------------------------------
CallPlaces == {"called", "given", "queued", "admitted", "running", "leaving", "done"}

AQTypeOK ==
    /\ entries \in [Accounts -> [queue : Queues \cup {0}, active : Int]]
    /\ made \in Queues \cup {0}
    /\ pc \in [Orders -> CallPlaces]
    /\ queueOf \in [Orders -> Queues \cup {0}]
    /\ running \subseteq Orders
    /\ global \in Seq(Orders)
    /\ waiting \in [Queues -> Seq(Orders)]
    /\ result \in [Orders -> {"none", "settled", "undefined", "rejected"}]
    /\ idle \subseteq Accounts
    /\ cleanups \in 0..MaxCleanups

Counted(a) == {o \in Orders : /\ AccountOf[o] = a
                              /\ pc[o] \in {"queued", "admitted", "running", "leaving"}}

\* Whatever times out or fails, the count of an account is the number of its
\* orders between the two updates (no cleanup has run).
CountsAgree ==
    cleanups = 0 =>
        \A a \in Accounts : entries[a] # NoEntry => entries[a].active = Cardinality(Counted(a))

\* Orders of an account that arrive together share one queue, so that their
\* number is limited at all (no cleanup has run).
OneQueuePerAccount ==
    cleanups = 0 =>
        \A o, p \in Orders : /\ AccountOf[o] = AccountOf[p]
                             /\ queueOf[o] # 0 /\ queueOf[p] # 0
                             => queueOf[o] = queueOf[p]

\* So no more than maxConcurrentPerAccount orders of an account have a slot together,
\* whichever way they came to their queue; a task that goes on after its timeout has
\* no slot any more (no cleanup has run).
AccountLimited ==
    cleanups = 0 =>
        \A a \in Accounts :
            Cardinality({o \in At("running") : AccountOf[o] = a}) <= PerAccount

\* Every call settles, for every account, although the tasks of an account may
\* hang and orders that wait for that account hold slots of the global queue.
EveryCallSettles == \A o \in Orders : <>(pc[o] = "done")

\* Refuted.  "Max concurrent orders per account".
TasksBounded ==
    \A a \in Accounts :
        Cardinality({o \in running : AccountOf[o] = a}) <= PerAccount

\* Refuted.  "Active order count": not below zero.
CountNotNegative == \A a \in Accounts : entries[a].active >= 0
==============================================================================
