------------------------ MODULE OrderExecutor_proofs ------------------------
(***************************************************************************)
(* For any amount, number of attempts, set of failures and number of       *)
(* cancellations: the callbacks of an order never run side by side, the    *)
(* attempts are bounded and a fill is announced once.  What the exchange   *)
(* answers does not matter for that: the argument is about who may act     *)
(* next.  Then type correctness; that the exchange never has two open      *)
(* orders for one order of the executor, and that an open order that is    *)
(* left alone is attended, for any failures but a lost answer to           *)
(* createOrder(); last, for any failure, that what has been seen filled is *)
(* never asked for again.                                                  *)
(***************************************************************************)
EXTENDS OrderExecutor, FiniteSetTheorems, TLAPS

\* the part of TypeOK the argument needs
PlacesOK ==
    /\ pc \in [Actors -> Driving \cup {"queued", "idle", "waiting", "done"}]
    /\ pc[Main] \in {"queued", "retry", "creating", "waiting", "done"}
    /\ \A c \in Checks : pc[c] \in Driving \cup {"idle", "waiting"}
    /\ resubmitCount \in Nat

\* until its first order is accepted, the task is alone
AloneAtFirst ==
    pc[Main] \in {"queued", "retry", "creating"} =>
        /\ \A c \in Checks : pc[c] = "idle"
        /\ monitor # "pending"
        /\ status # "failed"

\* a failed order has no driver, and a thread that waits for it is rejected
\* only when the attempts are used up
FailedIsOver ==
    status = "failed" =>
        /\ Drivers = {}
        /\ \/ resubmitCount >= MaxResubmit
           \/ \A t \in Threads : pc[t] # "waiting"

\* a check gives up at the bound and resubmits only below it
AttemptsLeft ==
    /\ resubmitCount <= MaxResubmit
    /\ \A t \in Threads :
          /\ pc[t] = "failing" => resubmitCount >= MaxResubmit
          /\ pc[t] \in {"fetching", "canceling", "pricing"} =>
                resubmitCount < MaxResubmit

IInv == /\ PlacesOK
        /\ SingleDriver
        /\ AloneAtFirst
        /\ FailedIsOver
        /\ AttemptsLeft

\* everything the invariant speaks of
Parts == <<status, resubmitCount, monitor, strays, pc>>

-----------------------------------------------------------------------------
(* The invariant holds before the queue starts the task.                   *)
LEMMA Initial == Init => IInv
BY OrderExecutorAssumption
   DEF Init, IInv, PlacesOK, SingleDriver, AloneAtFirst, FailedIsOver,
       AttemptsLeft, Drivers, Driving, Threads, Actors, Main, User

(* A step that leaves the parts alone keeps the invariant.                 *)
LEMMA Stutter == IInv /\ UNCHANGED Parts => IInv'
BY DEF Parts, IInv, PlacesOK, SingleDriver, AloneAtFirst, FailedIsOver,
       AttemptsLeft, Drivers

(* A driver that gives up the order, or throws: nobody drives any more.    *)
LEMMA ThrowKeeps ==
    ASSUME IInv, NEW t \in Threads,
           NEW entry, entry # "pending",
           \/ pc[t] = "creating" /\ entry = monitor
           \/ pc[t] = "waiting" /\ status = "failed" /\ resubmitCount >= MaxResubmit,
           Throw(t, entry)
    PROVE  IInv'
<1> USE OrderExecutorAssumption DEF IInv, Threads, Actors, Main, User
<1>0. /\ pc' \in [Actors -> Driving \cup {"queued", "idle", "waiting", "done"}]
      /\ \A a \in Actors : a # t => pc'[a] = pc[a]
      /\ resubmitCount' = resubmitCount
      /\ Drivers \subseteq {t}
  BY DEF Throw, Goto, PlacesOK, SingleDriver, Drivers, Driving, FailedIsOver
<1>1. CASE t = Main
  <2>1. /\ pc'[Main] = "done"
        /\ monitor' = entry /\ strays' = strays
        /\ status' \in {status, "failed"}
    BY <1>1 DEF Throw, Goto, PlacesOK
  <2>2. Drivers' = {}
    BY <1>0, <2>1, <1>1 DEF Drivers, Driving
  <2>3. FailedIsOver'
    BY <1>0, <1>1, <2>1, <2>2 DEF AloneAtFirst, FailedIsOver
  <2>4. PlacesOK' /\ SingleDriver' /\ AloneAtFirst' /\ AttemptsLeft'
    BY <1>0, <1>1, <2>1, <2>2
       DEF PlacesOK, SingleDriver, AloneAtFirst, AttemptsLeft
  <2>5. QED
    BY <2>3, <2>4
<1>2. CASE t \in Checks
  <2>1. /\ pc'[t] = "idle"
        /\ monitor' = "pending" /\ strays' = strays
        /\ status' = status
        /\ pc[Main] \notin {"queued", "retry", "creating"}
    BY <1>2 DEF Throw, Goto, StartMonitor, PlacesOK, AloneAtFirst
  <2>2. Drivers' = {}
    BY <1>0, <2>1, <1>2 DEF Drivers, Driving
  <2>3. QED
    BY <1>0, <1>2, <2>1, <2>2
       DEF PlacesOK, SingleDriver, AloneAtFirst, FailedIsOver, AttemptsLeft, Driving
<1>3. QED
  BY <1>1, <1>2

(* A driver that goes on stays the only one.                               *)
LEMMA DriveOn ==
    ASSUME IInv, NEW t \in Threads, pc[t] \in Driving,
           NEW place \in Driving,
           t = Main => place \in {"retry", "creating"},
           Goto(t, place),
           resubmitCount' \in Nat, resubmitCount' <= MaxResubmit,
           resubmitCount' >= resubmitCount,
           place = "failing" => resubmitCount' >= MaxResubmit,
           place \in {"fetching", "canceling", "pricing"} =>
              resubmitCount' < MaxResubmit,
           UNCHANGED <<status, monitor, strays>>,
           t = Main => pc[Main] \in {"retry", "creating"}
    PROVE  IInv'
<1> USE OrderExecutorAssumption DEF IInv, Threads, Actors, Main, User
<1>1. /\ pc' \in [Actors -> Driving \cup {"queued", "idle", "waiting", "done"}]
      /\ \A a \in Actors : a # t => pc'[a] = pc[a]
      /\ pc'[t] = place
      /\ Drivers = {t} /\ Drivers' = {t}
  BY DEF Goto, PlacesOK, SingleDriver, Drivers
<1>2. PlacesOK'
  BY <1>1 DEF PlacesOK, Driving
<1>3. SingleDriver' /\ FailedIsOver'
  BY <1>1 DEF SingleDriver, FailedIsOver
<1>4. AloneAtFirst'
  BY <1>1 DEF AloneAtFirst, PlacesOK, Driving
<1>5. AttemptsLeft'
  <2>1. ASSUME NEW u \in Threads, u # t PROVE pc[u] \notin Driving /\ pc'[u] = pc[u]
    BY <1>1, <2>1 DEF Drivers
  <2>2. QED
    BY <1>1, <2>1 DEF AttemptsLeft, Driving
<1>6. QED
  BY <1>2, <1>3, <1>4, <1>5

(* Every other end of a driver: it waits for the order, or is idle again.   *)
LEMMA DriveNoMore ==
    ASSUME IInv, NEW t \in Threads, pc[t] \in Driving,
           NEW place, place = "waiting" \/ (t \in Checks /\ place = "idle"),
           Goto(t, place),
           resubmitCount' = resubmitCount,
           strays' = 0,
           t \in Checks \/ monitor' = "pending",
           \/ status' \in {"submitted", "filled", "canceled", "pending"}
           \/ status' = status
           \/ resubmitCount >= MaxResubmit
    PROVE  IInv'
<1> USE OrderExecutorAssumption DEF IInv, Threads, Actors, Main, User
<1>1. /\ pc' \in [Actors -> Driving \cup {"queued", "idle", "waiting", "done"}]
      /\ \A a \in Actors : a # t => pc'[a] = pc[a]
      /\ pc'[t] = place
      /\ Drivers = {t} /\ Drivers' = {}
  BY DEF Goto, PlacesOK, SingleDriver, Drivers, Driving
<1>2. PlacesOK' /\ SingleDriver'
  BY <1>1 DEF PlacesOK, SingleDriver, Driving
<1>3. AloneAtFirst'
  BY <1>1 DEF AloneAtFirst, PlacesOK, Driving
<1>4. FailedIsOver'
  BY <1>1 DEF FailedIsOver
<1>5. AttemptsLeft'
  BY <1>1 DEF AttemptsLeft, Driving
<1>6. QED
  BY <1>2, <1>3, <1>4, <1>5

-----------------------------------------------------------------------------
(* The steps of the retry loop keep the invariant.                         *)
LEMMA LoopKeeps == ASSUME IInv, NEW t \in Threads, LoopStep(t) PROVE IInv'
<1> USE OrderExecutorAssumption
<1>0. /\ resubmitCount \in Nat /\ strays = 0 /\ resubmitCount <= MaxResubmit
      /\ pc[t] \in Driving => monitor # "pending"
      /\ t = Main => pc[t] \in {"queued", "retry", "creating", "waiting", "done"}
  BY DEF IInv, PlacesOK, SingleDriver, AttemptsLeft, Drivers
<1>1. CASE SendCreate(t)
  BY <1>0, <1>1, DriveOn DEF SendCreate, order, timers, Driving
<1>2. CASE Created(t)
  BY <1>0, <1>2, DriveNoMore DEF Created, StartMonitor, Driving
<1>3. CASE CreateFailed(t)
  <2>1. CASE Goto(t, "retry") /\ UNCHANGED <<order, timers>>
    BY <1>0, <1>3, <2>1, DriveOn DEF CreateFailed, order, timers, Driving
  <2>2. CASE Throw(t, monitor)
    BY <1>0, <1>3, <2>2, ThrowKeeps DEF CreateFailed, Driving
  <2>3. CASE RetryOrThrow(t, monitor)
    <3>1. CASE resubmitCount < MaxResubmit
      BY <1>0, <1>3, <2>3, <3>1, DriveOn
         DEF CreateFailed, RetryOrThrow, Driving
    <3>2. CASE resubmitCount >= MaxResubmit
      BY <1>0, <1>3, <2>3, <3>2, ThrowKeeps
         DEF CreateFailed, RetryOrThrow, Driving
    <3>3. QED
      BY <1>0, <3>1, <3>2
  <2>4. QED
    BY <1>3, <2>1, <2>2, <2>3 DEF CreateFailed
<1>4. CASE PollFilled(t)
  <2>1. /\ monitor' = "none" /\ strays' = strays
        /\ status' = status /\ status = "filled"
        /\ resubmitCount' = resubmitCount
        /\ pc[t] = "waiting"
        /\ Goto(t, IF t = Main THEN "done" ELSE "idle")
    BY <1>4 DEF PollFilled, ClearMonitor, order
  <2>2. QED
    BY <2>1 DEF IInv, PlacesOK, SingleDriver, AloneAtFirst, FailedIsOver,
         AttemptsLeft, Drivers, Driving, Goto, Threads, Actors, Main, User
<1>5. CASE PollFailed(t)
  <2>1. resubmitCount >= MaxResubmit
    BY <1>5 DEF PollFailed, IInv, FailedIsOver
  <2>2. Throw(t, "none")
    BY <1>0, <1>5, <2>1 DEF PollFailed, RetryOrThrow
  <2>3. QED
    BY <1>5, <2>1, <2>2, ThrowKeeps DEF PollFailed
<1>6. CASE PollTimeout(t)
  <2>1. /\ pc[t] = "waiting"
        /\ Goto(t, IF t = Main THEN "done" ELSE "idle")
        /\ UNCHANGED <<status, resubmitCount, monitor, strays>>
    BY <1>6 DEF PollTimeout, order, timers
  <2>2. QED
    BY <2>1 DEF IInv, PlacesOK, SingleDriver, AloneAtFirst, FailedIsOver,
         AttemptsLeft, Drivers, Driving, Goto, Threads, Actors, Main, User
<1>7. QED
  BY <1>1, <1>2, <1>3, <1>4, <1>5, <1>6 DEF LoopStep

(* The steps of a monitor callback keep the invariant.                     *)
LEMMA CheckKeeps == ASSUME IInv, NEW t \in Checks, CheckStep(t) PROVE IInv'
<1> USE OrderExecutorAssumption
<1>0. /\ t \in Threads /\ t # Main
      /\ resubmitCount \in Nat /\ strays = 0 /\ resubmitCount <= MaxResubmit
      /\ pc[t] \in Driving => monitor # "pending"
  BY DEF IInv, PlacesOK, SingleDriver, AttemptsLeft, Drivers, Threads
<1>1. CASE TimerFires(t)
  <2>1. /\ pc[t] = "idle" /\ monitor = "pending" /\ Drivers = {}
        /\ monitor' = "fired" /\ strays' = 0
        /\ UNCHANGED <<status, resubmitCount>>
    BY <1>0, <1>1 DEF TimerFires, order, IInv, SingleDriver
  <2>2. CASE status \in Final
    <3>1. pc' = pc
      BY <1>1, <2>2 DEF TimerFires, BeginCheck
    <3>2. QED
      BY <2>1, <3>1 DEF IInv, PlacesOK, SingleDriver, AloneAtFirst,
           FailedIsOver, AttemptsLeft, Drivers
  <2>3. CASE status \notin Final
    <3> DEFINE place == IF resubmitCount >= MaxResubmit THEN "failing" ELSE "fetching"
    <3>1. Goto(t, place)
      BY <1>1, <2>3 DEF TimerFires, BeginCheck
    <3>2. /\ pc' \in [Actors -> Driving \cup {"queued", "idle", "waiting", "done"}]
          /\ \A a \in Actors : a # t => pc'[a] = pc[a]
          /\ pc'[t] = place
          /\ Drivers' = {t}
      BY <1>0, <2>1, <3>1 DEF Goto, IInv, PlacesOK, Drivers, Driving, Threads, Actors
    <3>3. pc[Main] \notin {"queued", "retry", "creating"}
      BY <2>1 DEF IInv, AloneAtFirst
    <3>4. PlacesOK' /\ AloneAtFirst' /\ SingleDriver'
      BY <1>0, <2>1, <3>2, <3>3 DEF IInv, PlacesOK, AloneAtFirst, SingleDriver, Driving, Threads,
           Actors
    <3>5. FailedIsOver'
      BY <2>1, <2>3 DEF FailedIsOver, Final
    <3>6. AttemptsLeft'
      BY <1>0, <2>1, <3>2 DEF IInv, AttemptsLeft, Threads, Actors
    <3>7. QED
      BY <3>4, <3>5, <3>6 DEF IInv
  <2>4. QED
    BY <2>2, <2>3
<1>2. CASE GaveUp(t)
  <2>1. resubmitCount >= MaxResubmit
    BY <1>0, <1>2 DEF GaveUp, IInv, AttemptsLeft
  <2>2. QED
    BY <1>0, <1>2, <2>1, DriveNoMore DEF GaveUp, timers, Driving
<1>3. CASE Fetched(t)
  <2>1. pc[t] = "fetching" /\ UNCHANGED <<resubmitCount, monitor, strays>>
    BY <1>3 DEF Fetched, timers
  <2>2. resubmitCount < MaxResubmit
    BY <1>0, <2>1 DEF IInv, AttemptsLeft
  <2>3. CASE Goto(t, "idle") /\ status' = "filled"
    BY <1>0, <2>1, <2>3, DriveNoMore DEF Driving
  <2>4. CASE Goto(t, "canceling") /\ status' = status
    BY <1>0, <2>1, <2>2, <2>4, DriveOn DEF Driving
  <2>5. QED
    BY <1>3, <2>3, <2>4 DEF Fetched, MarkFilled
<1>4. CASE CheckFailed(t)
  BY <1>0, <1>4, DriveNoMore DEF CheckFailed, StartMonitor, order, Driving
<1>5. CASE CheckCanceled(t)
  <2>1. resubmitCount < MaxResubmit
    BY <1>0, <1>5 DEF CheckCanceled, IInv, AttemptsLeft
  <2>2. QED
    BY <1>0, <1>5, <2>1, DriveOn DEF CheckCanceled, order, timers, Driving
<1>6. CASE Resubmit(t)
  <2>1. resubmitCount < MaxResubmit
    BY <1>0, <1>6 DEF Resubmit, IInv, AttemptsLeft
  <2>2. QED
    BY <1>0, <1>6, <2>1, DriveOn DEF Resubmit, timers, Driving
<1>7. QED
  BY <1>1, <1>2, <1>3, <1>4, <1>5, <1>6 DEF CheckStep

(* cancelOrder() touches the status and the timer, never who drives.       *)
LEMMA UserKeeps == ASSUME IInv, UserStep PROVE IInv'
<1> USE OrderExecutorAssumption
<1>1. /\ pc' \in [Actors -> Driving \cup {"queued", "idle", "waiting", "done"}]
      /\ \A t \in Threads : pc'[t] = pc[t]
  BY DEF UserStep, CancelCalled, CancelReturnsTrue, CancelReturnsFalse, Goto,
         IInv, PlacesOK, Threads, Actors, Main, User, Driving
<1>2. /\ Drivers' = Drivers /\ resubmitCount' = resubmitCount
      /\ strays' = strays
      /\ monitor' = monitor \/ monitor' = "none"
      /\ status' = status \/ status' = "canceled"
  BY <1>1 DEF UserStep, CancelCalled, CancelReturnsTrue, CancelReturnsFalse,
         ClearMonitor, Drivers, order, timers
<1>3. QED
  BY <1>1, <1>2 DEF IInv, PlacesOK, SingleDriver, AloneAtFirst, FailedIsOver,
         AttemptsLeft, Threads

(* The queue starts the task while nothing else exists.                    *)
LEMMA StartKeeps == ASSUME IInv, Start PROVE IInv'
<1> USE OrderExecutorAssumption
<1>1. /\ pc[Main] = "queued"
      /\ pc' = [pc EXCEPT ![Main] = "retry"]
      /\ UNCHANGED <<status, resubmitCount, monitor, strays>>
  BY DEF Start, Goto, order, timers
<1>2. /\ Drivers = {} /\ Drivers' = {Main}
      /\ \A c \in Checks : pc[c] = "idle" /\ pc'[c] = "idle"
      /\ pc'[Main] = "retry"
      /\ pc' \in [Actors -> Driving \cup {"queued", "idle", "waiting", "done"}]
  BY <1>1 DEF IInv, AloneAtFirst, PlacesOK, Drivers, Driving, Threads, Actors,
         Main, User
<1>3. FailedIsOver'
  BY <1>1 DEF FailedIsOver, IInv, AloneAtFirst
<1>4. QED
  BY <1>1, <1>2, <1>3 DEF IInv, PlacesOK, SingleDriver, AloneAtFirst, FailedIsOver,
         AttemptsLeft, Threads, Driving

-----------------------------------------------------------------------------
(* Every step keeps the invariant.                                         *)
LEMMA Inductive == IInv /\ [Next]_vars => IInv'
<1> SUFFICES ASSUME IInv, [Next]_vars PROVE IInv'
  OBVIOUS
<1>1. CASE UNCHANGED vars
  BY <1>1, Stutter DEF vars, order, timers, Parts
<1>2. CASE Start
  BY <1>2, StartKeeps
<1>3. CASE QueueTimeout
  BY <1>3, Stutter DEF QueueTimeout, order, timers, Parts
<1>4. ASSUME NEW t \in Threads, LoopStep(t) PROVE IInv'
  BY <1>4, LoopKeeps
<1>5. ASSUME NEW t \in Checks, CheckStep(t) PROVE IInv'
  BY <1>5, CheckKeeps
<1>6. CASE UserStep
  BY <1>6, UserKeeps
<1>7. ASSUME NEW a \in Actors, ExchangeStep(a) PROVE IInv'
  BY <1>7, Stutter DEF ExchangeStep, ExchangeCreate, ExchangeFetch,
     ExchangeCancel, order, timers, Parts
<1>8. ASSUME NEW i \in 1..Len(ex), Trade(i) PROVE IInv'
  BY <1>8, Stutter DEF Trade, order, timers, Parts
<1>9. QED
  BY <1>1, <1>2, <1>3, <1>4, <1>5, <1>6, <1>7, <1>8 DEF Next

(* Every reachable state satisfies the inductive invariant.                *)
THEOREM Invariance == Spec => []IInv
BY Initial, Inductive, PTL DEF Spec

(* One driver at a time, and no monitor timer is ever overwritten: see     *)
(* SingleDriver.  It holds whatever the exchange answers, loses or fails,  *)
(* and whenever the user cancels.                                          *)
THEOREM OneDriver == Spec => []SingleDriver
<1>1. IInv => SingleDriver
  BY DEF IInv
<1>2. QED
  BY <1>1, Invariance, PTL

(* The attempts of nested retry loops and of failed calls share one        *)
(* counter, which never passes maxResubmitAttempts: the error thrown after *)
(* the loop of _executeOrderWithRetry is never reached.                    *)
THEOREM AttemptsBounded == Spec => []AttemptsLeft
<1>1. IInv => AttemptsLeft
  BY DEF IInv
<1>2. QED
  BY <1>1, Invariance, PTL

-----------------------------------------------------------------------------
\* an open order has something left to fill
Fillable == \A i \in 1..Len(ex) : ex[i].state = "open" => ex[i].filled < ex[i].amount

\* before the first order is accepted no callback runs and none is due
NoneBefore ==
    exId = 0 => /\ monitor # "pending" /\ pc[Main] # "waiting"
                /\ \A c \in Checks : pc[c] = "idle"

\* what a thread has sent or received fits the place where it waits for it
Fits(t) ==
    /\ pc[t] = "creating" => net[t].kind \in {"create", "created", "error"}
    /\ pc[t] = "fetching" => net[t].kind \in {"fetch", "snapshot", "error"}
    /\ pc[t] \in {"canceling", "failing"} =>
          /\ net[t].kind \in {"cancel", "canceled", "error"}
          /\ net[t].kind = "cancel" => net[t].id = exId
    /\ pc[t] \notin {"creating", "fetching", "canceling", "failing"} =>
          net[t].kind = "none"

MessagesFit == /\ \A t \in Threads : Fits(t)
               /\ net[User].kind \in {"none", "cancel", "canceled", "error"}

\* an open order is the one whose number the executor has, which nobody is about
\* to replace, or the one whose number is on its way
Known(i) == /\ i = exId
            /\ \A t \in Threads :
                  /\ pc[t] \notin {"retry", "creating", "pricing"}
                  /\ pc[t] = "canceling" => net[t].kind # "canceled"
Arriving(i) == \E t \in Threads :
                  pc[t] = "creating" /\ net[t].kind = "created" /\ net[t].id = i

OpenIsKnown == \A i \in OpenOrders : Known(i) \/ Arriving(i)

\* the executor has no order before the queue starts the task
QueuedIsNew == pc[Main] = "queued" => exId = 0

Types == TypeOK /\ Fillable /\ NoneBefore

-----------------------------------------------------------------------------
(* Messages carry what their kind says.                                    *)
LEMMA Carried ==
    ASSUME NEW m \in Messages
    PROVE  /\ m.kind = "create" => m.amount \in 1..Amount
           /\ m.kind \in {"fetch", "cancel", "created"} => m.id \in 1..Len(ex)
           /\ m.kind = "snapshot" => m.id \in 1..Len(ex) /\ m.order \in ExchangeOrder
BY DEF Messages

(* A message stays one when the exchange has more orders.                  *)
LEMMA StillMessages ==
    ASSUME Len(ex) \in Nat, Len(ex') \in Nat, Len(ex') >= Len(ex), NEW m \in Messages
    PROVE  m \in Messages'
<1>1. \A i \in 1..Len(ex) : i \in 1..Len(ex')
  OBVIOUS
<1>2. ExchangeOrder' = ExchangeOrder
  BY DEF ExchangeOrder
<1>3. CASE m \in [kind : {"fetch", "cancel", "created"}, id : 1..Len(ex)]
  BY <1>1, <1>3 DEF Messages
<1>4. CASE m \in [kind : {"snapshot"}, id : 1..Len(ex), order : ExchangeOrder]
  BY <1>1, <1>2, <1>4 DEF Messages
<1>5. QED
  BY <1>3, <1>4 DEF Messages

(* One message replaces another.                                           *)
LEMMA SendKeeps ==
    ASSUME TypeOK, Len(ex') \in Nat, Len(ex') >= Len(ex),
           NEW a \in Actors, NEW m \in Messages', Send(a, m)
    PROVE  net' \in [Actors -> Messages']
<1>1. \A x \in Messages : x \in Messages'
  BY StillMessages DEF TypeOK
<1>2. QED
  BY <1>1 DEF Send, TypeOK

\* no answer to an accepted createOrder() is lost
NothingLost == \A p \in Plans : "lost" \notin p.kinds

\* the parts of the types that the inductive invariant of OrderExecutor_proofs
\* does not already bound
OrderTyped == /\ status \in {"pending", "submitted"} \cup Final
              /\ amount \in 1..Amount /\ filledAmount \in 0..Amount
              /\ exId \in 0..Len(ex) /\ active \in BOOLEAN
              /\ monitor \in {"none", "pending", "fired"}
OutcomeTyped == /\ answer \in {"none", "filled", "failed", "undefined"}
                /\ canceled \in BOOLEAN
                /\ filledEvents \in Nat /\ rateRetries \in Nat
                /\ plan \in Plans /\ faults \in 0..plan.faults
                /\ cancels \in 0..plan.cancels
ExchangeTyped == ex \in Seq(ExchangeOrder) /\ Fillable

\* Given the inductive invariant, the types are these five parts.
LEMMA TypesParts ==
    IInv => (Types <=> /\ OrderTyped /\ OutcomeTyped /\ ExchangeTyped
                       /\ net \in [Actors -> Messages] /\ NoneBefore)
<1>1. IInv => /\ resubmitCount \in 0..MaxResubmit /\ strays \in Nat
              /\ pc \in [Actors -> Driving \cup {"queued", "idle", "waiting", "done"}]
  BY OrderExecutorAssumption DEF IInv, PlacesOK, AttemptsLeft, SingleDriver
<1>2. Types => /\ OrderTyped /\ OutcomeTyped /\ ExchangeTyped
               /\ net \in [Actors -> Messages] /\ NoneBefore
  BY Zenon DEF Types, TypeOK, OrderTyped, OutcomeTyped, ExchangeTyped
<1>3. ASSUME IInv, OrderTyped, OutcomeTyped, ExchangeTyped,
             net \in [Actors -> Messages], NoneBefore
      PROVE  Types
  BY <1>1, <1>3, Zenon DEF Types, TypeOK, OrderTyped, OutcomeTyped, ExchangeTyped
<1>4. QED
  BY <1>2, <1>3

\* The same of the next state.
LEMMA TypesNext ==
    /\ IInv' /\ OrderTyped' /\ OutcomeTyped' /\ ExchangeTyped'
    /\ net' \in [Actors -> Messages'] /\ NoneBefore'
    => Types'
<1>1. IInv' => /\ resubmitCount' \in 0..MaxResubmit /\ strays' \in Nat
               /\ pc' \in [Actors -> Driving \cup {"queued", "idle", "waiting", "done"}]
  BY OrderExecutorAssumption DEF IInv, PlacesOK, AttemptsLeft, SingleDriver
<1>2. QED
  BY <1>1, Zenon DEF Types, TypeOK, OrderTyped, OutcomeTyped, ExchangeTyped

\* The types hold before the queue starts the task.
LEMMA InitTypes == Init => Types
<1> SUFFICES ASSUME Init PROVE Types
  OBVIOUS
<1> USE OrderExecutorAssumption DEF Init
<1>1. OrderTyped /\ OutcomeTyped
  <2>1. Len(ex) = 0
    OBVIOUS
  <2>2. OrderTyped
    BY <2>1 DEF OrderTyped, Final
  <2>3. OutcomeTyped
    <3>1. canceled \in BOOLEAN
      OBVIOUS
    <3>2. plan \in Plans /\ faults \in 0..plan.faults /\ cancels \in 0..plan.cancels
      BY DEF AllPlans
    <3>3. QED
      BY <3>1, <3>2 DEF OutcomeTyped
  <2>4. QED
    BY <2>2, <2>3
<1>2. ExchangeTyped
  BY DEF ExchangeTyped, Fillable
<1>3. net \in [Actors -> Messages]
  BY DEF Messages, Quiet
<1>4. NoneBefore
  BY DEF NoneBefore, Actors, Threads, Main, User
<1>5. QED
  BY <1>1, <1>2, <1>3, <1>4, TypesParts, Initial

\* the messages the handlers and the exchange send
LEMMA Sendable ==
    ASSUME Types, NEW a \in Actors
    PROVE  /\ Quiet \in Messages /\ [kind |-> "canceled"] \in Messages
           /\ [kind |-> "create", amount |-> amount] \in Messages
           /\ \A i \in 1..Len(ex) :
                 /\ [kind |-> "fetch", id |-> i] \in Messages
                 /\ [kind |-> "cancel", id |-> i] \in Messages
                 /\ [kind |-> "created", id |-> i] \in Messages
                 /\ [kind |-> "snapshot", id |-> i, order |-> ex[i]] \in Messages
           /\ \A e \in {"rateLimit", "nonce", "rejected", "network"} :
                 [kind |-> "error", error |-> e] \in Messages
<1> USE DEF Types, TypeOK
<1>1. /\ Quiet \in Messages /\ [kind |-> "canceled"] \in Messages
      /\ [kind |-> "create", amount |-> amount] \in Messages
  BY DEF Messages, Quiet
<1>2. ASSUME NEW i \in 1..Len(ex)
      PROVE  /\ [kind |-> "fetch", id |-> i] \in Messages
             /\ [kind |-> "cancel", id |-> i] \in Messages
             /\ [kind |-> "created", id |-> i] \in Messages
  BY DEF Messages
<1>3. ASSUME NEW i \in 1..Len(ex)
      PROVE  [kind |-> "snapshot", id |-> i, order |-> ex[i]] \in Messages
  <2>1. ex[i] \in ExchangeOrder
    OBVIOUS
  <2>2. QED
    BY <2>1 DEF Messages
<1>4. ASSUME NEW e \in {"rateLimit", "nonce", "rejected", "network"}
      PROVE  [kind |-> "error", error |-> e] \in Messages
  BY DEF Messages
<1>5. QED
  BY <1>1, <1>2, <1>3, <1>4

-----------------------------------------------------------------------------
(* The steps of the handlers: what is at the exchange stays as it is, but  *)
(* for the number of what has been seen.                                   *)

\* While the exchange does not change, neither do the messages it allows.
LEMMA SameExchange ==
    ASSUME Types, ex' = ex
    PROVE  /\ ExchangeTyped'
           /\ Messages' = Messages
           /\ net' = net => net' \in [Actors -> Messages']
<1>1. Messages' = Messages
  BY DEF Messages, ExchangeOrder
<1>2. ExchangeTyped'
  BY DEF Types, TypeOK, ExchangeTyped, Fillable, ExchangeOrder
<1>3. QED
  BY <1>1, <1>2 DEF Types, TypeOK

\* Sending a message leaves only messages on their way.
LEMMA SendTyped ==
    ASSUME Types, ex' = ex, NEW a \in Actors, NEW m \in Messages, Send(a, m)
    PROVE  net' \in [Actors -> Messages']
BY SameExchange DEF Send, Types, TypeOK

\* _cancelOrder() sends a message.
LEMMA CancelTyped ==
    ASSUME Types, ex' = ex, NEW a \in Actors, SendCancel(a)
    PROVE  net' \in [Actors -> Messages']
<1>1. exId = 0 \/ exId \in 1..Len(ex)
  BY DEF Types, TypeOK
<1>2. QED
  BY <1>1, Sendable, SendTyped DEF SendCancel

(* An exception that leaves the retry loop, or another attempt.            *)
LEMMA RetryTyped ==
    ASSUME Types, IInv, ex' = ex,
           NEW t \in Threads, NEW entry \in {monitor, "none"},
           pc[t] \in {"creating", "waiting"},
           Throw(t, entry) \/ RetryOrThrow(t, entry),
           rateRetries' \in Nat, UNCHANGED <<faults, cancels, plan>>
    PROVE  OrderTyped' /\ OutcomeTyped' /\ NoneBefore'
<1> USE DEF Types, TypeOK, Final
<1>1. CASE Throw(t, entry)
  <2>1. OrderTyped'
    BY <1>1 DEF Throw, OrderTyped, StartMonitor
  <2>2. OutcomeTyped'
    BY <1>1 DEF Throw, OutcomeTyped, Settle
  <2>3. NoneBefore'
    <3>1. exId = 0 => t = Main
      BY DEF NoneBefore, Threads
    <3>2. QED
      BY <3>1, <1>1 DEF Throw, NoneBefore, Goto, Actors, Threads, Main, User
  <2>4. QED
    BY <2>1, <2>2, <2>3
<1>2. CASE RetryOrThrow(t, entry) /\ ~Throw(t, entry)
  <2>1. OrderTyped' /\ OutcomeTyped'
    BY <1>2 DEF RetryOrThrow, OrderTyped, OutcomeTyped
  <2>2. NoneBefore'
    <3>1. exId = 0 => t = Main
      BY DEF NoneBefore, Threads
    <3>2. QED
      BY <3>1, <1>2 DEF RetryOrThrow, NoneBefore, Goto, Actors, Threads, Main, User
  <2>3. QED
    BY <2>1, <2>2
<1>3. QED
  BY <1>1, <1>2

\* The retry loop and the poll keep the types.
LEMMA LoopTypes ==
    ASSUME Types, IInv, IInv', NEW t \in Threads, LoopStep(t) PROVE Types'
<1> USE DEF Types, TypeOK
<1>0. t \in Actors /\ Quiet \in Messages
  BY Sendable DEF Actors
<1>a. ex' = ex
  BY DEF LoopStep, SendCreate, Created, CreateFailed, PollFilled, PollFailed,
         PollTimeout, exchange
<1>b. ExchangeTyped'
  BY <1>a, SameExchange
<1>c. net' = net => net' \in [Actors -> Messages']
  BY <1>a, SameExchange
<1>1. CASE SendCreate(t)
  <2>1. net' \in [Actors -> Messages']
    BY <1>0, <1>a, <1>1, Sendable, SendTyped DEF SendCreate
  <2>2. OrderTyped' /\ OutcomeTyped'
    BY <1>1 DEF SendCreate, OrderTyped, OutcomeTyped, order, timers, outcome, exchange
  <2>3. NoneBefore'
    BY <1>1 DEF SendCreate, NoneBefore, Goto, order, timers, Actors, Threads, Main, User
  <2>4. QED
    BY <1>b, <2>1, <2>2, <2>3, TypesNext

<1>2. CASE Created(t)
  <2>1. net' \in [Actors -> Messages']
    BY <1>0, <1>a, <1>2, SendTyped DEF Created, Consume
  <2>2. net[t].id \in 1..Len(ex)
    BY <1>0, <1>2, Carried DEF Created, AnsweredWith
  <2>3. OrderTyped' /\ OutcomeTyped'
    BY <1>2, <2>2 DEF Created, StartMonitor, OrderTyped, OutcomeTyped, outcome, exchange
  <2>4. NoneBefore'
    BY <1>2, <2>2 DEF Created, NoneBefore
  <2>5. QED
    BY <1>b, <2>1, <2>3, <2>4, TypesNext
<1>3. CASE CreateFailed(t)
  <2>1. net' \in [Actors -> Messages']
    BY <1>0, <1>a, <1>3, SendTyped DEF CreateFailed, Consume
  <2>2. CASE net[t].error \in {"rateLimit", "nonce"} /\ pc' = [pc EXCEPT ![t] = "retry"]
             /\ rateRetries' \in {rateRetries, rateRetries + 1}
             /\ UNCHANGED <<order, timers, answer, canceled, filledEvents>>
    <3>1. OrderTyped' /\ OutcomeTyped'
      BY <1>3, <2>2 DEF CreateFailed, OrderTyped, OutcomeTyped, order, timers, exchange
    <3>2. NoneBefore'
      <4>1. exId = 0 => t = Main
        BY <1>3 DEF CreateFailed, NoneBefore, Threads
      <4>2. QED
        BY <1>3, <4>1, <2>2 DEF CreateFailed, NoneBefore, order, timers, Actors, Threads,
                                Main, User
    <3>3. QED
      BY <1>b, <2>1, <3>1, <3>2, TypesNext
  <2>3. CASE (Throw(t, monitor) \/ RetryOrThrow(t, monitor)) /\ UNCHANGED rateRetries
    <3>1. OrderTyped' /\ OutcomeTyped' /\ NoneBefore'
      BY <1>3, <1>a, <2>3, RetryTyped DEF CreateFailed, exchange
    <3>2. QED
      BY <1>b, <2>1, <3>1, TypesNext
  <2>4. QED
    BY <1>3, <2>2, <2>3 DEF CreateFailed, Goto
<1>4. CASE PollFilled(t)
  <2>1. OrderTyped' /\ OutcomeTyped'
    BY <1>4 DEF PollFilled, ClearMonitor, Settle, OrderTyped, OutcomeTyped, order, exchange
  <2>2. NoneBefore'
    BY <1>4 DEF PollFilled, ClearMonitor, NoneBefore, Goto, order, Actors, Threads, Main, User
  <2>3. QED
    BY <1>4, <1>b, <1>c, <2>1, <2>2, TypesNext DEF PollFilled
<1>5. CASE PollFailed(t)
  <2>1. OrderTyped' /\ OutcomeTyped' /\ NoneBefore'
    BY <1>5, <1>a, RetryTyped DEF PollFailed, exchange
  <2>2. QED
    BY <1>5, <1>b, <1>c, <2>1, TypesNext DEF PollFailed
<1>6. CASE PollTimeout(t)
  <2>1. OrderTyped' /\ OutcomeTyped'
    BY <1>6 DEF PollTimeout, OrderTyped, OutcomeTyped, order, timers, outcome, exchange
  <2>2. NoneBefore'
    BY <1>6 DEF PollTimeout, NoneBefore, Goto, order, timers, Actors, Threads, Main, User
  <2>3. QED
    BY <1>6, <1>b, <1>c, <2>1, <2>2, TypesNext DEF PollTimeout
<1>7. QED
  BY <1>1, <1>2, <1>3, <1>4, <1>5, <1>6 DEF LoopStep

\* A remainder that is not below a part of a positive amount is positive.
LEMMA Scaled ==
    ASSUME NEW d \in Nat \ {0}, NEW n \in Nat \ {0}, NEW x \in Int, ~(d * x < n)
    PROVE  x > 0
<1>1. x <= 0 => d * x <= 0
  OBVIOUS
<1>2. d * x \in Int
  OBVIOUS
<1>3. QED
  BY <1>1, <1>2

\* An order that has been looked at is an order.
LEMMA Looked ==
    ASSUME NEW o \in ExchangeOrder, NEW n \in 0..Amount
    PROVE  [o EXCEPT !.seen = n] \in ExchangeOrder
BY DEF ExchangeOrder

\* Replacing an element of a sequence.
LEMMA Replaced ==
    ASSUME NEW S, NEW s \in Seq(S), NEW i \in 1..Len(s), NEW e \in S
    PROVE  /\ [s EXCEPT ![i] = e] \in Seq(S)
           /\ Len([s EXCEPT ![i] = e]) = Len(s)
OBVIOUS

(* The look at the order: the amounts stay between what was asked for and  *)
(* nothing.                                                                *)
LEMMA FetchedTypes ==
    ASSUME Types, IInv, IInv', NEW t \in Checks, Fetched(t) PROVE Types'
<1> DEFINE latest == net[t].order
           i == net[t].id
<1>t. /\ net \in [Actors -> Messages] /\ ex \in Seq(ExchangeOrder)
      /\ amount \in 1..Amount /\ filledAmount \in 0..Amount /\ exId \in 0..Len(ex)
      /\ Amount \in Nat \ {0} /\ NegligibleDen \in Nat \ {0}
      /\ Fillable
  BY OrderExecutorAssumption DEF Types, TypeOK
<1>0. t \in Actors /\ t # Main /\ t # User
  BY OrderExecutorAssumption DEF Actors, Threads, Main, User
<1>1. latest \in ExchangeOrder /\ i \in 1..Len(ex)
  BY <1>0, <1>t, Carried DEF Fetched, AnsweredWith
<1>2. latest.filled \in 0..Amount
  BY <1>1 DEF ExchangeOrder
<1>3. ex' = [ex EXCEPT ![i] = [ex[i] EXCEPT !.seen = latest.filled]]
  BY DEF Fetched
<1>4. ex' \in Seq(ExchangeOrder) /\ Len(ex') = Len(ex)
  <2>1. ex[i] \in ExchangeOrder
    BY <1>1, <1>t
  <2>2. [ex[i] EXCEPT !.seen = latest.filled] \in ExchangeOrder
    BY <1>2, <2>1, Looked
  <2>3. QED
    BY <1>1, <1>3, <1>t, <2>2, Replaced
<1>5. Fillable'
  <2>1. SUFFICES ASSUME NEW j \in 1..Len(ex)
                 PROVE  ex'[j].state = "open" => ex'[j].filled < ex'[j].amount
    BY <1>4 DEF Fillable
  <2>2. ex[j] \in ExchangeOrder
    BY <1>t
  <2>3. /\ ex'[j].state = ex[j].state /\ ex'[j].filled = ex[j].filled
        /\ ex'[j].amount = ex[j].amount
    <3>1. ex'[j] = IF j = i THEN [ex[j] EXCEPT !.seen = latest.filled] ELSE ex[j]
      <4>1. ex \in [1..Len(ex) -> ExchangeOrder]
        BY <1>t
      <4> QED  BY <1>3, <4>1
    <3>2. CASE j = i
      BY <2>2, <3>1, <3>2 DEF ExchangeOrder
    <3>3. CASE j # i
      BY <3>1, <3>3
    <3>4. QED
      BY <3>2, <3>3
  <2>4. QED
    BY <1>t, <2>3 DEF Fillable
<1>6. Messages' = Messages
  BY <1>4 DEF Messages, ExchangeOrder
<1>7. net' \in [Actors -> Messages']
  <2>1. \E m \in Messages : Send(t, m)
    <3>1. CASE Consume(t)
      BY <1>0, <3>1, Sendable DEF Consume
    <3>2. CASE SendCancel(t)
      <4>1. exId = 0 \/ exId \in 1..Len(ex)
        BY <1>t
      <4>2. QED
        BY <1>0, <3>2, <4>1, Sendable DEF SendCancel
    <3>3. QED
      BY <3>1, <3>2 DEF Fetched
  <2>2. QED
    BY <1>0, <1>t, <1>6, <2>1 DEF Send
<1>8. amount' \in 1..Amount
  <2>1. CASE amount' = amount
    BY <1>t, <2>1
  <2>2. CASE amount' = amount - latest.filled /\ latest.filled > 0
             /\ ~(NegligibleDen * (amount - latest.filled) < amount)
    <3>1. amount - latest.filled \in Int /\ amount \in Nat \ {0}
      BY <1>2, <1>t
    <3>2. amount - latest.filled > 0
      BY <1>t, <2>2, <3>1, Scaled
    <3>3. amount \in 1..Amount /\ latest.filled \in Nat /\ Amount \in Nat
      BY <1>2, <1>t
    <3> HIDE DEF latest
    <3>4. QED
      BY <2>2, <3>2, <3>3
  <2>3. QED
    BY <2>1, <2>2 DEF Fetched
<1>9. OrderTyped'
  BY <1>2, <1>4, <1>8, <1>t DEF Types, TypeOK, Fetched, MarkFilled, OrderTyped, Final, timers
<1>10. OutcomeTyped'
  BY DEF Types, TypeOK, Fetched, MarkFilled, OutcomeTyped
<1>11. NoneBefore'
  BY <1>t DEF Types, Fetched, NoneBefore, timers
<1>12. QED
  BY <1>4, <1>5, <1>7, <1>9, <1>10, <1>11, TypesNext DEF ExchangeTyped, ExchangeOrder

\* The monitor callback keeps the types.
LEMMA CheckTypes ==
    ASSUME Types, IInv, IInv', NEW t \in Checks, CheckStep(t) PROVE Types'
<1> USE OrderExecutorAssumption DEF Types, TypeOK
<1>0. t \in Actors /\ t # Main /\ t # User
  BY DEF Actors, Threads, Main, User
<1>1. CASE Fetched(t)
  BY <1>1, FetchedTypes
<1>2. CASE ~Fetched(t)
  <2>0. ex' = ex
    BY <1>2 DEF CheckStep, TimerFires, GaveUp, CheckFailed, CheckCanceled, Resubmit, exchange
  <2>1. OrderTyped' /\ OutcomeTyped'
    BY <1>2, <2>0 DEF CheckStep, TimerFires, GaveUp, CheckFailed, CheckCanceled, Resubmit,
                   StartMonitor, OrderTyped, OutcomeTyped, Final, order, timers, outcome,
                   exchange
  <2>2. ExchangeTyped'
    BY <2>0, SameExchange
  <2>3. net' \in [Actors -> Messages']
    <3>1. CASE TimerFires(t)
      <4>1. exId \in 1..Len(ex)
        BY <3>1 DEF TimerFires, NoneBefore, IInv, SingleDriver
      <4>2. CASE net' = net
        BY <2>0, <4>2, SameExchange
      <4>3. CASE SendCancel(t)
        BY <1>0, <2>0, <4>3, CancelTyped
      <4>4. CASE Send(t, [kind |-> "fetch", id |-> exId])
        BY <1>0, <2>0, <4>1, <4>4, Sendable, SendTyped
      <4>5. QED
        BY <3>1, <4>2, <4>3, <4>4 DEF TimerFires, BeginCheck
    <3>2. CASE GaveUp(t) \/ CheckFailed(t) \/ CheckCanceled(t)
      BY <1>0, <2>0, <3>2, Sendable, SendTyped
         DEF GaveUp, CheckFailed, CheckCanceled, Consume
    <3>3. CASE Resubmit(t)
      BY <2>0, <3>3, SameExchange DEF Resubmit
    <3>4. QED
      BY <1>2, <3>1, <3>2, <3>3 DEF CheckStep
  <2>4. NoneBefore'
    <3>1. exId # 0
      BY <1>2 DEF CheckStep, TimerFires, GaveUp, CheckFailed, CheckCanceled, Resubmit,
                  NoneBefore, IInv, SingleDriver
    <3>2. exId' = exId
      BY <1>2 DEF CheckStep, TimerFires, GaveUp, CheckFailed, CheckCanceled, Resubmit, order
    <3>3. QED
      BY <3>1, <3>2 DEF NoneBefore
  <2>5. QED
    BY <2>1, <2>2, <2>3, <2>4, TypesNext
<1>3. QED
  BY <1>1, <1>2

\* cancelOrder() keeps the types.
LEMMA UserTypes == ASSUME Types, IInv, IInv', UserStep PROVE Types'
<1> USE OrderExecutorAssumption DEF Types, TypeOK
<1>1. ex' = ex /\ User \in Actors
  BY DEF UserStep, CancelCalled, CancelReturnsTrue, CancelReturnsFalse, exchange, Actors
<1>2. ExchangeTyped'
  BY <1>1, SameExchange
<1>3. OrderTyped'
  BY <1>1 DEF UserStep, CancelCalled, CancelReturnsTrue, CancelReturnsFalse, ClearMonitor,
              OrderTyped, Final, order, timers
<1>4. OutcomeTyped'
  <2>1. CASE CancelCalled
    <3>1. plan' = plan /\ cancels' \in 0..plan.cancels
      BY <2>1 DEF CancelCalled, AllPlans
    <3>2. UNCHANGED <<outcome, exchange>>
      BY <2>1 DEF CancelCalled
    <3>3. QED
      BY <3>1, <3>2, Zenon DEF OutcomeTyped, outcome, exchange
  <2>2. CASE CancelReturnsTrue
    <3>1. /\ canceled' = TRUE
          /\ UNCHANGED <<answer, filledEvents, rateRetries, faults, cancels, plan>>
      BY <2>2 DEF CancelReturnsTrue, exchange
    <3>2. QED
      BY <3>1, Zenon DEF OutcomeTyped
  <2>3. CASE CancelReturnsFalse
    BY <2>3, Zenon DEF CancelReturnsFalse, OutcomeTyped, outcome, exchange
  <2>4. QED
    BY <2>1, <2>2, <2>3 DEF UserStep
<1>5. net' \in [Actors -> Messages']
  <2>1. CASE CancelCalled
    BY <1>1, <2>1, CancelTyped DEF CancelCalled
  <2>2. CASE CancelReturnsTrue \/ CancelReturnsFalse
    BY <1>1, <2>2, Sendable, SendTyped DEF CancelReturnsTrue, CancelReturnsFalse, Consume
  <2>3. QED
    BY <2>1, <2>2 DEF UserStep
<1>6. NoneBefore'
  <2>1. exId' = exId /\ monitor' \in {monitor, "none"}
    BY DEF UserStep, CancelCalled, CancelReturnsTrue, CancelReturnsFalse, ClearMonitor, order,
           timers
  <2>2. \A a \in Threads : pc'[a] = pc[a]
    BY DEF UserStep, CancelCalled, CancelReturnsTrue, CancelReturnsFalse, Goto, Actors,
           Threads, Main, User
  <2>3. QED
    BY <2>1, <2>2 DEF NoneBefore, Threads
<1>7. QED
  BY <1>2, <1>3, <1>4, <1>5, <1>6, TypesNext

-----------------------------------------------------------------------------
(* The steps of the exchange.                                              *)

\* The exchange keeps the types: it numbers its orders one after another.
LEMMA ExchangeTypes ==
    ASSUME Types, IInv, IInv', NEW a \in Actors, ExchangeStep(a) PROVE Types'
<1> USE OrderExecutorAssumption
<1>t. /\ net \in [Actors -> Messages] /\ ex \in Seq(ExchangeOrder) /\ Fillable
      /\ Len(ex) \in Nat /\ Amount \in Nat \ {0}
  BY DEF Types, TypeOK
<1>1. UNCHANGED <<order, timers, pc, outcome, cancels, plan>>
  BY DEF ExchangeStep, ExchangeCreate, ExchangeFetch, ExchangeCancel
<1>2. faults' \in 0..plan.faults
  BY DEF ExchangeStep, ExchangeCreate, ExchangeFetch, ExchangeCancel, Fail, Types, TypeOK,
         AllPlans
<1>3. OutcomeTyped'
  BY <1>1, <1>2 DEF OutcomeTyped, outcome, Types, TypeOK
<1>4. NoneBefore'
  BY <1>1 DEF NoneBefore, order, timers, Types
<1>5. ASSUME Len(ex') \in Nat, Len(ex') >= Len(ex) PROVE OrderTyped'
  BY <1>1, <1>5, <1>t DEF OrderTyped, Types, TypeOK, order, timers
<1>6. CASE ExchangeCreate(a)
  <2> DEFINE new == [state |-> "open", amount |-> net[a].amount, filled |-> 0, seen |-> 0]
  <2>1. new \in ExchangeOrder /\ new.filled < new.amount
    <3>1. net[a].amount \in 1..Amount
      BY <1>6, <1>t, Carried DEF ExchangeCreate
    <3>2. QED
      BY <3>1 DEF ExchangeOrder
  <2>2. CASE ex' = Append(ex, new)
    <3> HIDE DEF new
    <3>1. /\ ex' \in Seq(ExchangeOrder) /\ Len(ex') = Len(ex) + 1
          /\ \A j \in 1..Len(ex) : ex'[j] = ex[j]
          /\ ex'[Len(ex) + 1] = new
      BY <1>t, <2>1, <2>2
    <3>2. Fillable'
      BY <1>t, <2>1, <3>1 DEF Fillable
    <3>3. ExchangeTyped'
      BY <3>1, <3>2 DEF ExchangeTyped, ExchangeOrder
    <3>4. net' \in [Actors -> Messages']
      <4>1. [kind |-> "created", id |-> Len(ex) + 1] \in Messages'
        BY <1>t, <3>1 DEF Messages
      <4>2. [kind |-> "error", error |-> "network"] \in Messages'
        BY DEF Messages
      <4>3. TypeOK /\ Len(ex') \in Nat /\ Len(ex') >= Len(ex)
        BY <1>t, <3>1 DEF Types
      <4>4. CASE Send(a, [kind |-> "created", id |-> Len(ex) + 1])
        BY <4>1, <4>3, <4>4, SendKeeps
      <4>5. CASE Send(a, [kind |-> "error", error |-> "network"])
        BY <4>2, <4>3, <4>5, SendKeeps
      <4>6. CASE ex' = ex
        BY <1>t, <3>1, <4>6
      <4>7. QED
        BY <1>6, <4>4, <4>5, <4>6 DEF ExchangeCreate
    <3>5. QED
      BY <1>3, <1>4, <1>5, <1>t, <3>1, <3>3, <3>4, TypesNext
  <2>3. CASE ex' = ex /\ \E e \in {"rateLimit", "nonce", "rejected", "network"} :
                            Send(a, [kind |-> "error", error |-> e])
    BY <1>3, <1>4, <1>5, <1>t, <2>3, SameExchange, Sendable, SendTyped, TypesNext
  <2>4. QED
    BY <1>6, <2>2, <2>3 DEF ExchangeCreate, Accepted
<1>7. CASE ExchangeFetch(a)
  <2>1. ex' = ex
    BY <1>7 DEF ExchangeFetch
  <2>2. net[a].id \in 1..Len(ex)
    BY <1>7, <1>t, Carried DEF ExchangeFetch
  <2>3. net' \in [Actors -> Messages']
    BY <1>7, <2>1, <2>2, Sendable, SendTyped DEF ExchangeFetch
  <2>4. QED
    BY <1>3, <1>4, <1>5, <1>t, <2>1, <2>3, SameExchange, TypesNext
<1>8. CASE ExchangeCancel(a)
  <2>1. net[a].id \in 1..Len(ex)
    BY <1>8, <1>t, Carried DEF ExchangeCancel
  <2>2. /\ ex' \in Seq(ExchangeOrder) /\ Len(ex') = Len(ex) /\ Fillable'
    <3>1. CASE ex' = ex
      BY <1>t, <3>1 DEF Fillable
    <3>2. CASE ex' = [ex EXCEPT ![net[a].id] = [ex[net[a].id] EXCEPT !.state = "canceled"]]
      <4>1. ex[net[a].id] \in ExchangeOrder
        BY <1>t, <2>1
      <4>2. [ex[net[a].id] EXCEPT !.state = "canceled"] \in ExchangeOrder
        BY <4>1 DEF ExchangeOrder
      <4>3. ex' \in Seq(ExchangeOrder) /\ Len(ex') = Len(ex)
        BY <1>t, <2>1, <3>2, <4>2, Replaced
      <4>4. \A j \in 1..Len(ex) : ex'[j] = ex[j] \/ ex'[j].state = "canceled"
        BY <1>t, <3>2, <4>1 DEF ExchangeOrder
      <4>5. QED
        BY <1>t, <4>3, <4>4 DEF Fillable
    <3>3. QED
      BY <1>8, <3>1, <3>2 DEF ExchangeCancel, CanceledAt
  <2>3. net' \in [Actors -> Messages']
    <3>1. TypeOK /\ Len(ex') \in Nat /\ Len(ex') >= Len(ex)
      BY <1>t, <2>2 DEF Types
    <3>2. [kind |-> "canceled"] \in Messages' /\ [kind |-> "error", error |-> "network"] \in Messages'
      BY DEF Messages
    <3>3. QED
      BY <1>8, <3>1, <3>2, SendKeeps DEF ExchangeCancel
  <2>4. QED
    BY <1>3, <1>4, <1>5, <1>t, <2>2, <2>3, TypesNext DEF ExchangeTyped, ExchangeOrder
<1>9. QED
  BY <1>6, <1>7, <1>8 DEF ExchangeStep

\* An order that has filled further is an order.
LEMMA Filled ==
    ASSUME NEW o \in ExchangeOrder, NEW n \in 0..Amount, NEW s \in {"open", "closed"}
    PROVE  [o EXCEPT !.filled = n, !.state = s] \in ExchangeOrder
BY DEF ExchangeOrder

(* A trade fills one unit of an open order, and closes it when none is left. *)
LEMMA TradeTypes ==
    ASSUME Types, IInv, IInv', NEW i \in 1..Len(ex), Trade(i) PROVE Types'
<1> USE OrderExecutorAssumption
<1>t. /\ net \in [Actors -> Messages] /\ ex \in Seq(ExchangeOrder) /\ Fillable
      /\ Len(ex) \in Nat /\ Amount \in Nat \ {0} /\ ex[i] \in ExchangeOrder
  BY DEF Types, TypeOK
<1>1. UNCHANGED <<order, timers, pc, net, outcome, faults, cancels, plan>>
  BY DEF Trade
<1> DEFINE traded == [ex[i] EXCEPT !.filled = ex[i].filled + 1,
                                   !.state = IF ex[i].filled + 1 = ex[i].amount
                                             THEN "closed" ELSE "open"]
<1>2. ex' = [ex EXCEPT ![i] = traded]
  BY <1>t DEF Trade, ExchangeOrder
<1>3. traded \in ExchangeOrder /\ (traded.state = "open" => traded.filled < traded.amount)
  <2>1. /\ ex[i].filled < ex[i].amount
        /\ ex[i].filled \in 0..Amount /\ ex[i].amount \in 1..Amount
        /\ ex[i].seen \in 0..Amount
    BY <1>t DEF Trade, Fillable, ExchangeOrder
  <2>2. ex[i].filled + 1 \in 0..Amount
    BY <1>t, <2>1
  <2>3. traded \in ExchangeOrder
    BY <1>t, <2>2, Filled
  <2>4. traded.state = "open" => traded.filled < traded.amount
    <3>1. /\ traded.filled = ex[i].filled + 1 /\ traded.amount = ex[i].amount
          /\ traded.state = "open" => ex[i].filled + 1 # ex[i].amount
      BY <1>t DEF ExchangeOrder
    <3> HIDE DEF traded
    <3>2. QED
      BY <1>t, <2>1, <3>1
  <2>5. QED
    BY <2>3, <2>4
<1> HIDE DEF traded
<1>4. ex' \in Seq(ExchangeOrder) /\ Len(ex') = Len(ex)
  BY <1>t, <1>2, <1>3, Replaced
<1>5. Fillable'
  BY <1>t, <1>2, <1>3, <1>4 DEF Fillable
<1>6. OrderTyped' /\ OutcomeTyped' /\ NoneBefore'
  BY <1>1, <1>4 DEF Types, TypeOK, OrderTyped, OutcomeTyped, NoneBefore, order, timers, outcome
<1>7. net' \in [Actors -> Messages']
  BY <1>1, <1>4, <1>t DEF Messages, ExchangeOrder
<1>8. QED
  BY <1>4, <1>5, <1>6, <1>7, TypesNext DEF ExchangeTyped, ExchangeOrder

(* Types are kept by every step.                                           *)
LEMMA TypesStep == Types /\ IInv /\ IInv' /\ [Next]_vars => Types'
<1> SUFFICES ASSUME Types, IInv, IInv', [Next]_vars PROVE Types'
  OBVIOUS
<1>1. CASE Start
  BY <1>1, SameExchange, TypesNext, TypesParts
     DEF Start, Goto, NoneBefore, OrderTyped, OutcomeTyped, order, timers, outcome, exchange,
         Types, TypeOK, Actors, Threads
<1>2. CASE QueueTimeout
  BY <1>2, SameExchange, TypesNext, TypesParts
     DEF QueueTimeout, NoneBefore, OrderTyped, OutcomeTyped, order, timers, exchange
<1>3. ASSUME NEW t \in Threads, LoopStep(t) PROVE Types'
  BY <1>3, LoopTypes
<1>4. ASSUME NEW t \in Checks, CheckStep(t) PROVE Types'
  BY <1>4, CheckTypes
<1>5. CASE UserStep
  BY <1>5, UserTypes
<1>6. ASSUME NEW a \in Actors, ExchangeStep(a) PROVE Types'
  BY <1>6, ExchangeTypes
<1>7. ASSUME NEW i \in 1..Len(ex), Trade(i) PROVE Types'
  BY <1>7, TradeTypes
<1>8. CASE UNCHANGED vars
  BY <1>8, SameExchange, TypesNext, TypesParts
     DEF vars, NoneBefore, OrderTyped, OutcomeTyped, order, timers, outcome, exchange
<1>9. QED
  BY <1>1, <1>2, <1>3, <1>4, <1>5, <1>6, <1>7, <1>8 DEF Next

(* Every variable keeps its type, and with it the bounds it names: the     *)
(* amount never reaches zero, a message names an order that exists.        *)
THEOREM Typing == Spec => []TypeOK
<1>1. Init => IInv /\ Types
  BY Initial, InitTypes
<1>2. (IInv /\ Types) /\ [Next]_vars => (IInv /\ Types)'
  BY Inductive, TypesStep
<1>3. IInv /\ Types => TypeOK
  BY DEF Types
<1>4. QED
  BY <1>1, <1>2, <1>3, PTL DEF Spec

-----------------------------------------------------------------------------
(* What is on its way fits the place of who waits for it.                  *)

\* At first nothing is on its way and nothing is open.
LEMMA InitFit == Init => MessagesFit /\ OpenIsKnown /\ QueuedIsNew
BY DEF Init, MessagesFit, Fits, Quiet, OpenIsKnown, OpenOrders, QueuedIsNew, Actors, Threads,
       Main, User

(* A handler of t changes nobody else's place or messages.                 *)
LEMMA OthersFit ==
    ASSUME Types, IInv, MessagesFit, NEW t \in Threads,
           LoopStep(t) \/ (t \in Checks /\ CheckStep(t)) \/ (t = Main /\ Start)
    PROVE  /\ \A u \in Actors : u # t => pc'[u] = pc[u] /\ net'[u] = net[u]
           /\ \A u \in Threads : u # t => Fits(u)'
           /\ net'[User].kind \in {"none", "cancel", "canceled", "error"}
<1> USE OrderExecutorAssumption DEF Types, TypeOK
<1>0. /\ t \in Actors /\ t # User /\ User \in Actors
      /\ \A u \in Threads : u \in Actors /\ u # User
  BY DEF Actors, Threads, Main, User
<1>1. \A u \in Actors : u # t => pc'[u] = pc[u] /\ net'[u] = net[u]
  BY <1>0 DEF LoopStep, CheckStep, Start, SendCreate, Created, CreateFailed, PollFilled,
         PollFailed, PollTimeout, TimerFires, BeginCheck, GaveUp, Fetched, CheckFailed,
         CheckCanceled, Resubmit, Throw, RetryOrThrow, Goto, Send, Consume, SendCancel
<1>2. exId' = exId \/ (Created(t) /\ pc[t] = "creating")
  BY DEF LoopStep, CheckStep, Start, SendCreate, Created, CreateFailed, PollFilled,
         PollFailed, PollTimeout, TimerFires, GaveUp, Fetched, CheckFailed,
         CheckCanceled, Resubmit, Throw, RetryOrThrow, order
<1>3. ASSUME NEW u \in Threads, u # t PROVE Fits(u)'
  <2>1. CASE exId' = exId
    BY <1>0, <1>1, <1>3, <2>1 DEF MessagesFit, Fits
  <2>2. CASE pc[t] = "creating"
    <3>1. pc[u] \notin Driving
      BY <1>3, <2>2 DEF IInv, SingleDriver, Drivers, Driving
    <3>2. QED
      BY <1>0, <1>1, <1>3, <3>1 DEF MessagesFit, Fits, Driving
  <2>3. QED
    BY <1>2, <2>1, <2>2
<1>4. QED
  BY <1>0, <1>1, <1>3 DEF MessagesFit

(* The thread that runs gets what fits the place where it goes on.         *)
LEMMA RunnerFits ==
    ASSUME Types, IInv, MessagesFit, NEW t \in Threads,
           LoopStep(t) \/ (t \in Checks /\ CheckStep(t)) \/ (t = Main /\ Start)
    PROVE  Fits(t)'
<1> USE OrderExecutorAssumption DEF Types, TypeOK
<1>0. t \in Actors /\ Fits(t)
  BY DEF Actors, MessagesFit
<1>1. CASE SendCreate(t) \/ Created(t)
  BY <1>0, <1>1 DEF SendCreate, Created, Goto, Send, Consume, Quiet, Fits
<1>2. CASE CreateFailed(t)
  <2>1. pc'[t] \in {"retry", "done", "idle"} /\ net'[t].kind = "none"
    BY <1>0, <1>2 DEF CreateFailed, Throw, RetryOrThrow, Goto, Send, Consume, Quiet
  <2>2. QED
    BY <2>1 DEF Fits
<1>3. CASE PollFilled(t) \/ PollFailed(t) \/ PollTimeout(t)
  <2>1. pc'[t] \in {"retry", "done", "idle"} /\ net'[t].kind = "none"
    BY <1>0, <1>3 DEF PollFilled, PollFailed, PollTimeout, Throw, RetryOrThrow, Goto, Fits
  <2>2. QED
    BY <2>1 DEF Fits
<1>4. CASE t \in Checks /\ TimerFires(t)
  <2>0. exId' = exId /\ pc[t] = "idle" /\ net[t].kind = "none"
    BY <1>0, <1>4 DEF TimerFires, order, Fits
  <2>1. CASE pc' = pc /\ net' = net
    BY <2>0, <2>1 DEF Fits
  <2>2. CASE Goto(t, "failing") /\ SendCancel(t)
    <3>1. pc'[t] = "failing"
      BY <1>0, <2>2 DEF Goto
    <3>2. \/ net'[t] = [kind |-> "canceled"]
          \/ net'[t] = [kind |-> "cancel", id |-> exId]
      BY <1>0, <2>2 DEF SendCancel, Send
    <3>3. QED
      BY <2>0, <3>1, <3>2 DEF Fits
  <2>3. CASE Goto(t, "fetching") /\ Send(t, [kind |-> "fetch", id |-> exId])
    BY <1>0, <2>3 DEF Goto, Send, Fits
  <2>4. QED
    BY <1>4, <2>1, <2>2, <2>3 DEF TimerFires, BeginCheck
<1>5. CASE GaveUp(t) \/ CheckFailed(t) \/ CheckCanceled(t)
  <2>1. pc'[t] \in {"idle", "pricing"} /\ net'[t].kind = "none"
    BY <1>0, <1>5 DEF GaveUp, CheckFailed, CheckCanceled, Goto, Send, Consume, Quiet
  <2>2. QED
    BY <2>1 DEF Fits
<1>6. CASE Fetched(t)
  <2>0. exId' = exId
    BY <1>6 DEF Fetched
  <2>1. CASE Goto(t, "idle") /\ Consume(t)
    BY <1>0, <2>1 DEF Goto, Send, Consume, Quiet, Fits
  <2>2. CASE Goto(t, "canceling") /\ SendCancel(t)
    <3>1. pc'[t] = "canceling"
      BY <1>0, <2>2 DEF Goto
    <3>2. \/ net'[t] = [kind |-> "canceled"]
          \/ net'[t] = [kind |-> "cancel", id |-> exId]
      BY <1>0, <2>2 DEF SendCancel, Send
    <3>3. QED
      BY <2>0, <3>1, <3>2 DEF Fits
  <2>3. QED
    BY <1>6, <2>1, <2>2 DEF Fetched
<1>7. CASE Resubmit(t) \/ (t = Main /\ Start)
  BY <1>0, <1>7 DEF Resubmit, Start, Goto, Fits
<1>8. QED
  BY <1>1, <1>2, <1>3, <1>4, <1>5, <1>6, <1>7 DEF LoopStep, CheckStep

(* The exchange answers with what fits the call.                           *)
LEMMA AnswersFit ==
    ASSUME Types, IInv, MessagesFit, NEW a \in Actors, ExchangeStep(a)
    PROVE  MessagesFit'
<1> USE OrderExecutorAssumption DEF Types, TypeOK
<1>0. /\ \A t \in Threads : t \in Actors /\ t # User
      /\ User \in Actors /\ (a = User \/ a \in Threads)
  BY DEF Actors, Threads, Main, User
<1>1. pc' = pc /\ exId' = exId
  BY DEF ExchangeStep, ExchangeCreate, ExchangeFetch, ExchangeCancel, order
<1>2. \A b \in Actors : b # a => net'[b] = net[b]
  BY DEF ExchangeStep, ExchangeCreate, ExchangeFetch, ExchangeCancel, Send
<1>3. /\ net[a].kind = "create" => net'[a].kind \in {"created", "error"}
      /\ net[a].kind = "fetch" => net'[a].kind \in {"snapshot", "error"}
      /\ net[a].kind = "cancel" => net'[a].kind \in {"canceled", "error"}
      /\ net[a].kind \in {"create", "fetch", "cancel"}
  BY DEF ExchangeStep, ExchangeCreate, ExchangeFetch, ExchangeCancel, Send
<1>4. ASSUME NEW t \in Threads PROVE Fits(t)'
  <2>1. Fits(t)
    BY DEF MessagesFit
  <2>2. CASE t = a
    BY <1>1, <1>3, <2>1, <2>2 DEF Fits
  <2>3. CASE t # a
    BY <1>0, <1>1, <1>2, <2>1, <2>3 DEF Fits
  <2>4. QED
    BY <2>2, <2>3
<1>5. net'[User].kind \in {"none", "cancel", "canceled", "error"}
  BY <1>0, <1>2, <1>3 DEF MessagesFit
<1>6. QED
  BY <1>4, <1>5 DEF MessagesFit

\* a step that leaves the threads, their messages and the executor's number alone
Apart == /\ \A t \in Threads : pc'[t] = pc[t] /\ net'[t] = net[t]
         /\ exId' = exId

\* cancelOrder() moves no thread.
LEMMA UserApart == ASSUME Types, UserStep PROVE Apart
<1> USE OrderExecutorAssumption DEF Types, TypeOK
<1>1. \A t \in Threads : t \in Actors /\ t # User
  BY DEF Actors, Threads, Main, User
<1>2. QED
  BY <1>1 DEF Apart, UserStep, CancelCalled, CancelReturnsTrue, CancelReturnsFalse, Goto, Send,
              Consume, SendCancel, order

\* Every step keeps what is on its way in its place.
LEMMA FitStep ==
    Types /\ IInv /\ MessagesFit /\ QueuedIsNew /\ [Next]_vars => MessagesFit' /\ QueuedIsNew'
<1> SUFFICES ASSUME Types, IInv, MessagesFit, QueuedIsNew, [Next]_vars
             PROVE  MessagesFit' /\ QueuedIsNew'
  OBVIOUS
<1> USE OrderExecutorAssumption
<1>0. Main \in Threads /\ \A t \in Checks : t \in Threads
  BY DEF Threads
<1>1. ASSUME NEW t \in Threads,
             LoopStep(t) \/ (t \in Checks /\ CheckStep(t)) \/ (t = Main /\ Start)
      PROVE  MessagesFit' /\ QueuedIsNew'
  <2>1. MessagesFit'
    BY <1>1, OthersFit, RunnerFits DEF MessagesFit
  <2>2. QueuedIsNew'
    <3>1. pc'[Main] = "queued" => pc[Main] = "queued"
      <4>1. CASE t = Main
        BY <1>1, <4>1 DEF LoopStep, Start, SendCreate, Created, CreateFailed, PollFilled,
           PollFailed, PollTimeout, Throw, RetryOrThrow, Goto, Types, TypeOK, Main, Actors
      <4>2. CASE t # Main
        BY <1>1, <4>2, OthersFit DEF Actors, Threads
      <4>3. QED
        BY <4>1, <4>2
    <3>2. exId' = exId \/ (Created(t) /\ pc[t] = "creating")
      BY <1>1 DEF LoopStep, CheckStep, Start, SendCreate, Created, CreateFailed, PollFilled,
             PollFailed, PollTimeout, TimerFires, GaveUp, Fetched, CheckFailed,
             CheckCanceled, Resubmit, Throw, RetryOrThrow, order
    <3>3. pc[t] = "creating" => pc[Main] # "queued"
      BY DEF IInv, AloneAtFirst, Threads
    <3>4. QED
      BY <3>1, <3>2, <3>3 DEF QueuedIsNew
  <2>3. QED
    BY <2>1, <2>2
<1>2. CASE UserStep
  <2>1. Apart
    BY <1>2, UserApart
  <2>2. net'[User].kind \in {"none", "cancel", "canceled", "error"}
    BY <1>2 DEF UserStep, CancelCalled, CancelReturnsTrue, CancelReturnsFalse, Send, Consume,
                Quiet, SendCancel, Types, TypeOK, Actors
  <2>3. QED
    BY <1>0, <2>1, <2>2 DEF Apart, MessagesFit, Fits, QueuedIsNew
<1>3. ASSUME NEW a \in Actors, ExchangeStep(a) PROVE MessagesFit' /\ QueuedIsNew'
  BY <1>3, AnswersFit
     DEF ExchangeStep, ExchangeCreate, ExchangeFetch, ExchangeCancel, QueuedIsNew, order
<1>4. CASE QueueTimeout \/ (\E i \in 1..Len(ex) : Trade(i)) \/ UNCHANGED vars
  BY <1>4 DEF QueueTimeout, Trade, vars, order, MessagesFit, Fits, QueuedIsNew
<1>5. QED
  BY <1>0, <1>1, <1>2, <1>3, <1>4 DEF Next

-----------------------------------------------------------------------------
(* Who knows of an open order.                                             *)

\* the invariant of the theorem below
Watched == Types /\ IInv /\ MessagesFit /\ QueuedIsNew /\ OpenIsKnown

\* nothing is submitted and nothing opened again
NothingNew == OpenOrders' \subseteq OpenOrders

(* The handlers open nothing: only the number of what was seen changes.    *)
LEMMA HandlersOpenNothing ==
    ASSUME Types, NEW t \in Threads,
           LoopStep(t) \/ (t \in Checks /\ CheckStep(t)) \/ (t = Main /\ Start)
    PROVE  NothingNew
<1>t. net \in [Actors -> Messages] /\ ex \in Seq(ExchangeOrder)
  BY DEF Types, TypeOK
<1>1. CASE ex' = ex
  BY <1>1 DEF NothingNew, OpenOrders
<1>2. CASE Fetched(t)
  <2>1. net[t].id \in 1..Len(ex)
    BY <1>2, <1>t, Carried DEF Fetched, AnsweredWith, Actors
  <2> DEFINE n == net[t].order.filled
  <2>2. ex' = [ex EXCEPT ![net[t].id] = [ex[net[t].id] EXCEPT !.seen = n]]
    BY <1>2 DEF Fetched
  <2> HIDE DEF n
  <2>3. Len(ex') = Len(ex)
    BY <1>t, <2>1, <2>2
  <2>4. ASSUME NEW j \in 1..Len(ex) PROVE ex'[j].state = ex[j].state
    <3>1. ex[j] \in ExchangeOrder
      BY <1>t
    <3>2. ex'[j] = IF j = net[t].id THEN [ex[j] EXCEPT !.seen = n] ELSE ex[j]
      BY <1>t, <2>2
    <3>3. [ex[j] EXCEPT !.seen = n].state = ex[j].state
      BY <3>1 DEF ExchangeOrder
    <3>4. QED
      BY <3>2, <3>3
  <2>5. QED
    BY <2>3, <2>4 DEF NothingNew, OpenOrders
<1>3. QED
  BY <1>1, <1>2 DEF LoopStep, CheckStep, Start, SendCreate, Created, CreateFailed, PollFilled,
     PollFailed, PollTimeout, TimerFires, GaveUp, CheckFailed, CheckCanceled, Resubmit, exchange

(* The order whose number the executor has is still the one, as long as    *)
(* nobody goes on to submit another.                                       *)
LEMMA KnownStays ==
    ASSUME Watched, NEW t \in Threads,
           LoopStep(t) \/ (t \in Checks /\ CheckStep(t)) \/ (t = Main /\ Start),
           NEW i \in OpenOrders, Known(i)
    PROVE  Known(i)'
<1> USE OrderExecutorAssumption DEF Watched, Types, TypeOK
<1>0. t \in Actors /\ i # 0
  BY DEF Actors, OpenOrders
<1>1. ASSUME exId' = exId, pc'[t] \notin {"retry", "creating", "pricing"},
             pc'[t] = "canceling" => net'[t].kind # "canceled"
      PROVE  Known(i)'
  <2>1. ASSUME NEW u \in Threads
        PROVE  /\ pc'[u] \notin {"retry", "creating", "pricing"}
               /\ pc'[u] = "canceling" => net'[u].kind # "canceled"
    <3>1. CASE u = t
      BY <1>1, <3>1
    <3>2. CASE u # t
      BY <3>2, OthersFit DEF Known, Actors
    <3>3. QED
      BY <3>1, <3>2
  <2>2. QED
    BY <1>1, <2>1 DEF Known
<1>2. pc[t] \notin {"retry", "creating", "pricing"} /\ i = exId
  BY DEF Known
<1>3. CASE PollFilled(t) \/ PollTimeout(t) \/ GaveUp(t) \/ CheckFailed(t)
  BY <1>0, <1>1, <1>3 DEF PollFilled, PollTimeout, GaveUp, CheckFailed, Goto, order
<1>4. CASE PollFailed(t)
  <2>1. ~(resubmitCount < MaxResubmit)
    BY <1>4 DEF PollFailed, IInv, FailedIsOver, PlacesOK
  <2>2. exId' = exId /\ pc'[t] \in {"done", "idle"}
    BY <1>0, <1>4, <2>1 DEF PollFailed, RetryOrThrow, Throw, Goto
  <2>3. QED
    BY <1>1, <2>2
<1>5. CASE t \in Checks /\ TimerFires(t)
  BY <1>0, <1>1, <1>5 DEF TimerFires, BeginCheck, Goto, order
<1>6. CASE Fetched(t)
  <2>1. exId' = exId
    BY <1>6 DEF Fetched
  <2>2. CASE Goto(t, "idle")
    BY <1>0, <1>1, <2>1, <2>2 DEF Goto
  <2>3. CASE Goto(t, "canceling") /\ SendCancel(t)
    <3>1. pc'[t] = "canceling" /\ net'[t] = [kind |-> "cancel", id |-> exId]
      BY <1>0, <1>2, <2>3 DEF Goto, SendCancel, Send
    <3>2. QED
      BY <1>1, <2>1, <3>1
  <2>4. QED
    BY <1>6, <2>2, <2>3 DEF Fetched
<1>7. CASE t = Main /\ Start
  BY <1>0, <1>2, <1>7 DEF Start, QueuedIsNew
<1>8. QED
  BY <1>2, <1>3, <1>4, <1>5, <1>6, <1>7
     DEF LoopStep, CheckStep, SendCreate, Created, CreateFailed, CheckCanceled, Resubmit, Known,
         AnsweredWith

(* An order on its way to the executor is taken by the thread that sent    *)
(* for it, and by no other.                                                *)
LEMMA ArrivingTaken ==
    ASSUME Watched, NEW t \in Threads,
           LoopStep(t) \/ (t \in Checks /\ CheckStep(t)) \/ (t = Main /\ Start),
           NEW i \in OpenOrders, Arriving(i)
    PROVE  Known(i)' \/ Arriving(i)'
<1> USE OrderExecutorAssumption DEF Watched, Types, TypeOK
<1>1. PICK u \in Threads : pc[u] = "creating" /\ net[u].kind = "created" /\ net[u].id = i
  BY DEF Arriving
<1>2. \A v \in Threads : v # u => pc[v] \notin Driving
  BY <1>1 DEF IInv, SingleDriver, Drivers, Driving
<1>3. CASE u # t
  BY <1>1, <1>3, OthersFit DEF Arriving, Actors
<1>4. CASE u = t
  <2>1. Created(t)
    BY <1>1, <1>4 DEF LoopStep, CheckStep, Start, SendCreate, CreateFailed, PollFilled,
       PollFailed, PollTimeout, TimerFires, GaveUp, Fetched, CheckFailed, CheckCanceled,
       Resubmit, AnsweredWith
  <2>2. exId' = i /\ pc'[t] = "waiting"
    BY <1>1, <1>4, <2>1 DEF Created, Goto, Actors
  <2>3. \A v \in Threads : v # t => pc'[v] \notin Driving
    BY <1>2, <1>4, OthersFit DEF Actors
  <2>4. QED
    BY <2>2, <2>3 DEF Known, Driving
<1>5. QED
  BY <1>3, <1>4

(* A step that opens nothing, and changes neither who runs nor the answers *)
(* that say where an open order is, leaves every open order watched.       *)
LEMMA OthersWatch ==
    ASSUME OpenIsKnown, NothingNew, exId' = exId,
           \A t \in Threads : pc'[t] = pc[t],
           \A i \in OpenOrders', t \in Threads :
              \/ net'[t] = net[t]
              \/ /\ pc[t] # "canceling" \/ (exId = i => net'[t].kind # "canceled")
                 /\ pc[t] # "creating"
    PROVE  OpenIsKnown'
<1> SUFFICES ASSUME NEW i \in OpenOrders' PROVE Known(i)' \/ Arriving(i)'
  BY DEF OpenIsKnown
<1>1. i \in OpenOrders
  BY DEF NothingNew
<1>2. CASE Known(i)
  BY <1>2 DEF Known
<1>3. CASE Arriving(i)
  BY <1>3 DEF Arriving
<1>4. QED
  BY <1>1, <1>2, <1>3 DEF OpenIsKnown

(* An order is submitted only when nothing is open, and unless its answer  *)
(* is lost its number is on its way to who submitted it.                   *)
LEMMA CreateWatched ==
    ASSUME NothingLost, Watched, NEW a \in Actors, ExchangeCreate(a)
    PROVE  OpenIsKnown'
<1>t. net \in [Actors -> Messages] /\ ex \in Seq(ExchangeOrder)
  BY DEF Watched, Types, TypeOK
<1>1. a \in Threads /\ pc[a] = "creating" /\ net[a].kind = "create"
  BY DEF Watched, MessagesFit, Fits, ExchangeCreate, Actors
<1>2. OpenOrders = {}
  <2>1. ASSUME NEW i \in OpenOrders PROVE FALSE
    <3>1. ~Known(i)
      BY <1>1 DEF Known
    <3>2. PICK u \in Threads : pc[u] = "creating" /\ net[u].kind = "created"
      BY <2>1, <3>1 DEF Watched, OpenIsKnown, Arriving
    <3>3. u = a
      BY <1>1, <3>2 DEF Watched, IInv, SingleDriver, Drivers, Driving
    <3>4. QED
      BY <1>1, <3>2, <3>3
  <2>2. QED
    BY <2>1
<1>3. CASE ex' = ex
  BY <1>2, <1>3 DEF OpenIsKnown, OpenOrders
<1>4. CASE /\ ex' = Accepted(a)
           /\ Send(a, [kind |-> "created", id |-> Len(ex) + 1])
  <2> DEFINE new == [state |-> "open", amount |-> net[a].amount, filled |-> 0, seen |-> 0]
  <2>1. ex' = Append(ex, new)
    BY <1>4 DEF Accepted
  <2> HIDE DEF new
  <2>2. Len(ex') = Len(ex) + 1 /\ \A j \in 1..Len(ex) : ex'[j] = ex[j]
    BY <1>t, <2>1
  <2>3. \A i \in OpenOrders' : i = Len(ex) + 1
    BY <1>t, <1>2, <2>2 DEF OpenOrders
  <2>4. net'[a].kind = "created" /\ net'[a].id = Len(ex) + 1 /\ pc'[a] = "creating"
    BY <1>t, <1>1, <1>4 DEF Send, ExchangeCreate
  <2>5. QED
    BY <1>1, <2>3, <2>4 DEF OpenIsKnown, Arriving
<1>5. ~Fail("lost")
  BY DEF Fail, NothingLost, Watched, Types, TypeOK
<1>6. QED
  BY <1>3, <1>4, <1>5 DEF ExchangeCreate

(* The answer to fetchOrder() is of no open order's way.                   *)
LEMMA FetchWatched ==
    ASSUME Watched, NEW a \in Actors, ExchangeFetch(a) PROVE OpenIsKnown'
<1>t. net \in [Actors -> Messages]
  BY DEF Watched, Types, TypeOK
<1>1. /\ ex' = ex /\ pc' = pc /\ exId' = exId
      /\ \A t \in Threads : t # a => net'[t] = net[t]
      /\ net'[a].kind \in {"snapshot", "error"} /\ net[a].kind = "fetch"
  BY <1>t DEF ExchangeFetch, Send, order, Actors
<1>2. a \in Threads => pc[a] = "fetching"
  BY <1>1 DEF Watched, MessagesFit, Fits
<1>3. QED
  BY <1>1, <1>2, OthersWatch DEF Watched, NothingNew, OpenOrders

(* Canceling closes the order it names, and opens none.                    *)
LEMMA CanceledCloses ==
    ASSUME ex \in Seq(ExchangeOrder), NEW n \in 1..Len(ex), ex' = CanceledAt(n)
    PROVE  NothingNew /\ n \notin OpenOrders'
<1>1. CASE ex[n].state # "open"
  BY <1>1 DEF CanceledAt, NothingNew, OpenOrders
<1>2. CASE ex[n].state = "open"
  <2>1. ex' = [ex EXCEPT ![n] = [ex[n] EXCEPT !.state = "canceled"]]
    BY <1>2 DEF CanceledAt
  <2>2. Len(ex') = Len(ex) /\ \A j \in 1..Len(ex) : j # n => ex'[j] = ex[j]
    BY <2>1
  <2>3. ex'[n] = [ex[n] EXCEPT !.state = "canceled"] /\ ex[n] \in ExchangeOrder
    BY <2>1
  <2>4. ex'[n].state = "canceled"
    BY <2>3 DEF ExchangeOrder
  <2>5. QED
    BY <2>2, <2>4 DEF NothingNew, OpenOrders
<1>3. QED
  BY <1>1, <1>2

(* A thread that hears that its order is canceled replaces an order that   *)
(* is no longer open.                                                      *)
LEMMA CancelWatched ==
    ASSUME Watched, NEW a \in Actors, ExchangeCancel(a) PROVE OpenIsKnown'
<1>t. net \in [Actors -> Messages] /\ ex \in Seq(ExchangeOrder)
  BY DEF Watched, Types, TypeOK
<1>1. /\ pc' = pc /\ exId' = exId
      /\ \A t \in Threads : t # a => net'[t] = net[t]
      /\ net[a].kind = "cancel" /\ net[a].id \in 1..Len(ex)
  BY <1>t, Carried DEF ExchangeCancel, Send, order, Actors
<1>2. a \in Threads => pc[a] \in {"canceling", "failing"} /\ net[a].id = exId
  BY <1>1 DEF Watched, MessagesFit, Fits
<1>3. NothingNew
  <2>1. CASE ex' = ex
    BY <2>1 DEF NothingNew, OpenOrders
  <2>2. QED
    BY <1>t, <1>1, <2>1, CanceledCloses DEF ExchangeCancel
<1>4. \/ net'[a].kind = "error"
      \/ ex' = CanceledAt(net[a].id)
  BY <1>t DEF ExchangeCancel, Send
<1>5. ex' = CanceledAt(net[a].id) => net[a].id \notin OpenOrders'
  BY <1>t, <1>1, CanceledCloses
<1>6. ASSUME NEW i \in OpenOrders', NEW t \in Threads
      PROVE  \/ net'[t] = net[t]
             \/ /\ pc[t] # "canceling" \/ (exId = i => net'[t].kind # "canceled")
                /\ pc[t] # "creating"
  BY <1>1, <1>2, <1>4, <1>5
<1>7. QED
  BY <1>1, <1>3, <1>6, OthersWatch DEF Watched

(* A trade opens nothing.                                                  *)
LEMMA TradeOpensNothing ==
    ASSUME Types, NEW n \in 1..Len(ex), Trade(n) PROVE NothingNew
<1> DEFINE later == [ex[n] EXCEPT !.filled = @ + 1,
                       !.state = IF ex[n].filled + 1 = ex[n].amount THEN "closed" ELSE "open"]
<1>t. ex \in Seq(ExchangeOrder)
  BY DEF Types, TypeOK
<1>1. ex' = [ex EXCEPT ![n] = later] /\ ex[n].state = "open"
  BY DEF Trade
<1> HIDE DEF later
<1>2. Len(ex') = Len(ex) /\ \A j \in 1..Len(ex) : j # n => ex'[j] = ex[j]
  BY <1>t, <1>1
<1>3. QED
  BY <1>1, <1>2 DEF NothingNew, OpenOrders

(* Every step leaves every open order watched, and the exchange with the   *)
(* one order that the executor knows or is about to know.                  *)
LEMMA WatchedStep ==
    ASSUME NothingLost PROVE Watched /\ [Next]_vars => Watched'
<1> SUFFICES ASSUME Watched, [Next]_vars PROVE Watched'
  OBVIOUS
<1>0. IInv' /\ Types' /\ MessagesFit' /\ QueuedIsNew'
  BY Inductive, TypesStep, FitStep DEF Watched
<1>s. SUFFICES OpenIsKnown'
  BY <1>0 DEF Watched
<1>m. Main \in Threads /\ \A t \in Checks : t \in Threads
  BY DEF Threads
<1>1. ASSUME NEW t \in Threads,
             LoopStep(t) \/ (t \in Checks /\ CheckStep(t)) \/ (t = Main /\ Start)
      PROVE  OpenIsKnown'
  <2>1. NothingNew
    BY <1>1, HandlersOpenNothing DEF Watched
  <2>2. ASSUME NEW i \in OpenOrders' PROVE Known(i)' \/ Arriving(i)'
    <3>1. i \in OpenOrders
      BY <2>1 DEF NothingNew
    <3>2. CASE Known(i)
      BY <1>1, <3>1, <3>2, KnownStays
    <3>3. CASE Arriving(i)
      BY <1>1, <3>1, <3>3, ArrivingTaken
    <3>4. QED
      BY <3>1, <3>2, <3>3 DEF Watched, OpenIsKnown
  <2>3. QED
    BY <2>2 DEF OpenIsKnown
<1>2. CASE UserStep
  <2>1. Apart /\ ex' = ex
    BY <1>2, UserApart
       DEF Watched, UserStep, CancelCalled, CancelReturnsTrue, CancelReturnsFalse, exchange
  <2>2. QED
    BY <2>1, OthersWatch DEF Watched, Apart, NothingNew, OpenOrders
<1>3. ASSUME NEW a \in Actors, ExchangeStep(a) PROVE OpenIsKnown'
  BY <1>3, CreateWatched, FetchWatched, CancelWatched DEF ExchangeStep
<1>4. ASSUME NEW n \in 1..Len(ex), Trade(n) PROVE OpenIsKnown'
  <2>1. NothingNew
    BY <1>4, TradeOpensNothing DEF Watched
  <2>2. pc' = pc /\ net' = net /\ exId' = exId
    BY <1>4 DEF Trade, order
  <2>3. QED
    BY <2>1, <2>2, OthersWatch DEF Watched
<1>5. CASE QueueTimeout \/ UNCHANGED vars
  <2>1. pc' = pc /\ net' = net /\ exId' = exId /\ ex' = ex
    BY <1>5 DEF QueueTimeout, vars, order, exchange
  <2>2. QED
    BY <2>1, OthersWatch DEF Watched, NothingNew, OpenOrders
<1>6. QED
  BY <1>m, <1>1, <1>2, <1>3, <1>4, <1>5 DEF Next

(* Two open orders would both be the one the executor knows, or on their   *)
(* way to the one thread that waits for an answer.                         *)
LEMMA WatchedIsOne == Watched => AtMostOneOpen
<1> SUFFICES ASSUME Watched PROVE AtMostOneOpen
  OBVIOUS
<1>1. ASSUME NEW i \in OpenOrders, NEW j \in OpenOrders PROVE i = j
  <2>1. CASE Known(i) /\ Known(j)
    BY <2>1 DEF Known
  <2>2. CASE Arriving(i) /\ Arriving(j)
    <3>1. PICK t \in Threads : pc[t] = "creating" /\ net[t].id = i
      BY <2>2 DEF Arriving
    <3>2. PICK u \in Threads : pc[u] = "creating" /\ net[u].id = j
      BY <2>2 DEF Arriving
    <3>3. t = u
      BY <3>1, <3>2 DEF Watched, IInv, SingleDriver, Drivers, Driving
    <3>4. QED
      BY <3>1, <3>2, <3>3
  <2>3. CASE (Known(i) /\ Arriving(j)) \/ (Arriving(i) /\ Known(j))
    BY <2>3 DEF Known, Arriving
  <2>4. QED
    BY <2>1, <2>2, <2>3 DEF Watched, OpenIsKnown
<1>2. CASE OpenOrders = {}
  <2>1. Cardinality(OpenOrders) = 0
    BY <1>2, FS_EmptySet
  <2>2. QED
    BY <2>1 DEF AtMostOneOpen
<1>3. CASE OpenOrders # {}
  <2>0. PICK i \in OpenOrders : TRUE
    BY <1>3
  <2>1. OpenOrders = {i}
    BY <1>1, <2>0
  <2>2. Cardinality(OpenOrders) = 1
    BY <2>1, FS_Singleton
  <2>3. QED
    BY <2>2 DEF AtMostOneOpen
<1>4. QED
  BY <1>2, <1>3

(* As long as no answer to an accepted createOrder() is lost, whatever     *)
(* else fails and however often the user cancels, the exchange never has   *)
(* two open orders for one order of executeSmartLimitOrder().              *)
THEOREM OneOpen == ASSUME NothingLost PROVE Spec => []AtMostOneOpen
<1>1. Init => Watched
  BY Initial, InitTypes, InitFit DEF Watched
<1>2. Watched /\ [Next]_vars => Watched'
  BY WatchedStep
<1>3. QED
  BY <1>1, <1>2, WatchedIsOne, PTL DEF Spec

-----------------------------------------------------------------------------
(* The fill is announced once.                                             *)

\* after the announcement nobody drives, nothing is due, and the order is
\* waited for or canceled, which no thread takes for a reason to go on
FilledIsOver ==
    /\ filledEvents \in {0, 1}
    /\ status = "filled" => filledEvents = 1
    /\ filledEvents = 1 => /\ Drivers = {} /\ monitor # "pending"
                           /\ pc[Main] # "queued"
                           /\ status \in {"filled", "canceled"}

\* The handlers of a thread.
LEMMA HandlersOver ==
    ASSUME IInv, FilledIsOver, NEW t \in Threads,
           LoopStep(t) \/ (t \in Checks /\ CheckStep(t)) \/ (t = Main /\ Start)
    PROVE  FilledIsOver'
<1>t. pc \in [Actors -> Driving \cup {"queued", "idle", "waiting", "done"}] /\ t \in Actors
  BY DEF IInv, PlacesOK, Actors
<1>1. CASE filledEvents = 1
  <2>1. /\ \A u \in Threads : pc[u] \notin Driving
        /\ monitor # "pending" /\ strays = 0 /\ pc[Main] # "queued"
        /\ status \in {"filled", "canceled"}
    BY <1>1 DEF FilledIsOver, IInv, SingleDriver, Drivers
  <2>2. PollFilled(t) \/ PollTimeout(t)
    BY <2>1 DEF LoopStep, CheckStep, Start, SendCreate, Created, CreateFailed, PollFailed,
       TimerFires, GaveUp, Fetched, CheckFailed, CheckCanceled, Resubmit, Driving
  <2>3. /\ Goto(t, IF t = Main THEN "done" ELSE "idle")
        /\ filledEvents' = filledEvents /\ status' = status /\ monitor' \in {monitor, "none"}
    BY <2>2 DEF PollFilled, PollTimeout, ClearMonitor, Goto, order, timers, outcome
  <2>4. \A u \in Threads : pc'[u] \notin Driving
    BY <1>t, <2>1, <2>3 DEF Goto, Driving, Actors
  <2>5. pc'[Main] # "queued"
    BY <1>t, <2>1, <2>3 DEF Goto, Actors
  <2>6. QED
    BY <1>1, <2>1, <2>3, <2>4, <2>5 DEF FilledIsOver, Drivers
<1>2. CASE filledEvents = 0
  <2>1. status # "filled"
    BY <1>2 DEF FilledIsOver
  <2>2. CASE Fetched(t) /\ MarkFilled /\ Goto(t, "idle")
    <3>1. pc[t] = "fetching" /\ monitor' = monitor /\ filledEvents' = 1 /\ status' = "filled"
      BY <1>2, <2>2 DEF Fetched, MarkFilled, timers
    <3>2. \A u \in Threads : u # t => pc[u] \notin Driving
      BY <3>1 DEF IInv, SingleDriver, Drivers, Driving
    <3>3. monitor # "pending"
      BY <3>1 DEF IInv, SingleDriver, Drivers, Driving
    <3>4. t # Main /\ pc[Main] # "queued"
      BY <3>1 DEF IInv, PlacesOK, AloneAtFirst, Threads
    <3>5. /\ \A u \in Threads : pc'[u] \notin Driving
          /\ pc'[Main] # "queued"
      BY <1>t, <2>2, <3>2, <3>4 DEF Goto, Driving, Actors, Threads
    <3>6. QED
      BY <3>1, <3>3, <3>5 DEF FilledIsOver, Drivers
  <2>3. CASE ~(Fetched(t) /\ MarkFilled /\ Goto(t, "idle"))
    <3>1. filledEvents' = 0 /\ status' # "filled"
      BY <1>2, <2>1, <2>3 DEF LoopStep, CheckStep, Start, SendCreate, Created, CreateFailed,
         PollFilled, PollFailed, PollTimeout, TimerFires, GaveUp, Fetched, CheckFailed,
         CheckCanceled, Resubmit, RetryOrThrow, Throw, order, outcome
    <3>2. QED
      BY <3>1 DEF FilledIsOver
  <2>4. QED
    BY <2>2, <2>3
<1>3. QED
  BY <1>1, <1>2 DEF FilledIsOver

LEMMA OverStep == IInv /\ FilledIsOver /\ [Next]_vars => FilledIsOver'
<1> SUFFICES ASSUME IInv, FilledIsOver, [Next]_vars PROVE FilledIsOver'
  OBVIOUS
<1>m. Main \in Threads /\ \A t \in Checks : t \in Threads
  BY DEF Threads
<1>1. ASSUME NEW t \in Threads,
             LoopStep(t) \/ (t \in Checks /\ CheckStep(t)) \/ (t = Main /\ Start)
      PROVE  FilledIsOver'
  BY <1>1, HandlersOver
<1>2. CASE UserStep
  <2>1. \A t \in Threads : pc'[t] = pc[t]
    BY <1>2, OrderExecutorAssumption
       DEF UserStep, CancelCalled, CancelReturnsTrue, CancelReturnsFalse, Goto, IInv, PlacesOK,
           Threads, Actors, Main, User
  <2>2. /\ filledEvents' = filledEvents
        /\ status' = status \/ status' = "canceled"
        /\ monitor' = monitor \/ monitor' = "none"
    BY <1>2 DEF UserStep, CancelCalled, CancelReturnsTrue, CancelReturnsFalse, ClearMonitor,
       order, timers, outcome
  <2>3. QED
    BY <1>m, <2>1, <2>2 DEF FilledIsOver, Drivers
<1>3. CASE \/ QueueTimeout \/ UNCHANGED vars
           \/ \E a \in Actors : ExchangeStep(a)
           \/ \E i \in 1..Len(ex) : Trade(i)
  <2>1. pc' = pc /\ filledEvents' = filledEvents /\ status' = status /\ monitor' = monitor
    BY <1>3 DEF QueueTimeout, vars, ExchangeStep, ExchangeCreate, ExchangeFetch, ExchangeCancel,
       Trade, order, timers, outcome
  <2>2. QED
    BY <2>1 DEF FilledIsOver, Drivers
<1>4. QED
  BY <1>m, <1>1, <1>2, <1>3 DEF Next

LEMMA InitOver == Init => FilledIsOver
BY DEF Init, FilledIsOver

(* The order of executeSmartLimitOrder() is announced as filled, and       *)
(* counted, at most once: whatever timers, retries, cancellations and late *)
(* answers come after the announcement, none looks at the order again.     *)
THEOREM AnnouncedOnce == Spec => []FilledOnce
<1>1. Init => IInv /\ FilledIsOver
  BY Initial, InitOver
<1>2. (IInv /\ FilledIsOver) /\ [Next]_vars => (IInv /\ FilledIsOver)'
  BY Inductive, OverStep
<1>3. FilledIsOver => FilledOnce
  BY DEF FilledIsOver, FilledOnce
<1>4. QED
  BY <1>1, <1>2, <1>3, PTL DEF Spec

-----------------------------------------------------------------------------
(* An open order that is left alone is attended.                           *)

\* what an earlier look at an order says of it
Earlier(o, n) == /\ o.amount = n.amount /\ o.filled <= n.filled
                 /\ o.state = "closed" => n.state = "closed"

\* a thread submits the amount that is left and looks at the order whose number
\* the executor has, and its cancellation does not fail
Pursues(t) ==
    /\ pc[t] = "creating" =>
          /\ net[t].kind = "create" => net[t].amount = amount
          /\ net[t].kind = "created" => ex[net[t].id].amount = amount
    /\ pc[t] = "fetching" =>
          /\ net[t].kind \in {"fetch", "snapshot"} => net[t].id = exId
          /\ net[t].kind = "snapshot" => Earlier(net[t].order, ex[exId])
    /\ pc[t] \in {"canceling", "failing"} => net[t].kind # "error"

\* nor is it about to replace or to give up that order
Untouched(t) == /\ pc[t] \notin {"retry", "creating", "pricing"}
                /\ pc[t] \in {"canceling", "failing"} => net[t].kind # "canceled"

\* while that order is open it is looked after, until what remains of it is
\* taken for nothing
LookedAfter ==
    exId \in OpenOrders =>
       /\ \A t \in Threads : Untouched(t)
       /\ \/ exId \in LeftOpen
          \/ /\ status = "submitted"
             /\ monitor = "pending" \/ Drivers # {}
             /\ \/ amount = ex[exId].amount
                \/ \E t \in Threads : pc[t] = "canceling"

Pursued == /\ pc[User] = "idle" /\ net[User].kind = "none"
           /\ \A t \in Threads : Pursues(t)
           /\ LookedAfter

\* what is known of every state besides
Reached == Types /\ IInv /\ MessagesFit /\ QueuedIsNew /\ FilledIsOver

Handler(t) == LoopStep(t) \/ (t \in Checks /\ CheckStep(t)) \/ (t = Main /\ Start)

LEMMA ThreadFacts ==
    ASSUME Reached, NEW t \in Threads
    PROVE  /\ t \in Actors /\ t # User /\ User \in Actors
           /\ pc \in [Actors -> Driving \cup {"queued", "idle", "waiting", "done"}]
           /\ net \in [Actors -> Messages] /\ net[t] \in Messages
           /\ ex \in Seq(ExchangeOrder) /\ exId \in 0..Len(ex) /\ Len(ex) \in Nat
           /\ Fits(t)
BY OrderExecutorAssumption DEF Reached, Types, TypeOK, MessagesFit, Actors, Threads, Main, User

\* a driver is the only one
LEMMA DriverAlone ==
    ASSUME Reached, NEW t \in Threads, pc[t] \in Driving
    PROVE  /\ \A u \in Threads : u # t => pc[u] \notin Driving
           /\ monitor # "pending" /\ status # "filled"
BY DEF Reached, FilledIsOver, IInv, SingleDriver, Drivers

\* Nobody but the thread that runs is concerned.
LEMMA OthersPursue ==
    ASSUME Reached, Pursued, NEW t \in Threads, Handler(t)
    PROVE  /\ pc'[User] = "idle" /\ net'[User].kind = "none"
           /\ \A u \in Threads : u # t =>
                 /\ Pursues(u)' /\ pc'[u] = pc[u] /\ net'[u] = net[u]
                 /\ Untouched(u) => Untouched(u)'
<1>1. \A u \in Actors : u # t => pc'[u] = pc[u] /\ net'[u] = net[u]
  BY OthersFit DEF Reached, Handler
<1>2. \A u \in Threads : u \in Actors /\ u # User
  BY ThreadFacts
<1>3. pc'[User] = "idle" /\ net'[User].kind = "none"
  BY <1>1, ThreadFacts DEF Pursued
<1>4. ASSUME NEW u \in Threads, u # t
      PROVE  Pursues(u)'
  <2>1. pc'[u] = pc[u] /\ net'[u] = net[u]
    BY <1>1, <1>2, <1>4
  <2>2. CASE pc[t] \in Driving
    <3>1. pc[u] \notin Driving
      BY <1>4, <2>2, DriverAlone
    <3>2. QED
      BY <2>1, <3>1 DEF Pursues, Driving
  <2>3. CASE pc[t] \notin Driving
    <3>1. exId' = exId /\ amount' = amount /\ ex' = ex
      BY <2>3 DEF Handler, LoopStep, CheckStep, Start, SendCreate, Created, CreateFailed,
         PollFilled, PollFailed, PollTimeout, TimerFires, GaveUp, Fetched, CheckFailed,
         CheckCanceled, Resubmit, RetryOrThrow, Throw, order, exchange, Driving
    <3>2. QED
      BY <2>1, <3>1 DEF Pursued, Pursues, Earlier
  <2>4. QED
    BY <2>2, <2>3
<1>5. QED
  BY <1>1, <1>2, <1>3, <1>4 DEF Untouched

\* When the executor's order is not open, a step that takes no other is done.
LEMMA NotOpenAnyMore ==
    ASSUME NothingNew, exId' = exId, exId \notin OpenOrders
    PROVE  LookedAfter'
BY DEF NothingNew, LookedAfter

\* A step of the loop that is not the last of an order.
LEMMA LoopPursues ==
    ASSUME Reached, Pursued, NEW t \in Threads, LoopStep(t) \/ (t = Main /\ Start)
    PROVE  Pursues(t)' /\ LookedAfter'
<1>f. /\ t \in Actors
      /\ pc \in [Actors -> Driving \cup {"queued", "idle", "waiting", "done"}]
      /\ net \in [Actors -> Messages] /\ Fits(t) /\ LookedAfter /\ Pursues(t)
  BY ThreadFacts DEF Pursued
<1>n. NothingNew
  BY HandlersOpenNothing DEF Reached
<1>o. \A u \in Threads : u # t => pc'[u] = pc[u] /\ (Untouched(u) => Untouched(u)')
  BY OthersPursue DEF Handler
<1>1. CASE (t = Main /\ Start) \/ SendCreate(t) \/ CreateFailed(t)
  <2>1. exId \notin OpenOrders
    <3>1. CASE t = Main /\ Start
      BY <3>1 DEF Start, Reached, QueuedIsNew, OpenOrders
    <3>2. CASE SendCreate(t) \/ CreateFailed(t)
      BY <1>f, <3>2 DEF SendCreate, CreateFailed, LookedAfter, Untouched
    <3>3. QED
      BY <1>1, <3>1, <3>2
  <2>2. exId' = exId
    BY <1>1 DEF Start, SendCreate, CreateFailed, RetryOrThrow, Throw, order
  <2>3. Pursues(t)'
    <3>1. CASE SendCreate(t)
      <4>1. pc'[t] = "creating" /\ net'[t] = [kind |-> "create", amount |-> amount]
            /\ amount' = amount
        BY <1>f, <3>1 DEF SendCreate, Goto, Send, order
      <4>2. QED
        BY <4>1 DEF Pursues
    <3>2. CASE (t = Main /\ Start) \/ CreateFailed(t)
      <4>1. pc'[t] \in {"retry", "done", "idle"}
        BY <1>f, <3>2 DEF Start, CreateFailed, RetryOrThrow, Throw, Goto
      <4>2. QED
        BY <4>1 DEF Pursues
    <3>3. QED
      BY <1>1, <3>1, <3>2
  <2>4. QED
    BY <1>n, <2>1, <2>2, <2>3, NotOpenAnyMore
<1>2. CASE Created(t)
  <2>1. /\ pc[t] = "creating" /\ net[t].kind = "created" /\ pc'[t] = "waiting"
        /\ exId' = net[t].id /\ status' = "submitted" /\ monitor' = "pending"
        /\ amount' = amount /\ ex' = ex
    BY <1>f, <1>2 DEF Created, AnsweredWith, Goto, StartMonitor, exchange
  <2>2. ex[net[t].id].amount = amount
    BY <1>f, <2>1 DEF Pursues
  <2>3. ASSUME NEW u \in Threads PROVE Untouched(u)'
    <3>1. CASE u = t
      BY <2>1, <3>1 DEF Untouched
    <3>2. CASE u # t
      <4>1. pc'[u] \notin Driving
        BY <1>o, <2>1, <3>2, DriverAlone DEF Driving
      <4>2. QED
        BY <4>1 DEF Untouched, Driving
    <3>3. QED
      BY <3>1, <3>2
  <2>4. LookedAfter'
    BY <2>1, <2>2, <2>3 DEF LookedAfter
  <2>5. Pursues(t)'
    BY <2>1 DEF Pursues
  <2>6. QED
    BY <2>4, <2>5
<1>3. CASE PollFilled(t) \/ PollTimeout(t)
  <2>1. /\ pc[t] = "waiting" /\ pc'[t] \in {"done", "idle"}
        /\ exId' = exId /\ amount' = amount /\ ex' = ex /\ status' = status
        /\ monitor' = monitor \/ status = "filled"
    BY <1>f, <1>3 DEF PollFilled, PollTimeout, ClearMonitor, Goto, order, timers, exchange
  <2>2. Pursues(t)' /\ Untouched(t)'
    BY <2>1 DEF Pursues, Untouched
  <2>3. OpenOrders' = OpenOrders
    BY <2>1 DEF OpenOrders
  <2>4. exId \in LeftOpen => (exId \in LeftOpen)'
    BY <2>1, <2>3 DEF LeftOpen
  <2>5. /\ Drivers # {} => Drivers' # {}
        /\ (\E u \in Threads : pc[u] = "canceling") => \E u \in Threads : pc'[u] = "canceling"
    BY <1>o, <2>1 DEF Drivers, Driving
  <2>6. (\A u \in Threads : Untouched(u)) => \A u \in Threads : Untouched(u)'
    BY <1>o, <2>2
  <2>7. LookedAfter'
    BY <1>f, <2>1, <2>3, <2>4, <2>5, <2>6 DEF LookedAfter
  <2>8. QED
    BY <2>2, <2>7
<1>4. CASE PollFailed(t)
  <2>1. ~(resubmitCount < MaxResubmit) /\ status = "failed"
    BY <1>4, OrderExecutorAssumption DEF PollFailed, Reached, IInv, FailedIsOver, PlacesOK
  <2>2. exId' = exId /\ pc'[t] \in {"done", "idle"}
    BY <1>f, <1>4, <2>1 DEF PollFailed, RetryOrThrow, Throw, Goto
  <2>3. exId \notin OpenOrders
    BY <1>f, <2>1 DEF LookedAfter, LeftOpen
  <2>4. Pursues(t)'
    BY <2>2 DEF Pursues
  <2>5. QED
    BY <1>n, <2>2, <2>3, <2>4, NotOpenAnyMore
<1>5. QED
  BY <1>1, <1>2, <1>3, <1>4 DEF LoopStep

\* A look at the order: it is complete, or its rest is taken for nothing, or
\* the order is to be canceled.
LEMMA FetchedPursues ==
    ASSUME Reached, Pursued, NEW t \in Checks, Fetched(t)
    PROVE  Pursues(t)' /\ LookedAfter'
<1>c. t \in Threads /\ Handler(t)
  BY DEF Threads, Handler, CheckStep
<1>f. /\ t \in Actors /\ Fits(t) /\ LookedAfter /\ Pursues(t)
      /\ pc \in [Actors -> Driving \cup {"queued", "idle", "waiting", "done"}]
      /\ net \in [Actors -> Messages] /\ net[t] \in Messages
      /\ ex \in Seq(ExchangeOrder) /\ exId \in 0..Len(ex) /\ Len(ex) \in Nat
  BY <1>c, ThreadFacts DEF Pursued
<1>n. NothingNew
  BY <1>c, HandlersOpenNothing DEF Reached, Handler
<1> DEFINE latest == net[t].order
           remaining == amount - latest.filled
           complete == latest.state = "closed" \/ latest.filled = latest.amount
           tiny == latest.filled > 0 /\ NegligibleDen * remaining < amount
<1>1. /\ pc[t] = "fetching" /\ net[t].kind = "snapshot" /\ net[t].id = exId
      /\ Earlier(latest, ex[exId]) /\ latest \in ExchangeOrder /\ exId \in 1..Len(ex)
      /\ ex' = [ex EXCEPT ![exId] = [ex[exId] EXCEPT !.seen = latest.filled]]
      /\ exId' = exId
  BY <1>f, Carried DEF Fetched, AnsweredWith, Pursues
<1>2. /\ (complete \/ tiny) => MarkFilled /\ Goto(t, "idle")
      /\ ~(complete \/ tiny) => /\ Goto(t, "canceling") /\ SendCancel(t)
                                /\ status' = status
  BY DEF Fetched
<1> HIDE DEF complete, tiny, latest
<1>3. Pursues(t)'
  <2>1. CASE complete \/ tiny
    BY <1>f, <1>2, <2>1 DEF Goto, Pursues
  <2>2. CASE ~(complete \/ tiny)
    <3>1. pc'[t] = "canceling" /\ net'[t].kind \in {"cancel", "canceled"}
      BY <1>f, <1>2, <2>2 DEF Goto, SendCancel, Send
    <3>2. QED
      BY <3>1 DEF Pursues
  <2>3. QED
    BY <2>1, <2>2
<1>4. CASE exId \notin OpenOrders
  BY <1>n, <1>1, <1>3, <1>4, NotOpenAnyMore
<1>5. CASE exId \in OpenOrders
  <2>1. ex[exId].state = "open" /\ ex[exId].filled < ex[exId].amount /\ ex[exId] \in ExchangeOrder
    BY <1>f, <1>1, <1>5 DEF OpenOrders, Reached, Types, Fillable
  <2>2. ~complete
    <3>1. latest.filled \in Nat /\ ex[exId].filled \in Nat /\ ex[exId].amount \in Nat
      BY <1>1, <2>1, OrderExecutorAssumption DEF ExchangeOrder
    <3>2. QED
      BY <1>1, <2>1, <3>1 DEF complete, Earlier
  <2>3. /\ \A u \in Threads : u # t => pc[u] \notin Driving
        /\ status # "filled"
    BY <1>c, <1>1, DriverAlone DEF Driving
  <2>4. /\ status = "submitted" /\ amount = ex[exId].amount
    BY <1>f, <1>1, <1>5, <2>3 DEF LookedAfter, LeftOpen, Driving
  <2>5. \A u \in Threads : u # t => Untouched(u)'
    BY <1>c, <1>f, <1>5, OthersPursue DEF LookedAfter
  <2>6. CASE tiny
    <3>1. pc'[t] = "idle" /\ status' = "filled"
      BY <1>f, <1>2, <2>6 DEF Goto, MarkFilled
    <3>2. ex'[exId] = [ex[exId] EXCEPT !.seen = latest.filled] /\ Len(ex') = Len(ex)
      BY <1>f, <1>1
    <3>3. /\ ex'[exId].amount = ex[exId].amount /\ ex'[exId].seen = latest.filled
          /\ ex'[exId].state = "open"
      <4>1. QED
        BY <2>1, <3>2 DEF ExchangeOrder
    <3>4. NegligibleDen * (ex'[exId].amount - ex'[exId].seen) < ex'[exId].amount
      BY <2>4, <2>6, <3>3 DEF tiny
    <3>5. (exId \in LeftOpen)'
      BY <1>1, <3>1, <3>2, <3>3, <3>4 DEF LeftOpen, OpenOrders
    <3>6. Untouched(t)'
      BY <3>1 DEF Untouched
    <3>7. LookedAfter'
      BY <2>5, <3>5, <3>6 DEF LookedAfter
    <3>8. QED
      BY <1>3, <3>7
  <2>7. CASE ~tiny
    <3>1. /\ pc'[t] = "canceling" /\ net'[t] = [kind |-> "cancel", id |-> exId]
          /\ status' = "submitted"
      BY <1>f, <1>1, <1>2, <2>2, <2>4, <2>7 DEF Goto, SendCancel, Send
    <3>2. Untouched(t)'
      BY <3>1 DEF Untouched
    <3>3. Drivers' # {}
      BY <1>c, <3>1 DEF Drivers, Driving
    <3>4. LookedAfter'
      BY <1>c, <1>1, <2>5, <3>1, <3>2, <3>3 DEF LookedAfter
    <3>5. QED
      BY <1>3, <3>4
  <2>8. QED
    BY <2>6, <2>7
<1>6. QED
  BY <1>4, <1>5

\* The other steps of a callback.
LEMMA CheckPursues ==
    ASSUME Reached, Pursued, NEW t \in Checks, CheckStep(t)
    PROVE  Pursues(t)' /\ LookedAfter'
<1>c. t \in Threads /\ Handler(t) /\ t # Main
  BY OrderExecutorAssumption DEF Threads, Handler
<1>f. /\ t \in Actors /\ Fits(t) /\ LookedAfter /\ Pursues(t)
      /\ pc \in [Actors -> Driving \cup {"queued", "idle", "waiting", "done"}]
      /\ net \in [Actors -> Messages] /\ exId \in 0..Len(ex)
  BY <1>c, ThreadFacts DEF Pursued
<1>n. NothingNew
  BY <1>c, HandlersOpenNothing DEF Reached, Handler
<1>o. \A u \in Threads : u # t => pc'[u] = pc[u] /\ (Untouched(u) => Untouched(u)')
  BY <1>c, OthersPursue
<1>1. CASE GaveUp(t) \/ CheckCanceled(t) \/ Resubmit(t)
  <2>1. exId \notin OpenOrders
    <3>1. ~Untouched(t)
      <4>1. CASE GaveUp(t)
        <5>1. pc[t] = "failing" /\ net[t].kind \in {"created", "error", "snapshot", "canceled"}
          BY <4>1 DEF GaveUp, Answered
        <5>2. net[t].kind = "canceled"
          BY <1>f, <5>1 DEF Fits, Pursues
        <5>3. QED
          BY <5>1, <5>2 DEF Untouched
      <4>2. CASE CheckCanceled(t) \/ Resubmit(t)
        BY <4>2 DEF CheckCanceled, Resubmit, AnsweredWith, Untouched
      <4>3. QED
        BY <1>1, <4>1, <4>2
    <3>2. QED
      BY <1>c, <1>f, <3>1 DEF LookedAfter
  <2>2. exId' = exId /\ pc'[t] \in {"idle", "pricing", "retry"}
    BY <1>f, <1>1 DEF GaveUp, CheckCanceled, Resubmit, Goto, order
  <2>3. Pursues(t)'
    BY <2>2 DEF Pursues
  <2>4. QED
    BY <1>n, <2>1, <2>2, <2>3, NotOpenAnyMore
<1>2. CASE CheckFailed(t)
  <2>1. /\ pc[t] = "fetching" /\ pc'[t] = "idle" /\ monitor' = "pending"
        /\ exId' = exId /\ amount' = amount /\ ex' = ex /\ status' = status
    BY <1>f, <1>2 DEF CheckFailed, AnsweredWith, Pursues, Goto, StartMonitor, order, exchange
  <2>2. Pursues(t)' /\ Untouched(t)'
    BY <2>1 DEF Pursues, Untouched
  <2>3. OpenOrders' = OpenOrders
    BY <2>1 DEF OpenOrders
  <2>4. /\ \A u \in Threads : u # t => pc[u] \notin Driving
        /\ status # "filled"
    BY <1>c, <2>1, DriverAlone DEF Driving
  <2>5. exId \in OpenOrders => /\ status = "submitted" /\ amount = ex[exId].amount
                              /\ \A u \in Threads : Untouched(u)
    BY <1>f, <2>1, <2>4 DEF LookedAfter, LeftOpen, Driving
  <2>6. LookedAfter'
    BY <1>o, <2>1, <2>2, <2>3, <2>5 DEF LookedAfter
  <2>7. QED
    BY <2>2, <2>6
<1>3. CASE TimerFires(t)
  <2>1. /\ pc[t] = "idle" /\ exId' = exId /\ amount' = amount /\ ex' = ex /\ status' = status
    BY <1>3 DEF TimerFires, order, exchange
  <2>2. OpenOrders' = OpenOrders
    BY <2>1 DEF OpenOrders
  <2>3. CASE status \in Final
    <3>1. pc' = pc
      BY <1>3, <2>3 DEF TimerFires, BeginCheck
    <3>2. Pursues(t)' /\ Untouched(t)'
      BY <2>1, <3>1 DEF Pursues, Untouched
    <3>3. exId \in OpenOrders => /\ exId \in LeftOpen
                                /\ \A u \in Threads : Untouched(u)
      BY <1>f, <2>3 DEF LookedAfter, Final
    <3>4. exId \in LeftOpen => (exId \in LeftOpen)'
      BY <2>1, <2>2 DEF LeftOpen
    <3>5. LookedAfter'
      BY <1>o, <2>1, <2>2, <3>2, <3>3, <3>4 DEF LookedAfter
    <3>6. QED
      BY <3>2, <3>5
  <2>4. CASE status \notin Final
    <3>1. \/ Goto(t, "failing") /\ SendCancel(t)
          \/ Goto(t, "fetching") /\ Send(t, [kind |-> "fetch", id |-> exId])
      BY <1>3, <2>4 DEF TimerFires, BeginCheck
    <3>2. \/ pc'[t] = "failing" /\ net'[t].kind = "canceled" /\ exId = 0
          \/ pc'[t] = "failing" /\ net'[t].kind = "cancel"
          \/ pc'[t] = "fetching" /\ net'[t] = [kind |-> "fetch", id |-> exId]
      BY <1>f, <3>1 DEF Goto, SendCancel, Send
    <3>3. Pursues(t)'
      BY <2>1, <3>2 DEF Pursues
    <3>4. exId \in OpenOrders =>
             /\ Untouched(t)' /\ \A u \in Threads : Untouched(u)
             /\ status = "submitted"
             /\ \/ amount = ex[exId].amount
                \/ \E u \in Threads : pc[u] = "canceling"
      BY <1>f, <2>4, <3>2 DEF LookedAfter, Untouched, OpenOrders, LeftOpen, Final
    <3>5. Drivers' # {}
      BY <1>c, <3>2 DEF Drivers, Driving
    <3>6. (\E u \in Threads : pc[u] = "canceling") => \E u \in Threads : pc'[u] = "canceling"
      BY <1>o, <2>1
    <3>7. LookedAfter'
      BY <1>o, <2>1, <2>2, <3>4, <3>5, <3>6 DEF LookedAfter
    <3>8. QED
      BY <3>3, <3>7
  <2>5. QED
    BY <2>3, <2>4
<1>4. CASE Fetched(t)
  BY <1>4, FetchedPursues
<1>5. QED
  BY <1>1, <1>2, <1>3, <1>4 DEF CheckStep

\* A step of a thread.
LEMMA HandlersPursue ==
    ASSUME Reached, Pursued, NEW t \in Threads, Handler(t)
    PROVE  Pursued'
<1>1. Pursues(t)' /\ LookedAfter'
  BY LoopPursues, CheckPursues DEF Handler
<1>2. QED
  BY <1>1, OthersPursue DEF Pursued

\* A step that changes neither a thread nor what the executor knows, and closes
\* the order it has at most.
LEMMA OthersLookAfter ==
    ASSUME LookedAfter, ex \in Seq(ExchangeOrder), exId \in 0..Len(ex),
           exId' = exId, amount' = amount, status' = status, monitor' = monitor, pc' = pc,
           exId \in OpenOrders' =>
              /\ exId \in OpenOrders
              /\ ex'[exId].amount = ex[exId].amount /\ ex'[exId].seen = ex[exId].seen
              /\ \A t \in Threads : pc[t] \in {"canceling", "failing"} => net'[t] = net[t]
    PROVE  LookedAfter'
<1> SUFFICES ASSUME exId \in OpenOrders'
             PROVE  /\ \A t \in Threads : Untouched(t)'
                    /\ \/ (exId \in LeftOpen)'
                       \/ /\ status = "submitted"
                          /\ monitor = "pending" \/ Drivers' # {}
                          /\ \/ amount = ex'[exId].amount
                             \/ \E t \in Threads : pc'[t] = "canceling"
  BY DEF LookedAfter
<1>1. /\ exId \in OpenOrders
      /\ ex'[exId].amount = ex[exId].amount /\ ex'[exId].seen = ex[exId].seen
      /\ \A t \in Threads : pc[t] \in {"canceling", "failing"} => net'[t] = net[t]
  OBVIOUS
<1>2. \A t \in Threads : Untouched(t)'
  BY <1>1 DEF LookedAfter, Untouched
<1>3. exId \in LeftOpen => (exId \in LeftOpen)'
  BY <1>1 DEF LeftOpen
<1>4. Drivers' = Drivers
  BY DEF Drivers
<1>5. QED
  BY <1>1, <1>2, <1>3, <1>4 DEF LookedAfter

LEMMA FilledTyped ==
    ASSUME NEW o \in ExchangeOrder PROVE o.filled \in Nat
BY OrderExecutorAssumption DEF ExchangeOrder

\* The exchange answers the one thread that has called it.
LEMMA ExchangePursues ==
    ASSUME LeftAlone, Reached, Pursued, NEW a \in Actors, ExchangeStep(a)
    PROVE  Pursued'
<1>1. a \in Threads
  BY DEF Pursued, ExchangeStep, ExchangeCreate, ExchangeFetch, ExchangeCancel, Actors, Threads
<1>f. /\ a # User /\ User \in Actors
      /\ net \in [Actors -> Messages] /\ net[a] \in Messages
      /\ ex \in Seq(ExchangeOrder) /\ exId \in 0..Len(ex) /\ Len(ex) \in Nat
      /\ Fits(a) /\ LookedAfter /\ Pursues(a)
      /\ \A u \in Threads : u \in Actors
  BY <1>1, ThreadFacts DEF Pursued
<1>2. /\ pc' = pc /\ exId' = exId /\ amount' = amount /\ status' = status /\ monitor' = monitor
      /\ \A u \in Actors : u # a => net'[u] = net[u]
  <2>1. /\ pc' = pc /\ exId' = exId /\ amount' = amount /\ status' = status
        /\ monitor' = monitor
    BY DEF ExchangeStep, ExchangeCreate, ExchangeFetch, ExchangeCancel, order, timers
  <2>2. \A u \in Actors : u # a => net'[u] = net[u]
    BY <1>f DEF ExchangeStep, ExchangeCreate, ExchangeFetch, ExchangeCancel, Send
  <2>3. QED
    BY <2>1, <2>2
<1>3. pc[a] \in {"creating", "fetching", "canceling", "failing"}
  BY <1>f DEF ExchangeStep, ExchangeCreate, ExchangeFetch, ExchangeCancel, Fits
<1>4. \A u \in Threads : u # a => pc[u] \notin Driving
  BY <1>1, <1>3, DriverAlone DEF Driving
<1>5. \A u \in Threads : u # a => Pursues(u)'
  BY <1>2, <1>4 DEF Pursues, Driving
<1>6. pc'[User] = "idle" /\ net'[User].kind = "none"
  BY <1>f, <1>2 DEF Pursued
<1>7. CASE ExchangeCreate(a)
  <2>1. pc[a] = "creating" /\ net[a].kind = "create" /\ net[a].amount = amount
    BY <1>f, <1>7 DEF ExchangeCreate, Fits, Pursues
  <2>2. exId \notin OpenOrders
    BY <1>1, <1>f, <2>1 DEF LookedAfter, Untouched
  <2> DEFINE new == [state |-> "open", amount |-> net[a].amount, filled |-> 0, seen |-> 0]
  <2>3. \/ ex' = ex
        \/ ex' = Append(ex, new)
    BY <1>7 DEF ExchangeCreate, Accepted
  <2>4. \/ net'[a].kind = "error"
        \/ net'[a].kind = "created" /\ net'[a].id = Len(ex) + 1 /\ ex' = Append(ex, new)
    BY <1>f, <1>7 DEF ExchangeCreate, Accepted, Send
  <2>5. new.amount = amount
    BY <2>1
  <2> HIDE DEF new
  <2>6. ex' = Append(ex, new) => /\ Len(ex') = Len(ex) + 1 /\ ex'[Len(ex) + 1] = new
                                /\ \A j \in 1..Len(ex) : ex'[j] = ex[j]
    BY <1>f
  <2>7. exId \notin OpenOrders'
    BY <1>f, <2>2, <2>3, <2>6 DEF OpenOrders
  <2>8. Pursues(a)'
    BY <1>2, <2>1, <2>4, <2>5, <2>6 DEF Pursues
  <2>9. LookedAfter'
    BY <1>2, <2>7 DEF LookedAfter
  <2>10. QED
    BY <1>5, <1>6, <2>8, <2>9 DEF Pursued
<1>8. CASE ExchangeFetch(a)
  <2>1. pc[a] = "fetching" /\ net[a].kind = "fetch" /\ net[a].id = exId /\ ex' = ex
        /\ exId \in 1..Len(ex)
    BY <1>f, <1>8, Carried DEF ExchangeFetch, Fits, Pursues
  <2>2. \/ net'[a].kind = "error"
        \/ net'[a] = [kind |-> "snapshot", id |-> exId, order |-> ex[exId]]
    BY <1>f, <1>8, <2>1 DEF ExchangeFetch, Send
  <2>3. Earlier(ex[exId], ex[exId])
    <3>1. ex[exId].filled \in Nat
      BY <1>f, <2>1, FilledTyped
    <3>2. QED
      BY <3>1 DEF Earlier
  <2>4. Pursues(a)'
    BY <1>2, <2>1, <2>2, <2>3 DEF Pursues
  <2>5. OpenOrders' = OpenOrders
    BY <2>1 DEF OpenOrders
  <2>6. \A t \in Threads : pc[t] \in {"canceling", "failing"} => net'[t] = net[t]
    BY <1>f, <1>2, <2>1
  <2>7. LookedAfter'
    BY <1>f, <1>2, <2>1, <2>5, <2>6, OthersLookAfter
  <2>8. QED
    BY <1>5, <1>6, <2>4, <2>7 DEF Pursued
<1>9. CASE ExchangeCancel(a)
  <2>1. /\ pc[a] \in {"canceling", "failing"} /\ net[a].kind = "cancel" /\ net[a].id = exId
        /\ exId \in 1..Len(ex)
    BY <1>f, <1>9, Carried DEF ExchangeCancel, Fits
  <2>2. ~Fail("cancel")
    BY DEF Fail, LeftAlone
  <2>3. ex' = CanceledAt(exId) /\ net'[a] = [kind |-> "canceled"]
    BY <1>f, <1>9, <2>1, <2>2 DEF ExchangeCancel, Send
  <2>4. exId \notin OpenOrders'
    BY <1>f, <2>1, <2>3, CanceledCloses
  <2>5. Pursues(a)'
    BY <1>2, <2>1, <2>3 DEF Pursues
  <2>6. LookedAfter'
    BY <1>2, <2>4 DEF LookedAfter
  <2>7. QED
    BY <1>5, <1>6, <2>5, <2>6 DEF Pursued
<1>10. QED
  BY <1>7, <1>8, <1>9 DEF ExchangeStep

\* A trade takes neither the amount nor the look away from an order.
LEMMA TradePursues ==
    ASSUME Reached, Pursued, NEW n \in 1..Len(ex), Trade(n)
    PROVE  Pursued'
<1> DEFINE later == [ex[n] EXCEPT !.filled = @ + 1,
                       !.state = IF ex[n].filled + 1 = ex[n].amount THEN "closed" ELSE "open"]
<1>f. /\ net \in [Actors -> Messages] /\ ex \in Seq(ExchangeOrder) /\ exId \in 0..Len(ex)
      /\ LookedAfter /\ \A t \in Threads : t \in Actors /\ Pursues(t) /\ net[t] \in Messages
  BY ThreadFacts DEF Pursued, Reached, Types, TypeOK
<1>1. /\ ex' = [ex EXCEPT ![n] = later] /\ ex[n].state = "open" /\ ex[n] \in ExchangeOrder
      /\ pc' = pc /\ net' = net /\ exId' = exId /\ amount' = amount
      /\ status' = status /\ monitor' = monitor
  <2>1. /\ pc' = pc /\ net' = net /\ exId' = exId /\ amount' = amount
        /\ status' = status /\ monitor' = monitor
    BY DEF Trade, order, timers
  <2>2. ex' = [ex EXCEPT ![n] = later] /\ ex[n].state = "open"
    BY DEF Trade
  <2>3. ex[n] \in ExchangeOrder
    BY <1>f
  <2>4. QED
    BY <2>1, <2>2, <2>3
<1>2. /\ later.amount = ex[n].amount /\ later.seen = ex[n].seen
      /\ later.filled = ex[n].filled + 1 /\ ex[n].filled \in Nat
  BY <1>1, FilledTyped DEF ExchangeOrder
<1> HIDE DEF later
<1>3. /\ Len(ex') = Len(ex) /\ \A j \in 1..Len(ex) : j # n => ex'[j] = ex[j]
      /\ ex'[n] = later
  BY <1>f, <1>1
<1>4. \A j \in 1..Len(ex) : /\ ex'[j].amount = ex[j].amount /\ ex'[j].seen = ex[j].seen
                            /\ ex[j].state = "closed" => ex'[j].state = "closed"
                            /\ ex[j].filled \in Nat
                            /\ ex'[j].filled = ex[j].filled \/ ex'[j].filled = ex[j].filled + 1
  <2>1. \A j \in 1..Len(ex) : ex[j].filled \in Nat
    BY <1>f, FilledTyped
  <2>2. QED
    BY <1>1, <1>2, <1>3, <2>1
<1>5. ASSUME NEW t \in Threads PROVE Pursues(t)'
  <2>1. net[t].kind = "created" => net[t].id \in 1..Len(ex)
    BY <1>f, Carried
  <2>2. ASSUME pc[t] = "fetching", net[t].kind = "snapshot"
        PROVE  Earlier(net[t].order, ex'[exId])
    <3>1. /\ net[t].id = exId /\ exId \in 1..Len(ex) /\ net[t].order \in ExchangeOrder
          /\ Earlier(net[t].order, ex[exId])
      BY <1>f, <2>2, Carried DEF Pursues
    <3>2. net[t].order.filled \in Nat
      BY <3>1, OrderExecutorAssumption DEF ExchangeOrder
    <3>3. QED
      BY <1>4, <3>1, <3>2 DEF Earlier
  <2>3. QED
    BY <1>f, <1>1, <1>4, <2>1, <2>2 DEF Pursues
<1>6. exId \in OpenOrders' =>
         /\ exId \in OpenOrders
         /\ ex'[exId].amount = ex[exId].amount /\ ex'[exId].seen = ex[exId].seen
  BY <1>1, <1>3, <1>4 DEF OpenOrders
<1>7. LookedAfter'
  BY <1>f, <1>1, <1>6, OthersLookAfter
<1>8. QED
  BY <1>1, <1>5, <1>7 DEF Pursued

LEMMA PursuedStep == LeftAlone /\ Reached /\ Pursued /\ [Next]_vars => Pursued'
<1> SUFFICES ASSUME LeftAlone, Reached, Pursued, [Next]_vars PROVE Pursued'
  OBVIOUS
<1>m. Main \in Threads /\ \A t \in Checks : t \in Threads
  BY DEF Threads
<1>1. ASSUME NEW t \in Threads, Handler(t) PROVE Pursued'
  BY <1>1, HandlersPursue
<1>2. ~UserStep
  <2>1. ~(cancels < plan.cancels)
    <3>1. plan.cancels = 0 /\ cancels \in 0..plan.cancels
      BY DEF LeftAlone, Reached, Types, TypeOK
    <3>2. QED
      BY <3>1
  <2>2. QED
    BY <2>1 DEF UserStep, CancelCalled, CancelReturnsTrue, CancelReturnsFalse, Pursued
<1>3. ASSUME NEW a \in Actors, ExchangeStep(a) PROVE Pursued'
  BY <1>3, ExchangePursues
<1>4. ASSUME NEW n \in 1..Len(ex), Trade(n) PROVE Pursued'
  BY <1>4, TradePursues
<1>5. CASE QueueTimeout \/ UNCHANGED vars
  <2>1. /\ pc' = pc /\ net' = net /\ exId' = exId /\ ex' = ex /\ amount' = amount
        /\ status' = status /\ monitor' = monitor
    BY <1>5 DEF QueueTimeout, vars, order, exchange, timers
  <2>2. Drivers' = Drivers /\ OpenOrders' = OpenOrders /\ LeftOpen' = LeftOpen
    BY <2>1 DEF Drivers, OpenOrders, LeftOpen
  <2>3. QED
    BY <2>1, <2>2 DEF Pursued, Pursues, LookedAfter, Untouched, Earlier
<1>6. QED
  BY <1>m, <1>1, <1>2, <1>3, <1>4, <1>5 DEF Next, Handler

LEMMA InitPursued == Init => Pursued
BY OrderExecutorAssumption
   DEF Init, Pursued, Pursues, LookedAfter, OpenOrders, Quiet, Actors, Threads, Main, User

\* The plan never changes.
LEMMA PlanStays == [Next]_vars => (LeftAlone' <=> LeftAlone)
<1> SUFFICES ASSUME [Next]_vars PROVE plan' = plan
  BY DEF LeftAlone
<1>1. QED
  BY DEF Next, vars, Start, QueueTimeout, LoopStep, CheckStep, UserStep, ExchangeStep, Trade,
     SendCreate, Created, CreateFailed, PollFilled, PollFailed, PollTimeout, TimerFires, GaveUp,
     Fetched, CheckFailed, CheckCanceled, Resubmit, CancelCalled, CancelReturnsTrue,
     CancelReturnsFalse, ExchangeCreate, ExchangeFetch, ExchangeCancel

(* As long as no answer to an accepted createOrder() is lost, no           *)
(* cancellation fails and the user does not cancel, an open order has a    *)
(* timer or a callback that will look at it again, whatever else fails and *)
(* whenever it fills: every way out of a callback either ends the order at *)
(* the exchange or leaves a timer behind, but for a negligible remainder.  *)
THEOREM OpenAttended == ASSUME NothingLost PROVE Spec => []OpenIsAttended
<1> DEFINE Inv == Watched /\ FilledIsOver /\ (LeftAlone => Pursued)
<1>1. Init => Inv
  BY Initial, InitTypes, InitFit, InitOver, InitPursued DEF Watched
<1>2. Inv /\ [Next]_vars => Inv'
  <2> SUFFICES ASSUME Inv, [Next]_vars PROVE Inv'
    OBVIOUS
  <2>1. Watched'
    BY WatchedStep
  <2>2. FilledIsOver'
    BY OverStep DEF Watched
  <2>3. LeftAlone' => Pursued'
    BY PursuedStep, PlanStays DEF Watched, Reached
  <2>4. QED
    BY <2>1, <2>2, <2>3
<1>3. Inv => OpenIsAttended
  <2> SUFFICES ASSUME Inv, LeftAlone, NEW i \in OpenOrders, i \notin LeftOpen
               PROVE  Drivers # {} \/ PendingTimers > 0
    BY DEF OpenIsAttended, Attended
  <2>1. CASE Arriving(i)
    BY <2>1 DEF Arriving, Drivers, Driving
  <2>2. CASE Known(i)
    <3>1. i = exId
      BY <2>2 DEF Known
    <3>2. monitor = "pending" \/ Drivers # {}
      BY <3>1 DEF Pursued, LookedAfter
    <3>3. strays = 0
      BY DEF Watched, IInv, SingleDriver
    <3>4. QED
      BY <3>2, <3>3 DEF PendingTimers
  <2>3. QED
    BY <2>1, <2>2 DEF Watched, OpenIsKnown
<1>4. QED
  BY <1>1, <1>2, <1>3, PTL DEF Spec

-----------------------------------------------------------------------------
(* What is over stays so, and what is not over can be found.               *)

\* nobody cancels, and the order leaves activeOrders only with a final status
UserAway ==
    plan.cancels = 0 =>
        /\ pc[User] = "idle" /\ status # "canceled"
        /\ active \/ status \in Final

\* The steps that set the status are those of a driver, or the rejection of a
\* failed order, once more.
LEMMA HandlersFinish ==
    ASSUME Reached, status # "canceled", NEW t \in Threads, Handler(t)
    PROVE  /\ status' # status => status \notin Final /\ status' # "canceled"
           /\ active' # active => active' = FALSE /\ status' \in Final
<1>1. CASE pc[t] \in Driving
  <2>1. status \notin Final
    BY <1>1 DEF Reached, FilledIsOver, IInv, FailedIsOver, Drivers, Final
  <2>2. status' # "canceled" /\ (active' # active => active' = FALSE /\ status' \in Final)
    BY <1>1, <2>1 DEF Handler, LoopStep, CheckStep, Start, SendCreate, Created, CreateFailed,
       PollFilled, PollFailed, PollTimeout, TimerFires, GaveUp, Fetched, MarkFilled, CheckFailed,
       CheckCanceled, Resubmit, RetryOrThrow, Throw, order, Driving, Final
  <2>3. QED
    BY <2>1, <2>2
<1>2. CASE pc[t] \notin Driving
  <2>1. \/ status' = status /\ active' = active
        \/ status = "failed" /\ status' = "failed" /\ active' \in {active, FALSE}
    BY <1>2 DEF Handler, LoopStep, CheckStep, Start, SendCreate, Created, CreateFailed,
       PollFilled, PollFailed, PollTimeout, TimerFires, GaveUp, Fetched, CheckFailed,
       CheckCanceled, Resubmit, RetryOrThrow, Throw, order, Driving
  <2>2. QED
    BY <2>1 DEF Final
<1>3. QED
  BY <1>1, <1>2

LEMMA FinalStep ==
    ASSUME Reached, UserAway, [Next]_vars
    PROVE  /\ UserAway'
           /\ plan.cancels = 0 /\ status' # status => status \notin Final
<1>p. plan' = plan
  BY DEF Next, vars, Start, QueueTimeout, LoopStep, CheckStep, UserStep, ExchangeStep, Trade,
     SendCreate, Created, CreateFailed, PollFilled, PollFailed, PollTimeout, TimerFires, GaveUp,
     Fetched, CheckFailed, CheckCanceled, Resubmit, CancelCalled, CancelReturnsTrue,
     CancelReturnsFalse, ExchangeCreate, ExchangeFetch, ExchangeCancel
<1> SUFFICES ASSUME plan.cancels = 0
             PROVE  /\ pc'[User] = "idle" /\ status' # "canceled"
                    /\ active' \/ status' \in Final
                    /\ status' # status => status \notin Final
  BY <1>p DEF UserAway
<1>u. pc[User] = "idle" /\ status # "canceled" /\ (active \/ status \in Final)
  BY DEF UserAway
<1>m. Main \in Threads /\ \A t \in Checks : t \in Threads
  BY DEF Threads
<1>1. ASSUME NEW t \in Threads, Handler(t)
      PROVE  /\ pc'[User] = "idle" /\ status' # "canceled"
             /\ active' \/ status' \in Final
             /\ status' # status => status \notin Final
  <2>1. pc'[User] = "idle"
    BY <1>1, <1>u, OthersFit, ThreadFacts DEF Reached, Handler
  <2>2. /\ status' # status => status \notin Final /\ status' # "canceled"
        /\ active' # active => active' = FALSE /\ status' \in Final
    BY <1>1, <1>u, HandlersFinish
  <2>3. QED
    BY <1>u, <2>1, <2>2
<1>2. ~UserStep
  <2>1. cancels \in 0..plan.cancels
    BY DEF Reached, Types, TypeOK
  <2>2. ~(cancels < plan.cancels)
    BY <2>1
  <2>3. QED
    BY <1>u, <2>2 DEF UserStep, CancelCalled, CancelReturnsTrue, CancelReturnsFalse
<1>3. CASE \/ QueueTimeout \/ UNCHANGED vars
           \/ \E a \in Actors : ExchangeStep(a)
           \/ \E i \in 1..Len(ex) : Trade(i)
  <2>1. pc' = pc /\ status' = status /\ active' = active
    BY <1>3 DEF QueueTimeout, vars, ExchangeStep, ExchangeCreate, ExchangeFetch, ExchangeCancel,
       Trade, order
  <2>2. QED
    BY <1>u, <2>1
<1>4. QED
  BY <1>m, <1>1, <1>2, <1>3 DEF Next, Handler

LEMMA InitAway == Init => UserAway
BY OrderExecutorAssumption DEF Init, UserAway, Actors, Threads, Main, User

\* All that is known of every state, whatever fails.
LEMMA Reaching ==
    /\ Init => Reached /\ UserAway
    /\ Reached /\ UserAway /\ [Next]_vars => Reached' /\ UserAway'
<1>1. Init => Reached /\ UserAway
  BY Initial, InitTypes, InitFit, InitOver, InitAway DEF Reached
<1>2. ASSUME Reached, UserAway, [Next]_vars PROVE Reached' /\ UserAway'
  <2>1. IInv' /\ Types' /\ FilledIsOver'
    BY <1>2, Inductive, TypesStep, OverStep DEF Reached
  <2>2. MessagesFit' /\ QueuedIsNew'
    BY <1>2, <2>1, FitStep DEF Reached
  <2>3. QED
    BY <1>2, <2>1, <2>2, FinalStep DEF Reached
<1>3. QED
  BY <1>1, <1>2

(* Whatever fails: once the order is filled or failed its status never     *)
(* changes again, unless the user cancels.                                 *)
THEOREM FinalStays == Spec => FinalIsFinal
<1>1. Reached /\ UserAway /\ [Next]_vars =>
        (plan.cancels = 0 /\ status' # status => status \notin Final)
  BY FinalStep
<1>2. QED
  BY <1>1, Reaching, PTL DEF Spec, FinalIsFinal

(* As long as no answer to an accepted createOrder() is lost, no           *)
(* cancellation fails and the user does not cancel, an order that is open  *)
(* at the exchange is in activeOrders.                                     *)
THEOREM OpenIsListed == ASSUME NothingLost PROVE Spec => []OpenIsActive
<1> DEFINE Inv == Watched /\ FilledIsOver /\ (LeftAlone => Pursued) /\ UserAway
<1>1. Init => Inv
  BY Initial, InitTypes, InitFit, InitOver, InitPursued, InitAway DEF Watched
<1>2. Inv /\ [Next]_vars => Inv'
  <2> SUFFICES ASSUME Inv, [Next]_vars PROVE Inv'
    OBVIOUS
  <2>1. Watched'
    BY WatchedStep
  <2>2. FilledIsOver'
    BY OverStep DEF Watched
  <2>3. LeftAlone' => Pursued'
    BY PursuedStep, PlanStays DEF Watched, Reached
  <2>4. UserAway'
    BY FinalStep DEF Watched, Reached
  <2>5. QED
    BY <2>1, <2>2, <2>3, <2>4
<1>3. Inv => OpenIsActive
  <2> SUFFICES ASSUME Inv, LeftAlone, NEW i \in OpenOrders, i \notin LeftOpen
               PROVE  active
    BY DEF OpenIsActive, Listed
  <2>1. status \notin Final => active
    BY DEF UserAway, LeftAlone
  <2>2. CASE Arriving(i)
    <3>1. Drivers # {}
      BY <2>2 DEF Arriving, Drivers, Driving
    <3>2. status \notin Final
      BY <3>1 DEF Watched, IInv, FailedIsOver, FilledIsOver, UserAway, LeftAlone, Final
    <3>3. QED
      BY <2>1, <3>2
  <2>3. CASE Known(i)
    <3>1. i = exId
      BY <2>3 DEF Known
    <3>2. status = "submitted"
      BY <3>1 DEF Pursued, LookedAfter
    <3>3. QED
      BY <2>1, <3>2 DEF Final
  <2>4. QED
    BY <2>2, <2>3 DEF Watched, OpenIsKnown
<1>4. QED
  BY <1>1, <1>2, <1>3, PTL DEF Spec

-----------------------------------------------------------------------------
(* What the executor has seen filled is never asked for again.             *)

\* the units the executor has seen, of all its orders s, and of all but one
Seen(s) == {u \in (1..Len(s)) \X (1..Amount) : u[2] <= s[u[1]].seen}
SeenBut(s, i) == {u \in Seen(s) : u[1] # i}

\* nothing is seen that did not fill, and nothing fills that was not asked for
SeenIsFilled ==
    \A i \in 1..Len(ex) : ex[i].seen <= ex[i].filled /\ ex[i].filled <= ex[i].amount

\* the order the executor has asked for no more than what the others left
OrderFits ==
    exId # 0 => /\ amount <= ex[exId].amount
                /\ ex[exId].amount + Cardinality(SeenBut(ex, exId)) <= Amount

\* a thread submits the amount that is left, and looks at the order whose number
\* the executor has
Told(t) ==
    /\ pc[t] = "creating" =>
          /\ net[t].kind = "create" => net[t].amount = amount
          /\ net[t].kind = "created" => /\ ex[net[t].id].amount = amount
                                        /\ ex[net[t].id].seen = 0
    /\ pc[t] = "fetching" =>
          /\ net[t].kind \in {"fetch", "snapshot"} => net[t].id = exId
          /\ net[t].kind = "snapshot" => net[t].order.filled <= ex[exId].filled

\* from the look at the last order to the answer for the next one, what is left
\* is what nobody has seen filled
Submitting == {"queued", "canceling", "pricing", "retry", "creating"}
Left(t) == pc[t] \in Submitting => amount + Cardinality(Seen(ex)) <= Amount

Budget == /\ SeenIsFilled
          /\ OrderFits
          /\ \A t \in Threads : Told(t) /\ Left(t)
          /\ Cardinality(Seen(ex)) <= Amount

\* Units are finitely many.
LEMMA UnitsFinite ==
    ASSUME NEW n \in Nat, NEW S, S \subseteq (1..n) \X (1..Amount)
    PROVE  IsFiniteSet(S) /\ Cardinality(S) \in Nat
<1>1. Amount \in Nat
  BY OrderExecutorAssumption
<1>2. IsFiniteSet(1..n) /\ IsFiniteSet(1..Amount)
  BY <1>1, FS_Interval
<1>3. IsFiniteSet((1..n) \X (1..Amount))
  BY <1>2, FS_Product
<1>4. QED
  BY <1>3, FS_Subset, FS_CardinalityType

\* The units of one order count as many as its number says.
LEMMA ColumnCounted ==
    ASSUME NEW i, NEW n \in Nat
    PROVE  IsFiniteSet({i} \X (1..n)) /\ Cardinality({i} \X (1..n)) = n
<1>1. IsFiniteSet({i}) /\ Cardinality({i}) = 1
  BY FS_Singleton
<1>2. IsFiniteSet(1..n) /\ Cardinality(1..n) = n
  BY FS_Interval
<1>3. /\ IsFiniteSet({i} \X (1..n))
      /\ Cardinality({i} \X (1..n)) = Cardinality({i}) * Cardinality(1..n)
  BY <1>1, <1>2, FS_Product
<1>4. Cardinality({i} \X (1..n)) = 1 * n
  BY <1>1, <1>2, <1>3
<1>5. QED
  BY <1>3, <1>4

\* What has been seen is what has been seen of one order and of the others.
LEMMA SeenSplit ==
    ASSUME NEW s \in Seq(ExchangeOrder), NEW i \in 1..Len(s)
    PROVE  /\ Cardinality(Seen(s)) \in Nat /\ Cardinality(SeenBut(s, i)) \in Nat
           /\ Cardinality(Seen(s)) = Cardinality(SeenBut(s, i)) + s[i].seen
<1>1. Len(s) \in Nat /\ s[i] \in ExchangeOrder
  OBVIOUS
<1>2. s[i].seen \in 0..Amount /\ Amount \in Nat
  BY <1>1, OrderExecutorAssumption DEF ExchangeOrder
<1> DEFINE own == {i} \X (1..s[i].seen)
<1>3. IsFiniteSet(own) /\ Cardinality(own) = s[i].seen
  <2>1. s[i].seen \in Nat
    BY <1>2
  <2>2. QED
    BY <2>1, ColumnCounted
<1>4. Seen(s) \subseteq (1..Len(s)) \X (1..Amount) /\ SeenBut(s, i) \subseteq Seen(s)
  BY DEF Seen, SeenBut
<1>5. /\ IsFiniteSet(Seen(s)) /\ Cardinality(Seen(s)) \in Nat
      /\ IsFiniteSet(SeenBut(s, i)) /\ Cardinality(SeenBut(s, i)) \in Nat
  BY <1>1, <1>4, UnitsFinite
<1>6. Seen(s) = SeenBut(s, i) \cup own
  <2>1. ASSUME NEW u \in Seen(s) PROVE u \in SeenBut(s, i) \cup own
    BY <1>2 DEF Seen, SeenBut
  <2>2. ASSUME NEW u \in own PROVE u \in Seen(s)
    BY <1>2 DEF Seen
  <2>3. QED
    BY <1>4, <2>1, <2>2
<1>7. SeenBut(s, i) \cap own = {}
  BY DEF SeenBut
<1> HIDE DEF own
<1>8. Cardinality(SeenBut(s, i) \cup own)
        = Cardinality(SeenBut(s, i)) + Cardinality(own) - Cardinality(SeenBut(s, i) \cap own)
  BY <1>3, <1>5, FS_Union
<1>9. Cardinality(SeenBut(s, i) \cap own) = 0
  BY <1>7, FS_EmptySet
<1>10. QED
  BY <1>2, <1>3, <1>5, <1>6, <1>8, <1>9

\* Nothing more is seen of the orders s when they have become r.
SeenAlike(s, r, but) ==
    /\ Len(s) <= Len(r)
    /\ \A j \in 1..Len(s) : j # but => r[j].seen = s[j].seen
    /\ \A j \in 1..Len(r) : j > Len(s) => r[j].seen = 0

LEMMA SeenStays ==
    ASSUME NEW s \in Seq(ExchangeOrder), NEW r \in Seq(ExchangeOrder),
           NEW i, SeenAlike(s, r, i), i \in 1..Len(s) \/ i = 0
    PROVE  SeenBut(r, i) = SeenBut(s, i)
<1>1. Len(s) \in Nat /\ Len(r) \in Nat
  OBVIOUS
<1>2. ASSUME NEW u \in SeenBut(r, i) PROVE u \in SeenBut(s, i)
  <2>1. u \in (1..Len(r)) \X (1..Amount) /\ u[2] <= r[u[1]].seen /\ u[1] # i
    BY <1>2 DEF SeenBut, Seen
  <2>2. u[1] \in 1..Len(r) /\ u[2] \in 1..Amount
    BY <2>1
  <2>3. r[u[1]].seen # 0
    BY <2>1, <2>2, OrderExecutorAssumption
  <2>4. u[1] \in 1..Len(s)
    BY <1>1, <2>2, <2>3 DEF SeenAlike
  <2>5. u[2] <= s[u[1]].seen
    BY <2>1, <2>4 DEF SeenAlike
  <2>6. u \in (1..Len(s)) \X (1..Amount)
    BY <2>1, <2>2, <2>4
  <2>7. QED
    BY <2>1, <2>5, <2>6 DEF SeenBut, Seen
<1>3. ASSUME NEW u \in SeenBut(s, i) PROVE u \in SeenBut(r, i)
  <2>1. u \in (1..Len(s)) \X (1..Amount) /\ u[2] <= s[u[1]].seen /\ u[1] # i
    BY <1>3 DEF SeenBut, Seen
  <2>2. u[1] \in 1..Len(s) /\ u[1] \in 1..Len(r) /\ u[2] \in 1..Amount
    BY <1>1, <2>1 DEF SeenAlike
  <2>3. u[2] <= r[u[1]].seen
    BY <2>1, <2>2 DEF SeenAlike
  <2>4. u \in (1..Len(r)) \X (1..Amount)
    BY <2>1, <2>2
  <2>5. QED
    BY <2>1, <2>3, <2>4 DEF SeenBut, Seen
<1>4. QED
  BY <1>2, <1>3

LEMMA AllSeenStays ==
    ASSUME NEW s \in Seq(ExchangeOrder), NEW r \in Seq(ExchangeOrder), SeenAlike(s, r, 0)
    PROVE  /\ Seen(r) = Seen(s)
           /\ \A i \in 1..Len(s) : SeenBut(r, i) = SeenBut(s, i)
<1>1. ASSUME NEW q \in Seq(ExchangeOrder) PROVE SeenBut(q, 0) = Seen(q)
  <2>1. \A u \in Seen(q) : u[1] \in 1..Len(q)
    BY DEF Seen
  <2>2. \A u \in Seen(q) : u[1] # 0
    BY <2>1
  <2>3. QED
    BY <2>2 DEF SeenBut
<1>2. Seen(r) = Seen(s)
  BY <1>1, SeenStays
<1>3. QED
  BY <1>2 DEF SeenBut

\* No executor knows more, no order has shrunk, and what was asked for and seen
\* is as it was.
Unseen == /\ exId' = exId /\ amount' = amount
          /\ SeenAlike(ex, ex', 0)
          /\ \A j \in 1..Len(ex) : ex'[j].amount = ex[j].amount
          /\ \A t \in Threads : pc'[t] \in Submitting => pc[t] \in Submitting

\* A step that shows the executor nothing leaves what it may still ask for.
LEMMA UnseenKeeps ==
    ASSUME Reached, Budget, ex' \in Seq(ExchangeOrder), Unseen
    PROVE  /\ OrderFits' /\ Cardinality(Seen(ex')) <= Amount
           /\ \A t \in Threads : Left(t)'
<1>1. ex \in Seq(ExchangeOrder) /\ exId \in 0..Len(ex) /\ Len(ex) \in Nat
  BY DEF Reached, Types, TypeOK
<1>2. /\ Seen(ex') = Seen(ex)
      /\ \A i \in 1..Len(ex) : SeenBut(ex', i) = SeenBut(ex, i)
  BY <1>1, AllSeenStays DEF Unseen
<1>3. OrderFits'
  <2>1. CASE exId = 0
    BY <2>1 DEF OrderFits, Unseen
  <2>2. CASE exId # 0
    <3>1. exId \in 1..Len(ex)
      BY <1>1, <2>2
    <3>2. SeenBut(ex', exId) = SeenBut(ex, exId) /\ ex'[exId].amount = ex[exId].amount
      BY <1>2, <3>1 DEF Unseen
    <3>3. QED
      BY <2>2, <3>2 DEF OrderFits, Unseen, Budget
  <2>3. QED
    BY <2>1, <2>2
<1>4. \A t \in Threads : Left(t)'
  BY <1>2 DEF Left, Unseen, Budget
<1>5. QED
  BY <1>2, <1>3, <1>4 DEF Budget

\* Nobody but the thread that runs is concerned.
LEMMA OthersTold ==
    ASSUME Reached, Budget, NEW t \in Threads, Handler(t), NEW u \in Threads, u # t
    PROVE  /\ Told(u)' /\ pc'[u] = pc[u]
           /\ \/ pc[u] \notin Submitting
              \/ ex' = ex /\ amount' = amount /\ exId' = exId
<1>1. pc'[u] = pc[u] /\ net'[u] = net[u]
  BY OthersFit, ThreadFacts DEF Reached, Handler
<1>2. CASE pc[t] \in Driving
  <2>1. pc[u] \notin Driving
    BY <1>2, DriverAlone
  <2>2. pc[u] # "queued"
    <3>1. u \in Checks => pc[u] # "queued"
      BY DEF Reached, IInv, PlacesOK, Driving
    <3>2. u = Main => pc[u] # "queued"
      BY <1>2 DEF Reached, IInv, AloneAtFirst, Threads, Driving
    <3>3. QED
      BY <3>1, <3>2 DEF Threads
  <2>3. QED
    BY <1>1, <2>1, <2>2 DEF Told, Driving, Submitting
<1>3. CASE pc[t] \notin Driving
  <2>1. exId' = exId /\ amount' = amount /\ ex' = ex
    BY <1>3 DEF Handler, LoopStep, CheckStep, Start, SendCreate, Created, CreateFailed,
       PollFilled, PollFailed, PollTimeout, TimerFires, GaveUp, Fetched, CheckFailed,
       CheckCanceled, Resubmit, RetryOrThrow, Throw, order, exchange, Driving
  <2>2. QED
    BY <1>1, <2>1 DEF Told, Budget
<1>4. QED
  BY <1>2, <1>3

\* A handler that looks at no order and takes none.
LEMMA BlindKeeps ==
    ASSUME Reached, Budget, NEW t \in Threads, Handler(t),
           ex' = ex, amount' = amount, exId' = exId,
           Told(t)', pc'[t] \in Submitting => pc[t] \in Submitting
    PROVE  Budget'
<1>1. ex \in Seq(ExchangeOrder) /\ Len(ex) \in Nat
  BY DEF Reached, Types, TypeOK
<1>2. \A u \in Threads : u # t => Told(u)' /\ pc'[u] = pc[u]
  BY OthersTold
<1>3. Unseen
  BY <1>1, <1>2 DEF Unseen, SeenAlike
<1>4. SeenIsFilled'
  BY DEF SeenIsFilled, Budget
<1>5. QED
  BY <1>1, <1>2, <1>3, <1>4, UnseenKeeps DEF Budget

\* The retry loop submits what is left, and takes the order it gets for its own.
LEMMA LoopBudgets ==
    ASSUME Reached, Budget, NEW t \in Threads, LoopStep(t) \/ (t = Main /\ Start)
    PROVE  Budget'
<1>h. Handler(t)
  BY DEF Handler
<1>f. /\ t \in Actors
      /\ pc \in [Actors -> Driving \cup {"queued", "idle", "waiting", "done"}]
      /\ net \in [Actors -> Messages] /\ net[t] \in Messages
      /\ ex \in Seq(ExchangeOrder) /\ Len(ex) \in Nat
      /\ amount \in 1..Amount /\ Amount \in Nat
  BY ThreadFacts, OrderExecutorAssumption DEF Reached, Types, TypeOK
<1>1. CASE (t = Main /\ Start) \/ CreateFailed(t)
  <2>1. pc'[t] \in {"retry", "done", "idle"} /\ pc[t] \in Submitting
    BY <1>f, <1>1 DEF Start, CreateFailed, RetryOrThrow, Throw, Goto, Submitting
  <2>2. ex' = ex /\ amount' = amount /\ exId' = exId
    BY <1>1 DEF Start, CreateFailed, RetryOrThrow, Throw, order, exchange
  <2>3. Told(t)'
    BY <2>1 DEF Told
  <2>4. QED
    BY <1>h, <2>1, <2>2, <2>3, BlindKeeps
<1>2. CASE SendCreate(t)
  <2>1. /\ pc'[t] = "creating" /\ pc[t] = "retry"
        /\ net'[t] = [kind |-> "create", amount |-> amount]
        /\ ex' = ex /\ amount' = amount /\ exId' = exId
    BY <1>f, <1>2 DEF SendCreate, Goto, Send, order, exchange
  <2>2. Told(t)'
    BY <2>1 DEF Told
  <2>3. QED
    BY <1>h, <2>1, <2>2, BlindKeeps DEF Submitting
<1>3. CASE PollFilled(t) \/ PollFailed(t) \/ PollTimeout(t)
  <2>1. pc'[t] \in {"done", "idle"}
    <3>1. PollFailed(t) => ~(resubmitCount < MaxResubmit)
      BY OrderExecutorAssumption DEF PollFailed, Reached, IInv, FailedIsOver, PlacesOK
    <3>2. QED
      BY <1>f, <1>3, <3>1 DEF PollFilled, PollFailed, PollTimeout, RetryOrThrow, Throw, Goto
  <2>2. ex' = ex /\ amount' = amount /\ exId' = exId
    BY <1>3 DEF PollFilled, PollFailed, PollTimeout, RetryOrThrow, Throw, order, exchange
  <2>3. Told(t)' /\ pc'[t] \notin Submitting
    BY <2>1 DEF Told, Submitting
  <2>4. QED
    BY <1>h, <2>2, <2>3, BlindKeeps
<1>4. CASE Created(t)
  <2> DEFINE i == net[t].id
  <2>1. /\ pc[t] = "creating" /\ net[t].kind = "created" /\ pc'[t] = "waiting"
        /\ exId' = i /\ amount' = amount /\ ex' = ex
    BY <1>f, <1>4 DEF Created, AnsweredWith, Goto, exchange
  <2>2. i \in 1..Len(ex)
    BY <1>f, <2>1, Carried
  <2>3. ex[i].amount = amount /\ ex[i].seen = 0 /\ amount + Cardinality(Seen(ex)) <= Amount
    BY <2>1 DEF Budget, Told, Left, Submitting
  <2> HIDE DEF i
  <2>4. /\ Cardinality(Seen(ex)) = Cardinality(SeenBut(ex, i))
        /\ Cardinality(Seen(ex)) \in Nat
    <3>1. /\ Cardinality(Seen(ex)) \in Nat /\ Cardinality(SeenBut(ex, i)) \in Nat
          /\ Cardinality(Seen(ex)) = Cardinality(SeenBut(ex, i)) + ex[i].seen
      BY <1>f, <2>2, SeenSplit
    <3>2. QED
      BY <2>3, <3>1
  <2>5. OrderFits'
    <3>1. amount <= ex[i].amount
      BY <1>f, <2>3
    <3>2. ex[i].amount + Cardinality(SeenBut(ex, i)) <= Amount
      BY <2>3, <2>4
    <3>3. QED
      BY <2>1, <3>1, <3>2 DEF OrderFits
  <2>6. Told(t)' /\ Left(t)'
    BY <2>1 DEF Told, Left, Submitting
  <2>7. ASSUME NEW u \in Threads, u # t PROVE Told(u)' /\ Left(u)'
    <3>1. /\ Told(u)' /\ pc'[u] = pc[u]
          /\ \/ pc[u] \notin Submitting
             \/ ex' = ex /\ amount' = amount /\ exId' = exId
      BY <1>h, <2>7, OthersTold
    <3>2. Left(u)'
      BY <2>1, <3>1 DEF Budget, Left
    <3>3. QED
      BY <3>1, <3>2
  <2>8. SeenIsFilled' /\ Cardinality(Seen(ex')) <= Amount
    BY <2>1 DEF SeenIsFilled, Budget
  <2>9. QED
    BY <2>5, <2>6, <2>7, <2>8 DEF Budget
<1>5. QED
  BY <1>1, <1>2, <1>3, <1>4 DEF LoopStep

\* A look at an order: what it shows comes off the amount before the order is
\* replaced.
LEMMA FetchedBudgets ==
    ASSUME Reached, Budget, ex' \in Seq(ExchangeOrder), NEW t \in Checks, Fetched(t)
    PROVE  Budget'
<1>c. t \in Threads /\ Handler(t)
  BY DEF Threads, Handler, CheckStep
<1>f. /\ t \in Actors
      /\ pc \in [Actors -> Driving \cup {"queued", "idle", "waiting", "done"}]
      /\ net \in [Actors -> Messages] /\ net[t] \in Messages
      /\ ex \in Seq(ExchangeOrder) /\ exId \in 0..Len(ex) /\ Len(ex) \in Nat
      /\ amount \in Int /\ Amount \in Nat
  BY <1>c, ThreadFacts, OrderExecutorAssumption DEF Reached, Types, TypeOK
<1> DEFINE f == net[t].order.filled
           others == Cardinality(SeenBut(ex, exId))
<1>1. /\ pc[t] = "fetching" /\ net[t].kind = "snapshot" /\ net[t].id = exId
      /\ f <= ex[exId].filled /\ exId \in 1..Len(ex) /\ net[t].order \in ExchangeOrder
      /\ ex' = [ex EXCEPT ![exId] = [ex[exId] EXCEPT !.seen = f]]
      /\ exId' = exId
  BY <1>c, <1>f, Carried DEF Fetched, AnsweredWith, Budget, Told
<1>2. f \in 0..Amount /\ ex[exId] \in ExchangeOrder
  <2>1. f \in 0..Amount
    BY <1>1 DEF ExchangeOrder
  <2>2. ex[exId] \in ExchangeOrder
    BY <1>f, <1>1
  <2>3. QED
    BY <2>1, <2>2
<1>3. \/ pc'[t] = "idle" /\ amount' \in {amount, amount - f}
      \/ pc'[t] = "canceling" /\ amount' = amount - f
  <2>1. \/ Goto(t, "idle") /\ amount' = amount
        \/ Goto(t, "canceling") /\ amount' = IF f > 0 THEN amount - f ELSE amount
    BY DEF Fetched
  <2>2. amount' = (IF f > 0 THEN amount - f ELSE amount) => amount' = amount - f
    BY <1>f, <1>2
  <2>3. pc' = [pc EXCEPT ![t] = "idle"] => pc'[t] = "idle"
    BY <1>f
  <2>4. pc' = [pc EXCEPT ![t] = "canceling"] => pc'[t] = "canceling"
    BY <1>f
  <2>5. QED
    BY <2>1, <2>2, <2>3, <2>4 DEF Goto
<1> HIDE DEF f
<1>4. /\ Len(ex') = Len(ex)
      /\ \A j \in 1..Len(ex) : j # exId => ex'[j] = ex[j]
      /\ ex'[exId].seen = f /\ ex'[exId].amount = ex[exId].amount
      /\ ex'[exId].filled = ex[exId].filled
  <2>1. /\ Len(ex') = Len(ex)
        /\ \A j \in 1..Len(ex) : j # exId => ex'[j] = ex[j]
        /\ ex'[exId] = [ex[exId] EXCEPT !.seen = f]
    BY <1>f, <1>1
  <2>2. /\ [ex[exId] EXCEPT !.seen = f].seen = f
        /\ [ex[exId] EXCEPT !.seen = f].amount = ex[exId].amount
        /\ [ex[exId] EXCEPT !.seen = f].filled = ex[exId].filled
    BY <1>2 DEF ExchangeOrder
  <2>3. QED
    BY <2>1, <2>2
<1>5. SeenIsFilled'
  <2>1. ASSUME NEW j \in 1..Len(ex)
        PROVE  ex'[j].seen <= ex'[j].filled /\ ex'[j].filled <= ex'[j].amount
    <3>1. ex[j].seen <= ex[j].filled /\ ex[j].filled <= ex[j].amount
      BY DEF Budget, SeenIsFilled
    <3>2. QED
      BY <1>1, <1>4, <3>1
  <2>2. QED
    BY <1>4, <2>1 DEF SeenIsFilled
<1>6. SeenBut(ex', exId) = SeenBut(ex, exId)
  <2>1. SeenAlike(ex, ex', exId)
    BY <1>f, <1>4 DEF SeenAlike
  <2>2. QED
    BY <1>f, <1>1, <2>1, SeenStays
<1>7. others \in Nat /\ Cardinality(Seen(ex')) = others + f
  <2>1. exId \in 1..Len(ex')
    BY <1>1, <1>4
  <2>2. /\ Cardinality(SeenBut(ex', exId)) \in Nat
        /\ Cardinality(Seen(ex')) = Cardinality(SeenBut(ex', exId)) + ex'[exId].seen
    BY <2>1, SeenSplit
  <2>3. QED
    BY <1>4, <1>6, <2>2
<1>8. /\ amount <= ex[exId].amount /\ ex[exId].amount + others <= Amount
      /\ ex[exId].filled <= ex[exId].amount
      /\ ex[exId].filled \in Nat /\ ex[exId].amount \in Nat
  <2>1. exId # 0
    BY <1>1
  <2>2. ex[exId].filled \in Nat /\ ex[exId].amount \in Nat
    BY <1>2, OrderExecutorAssumption DEF ExchangeOrder
  <2>3. QED
    BY <1>1, <2>1, <2>2 DEF Budget, OrderFits, SeenIsFilled
<1> HIDE DEF others
<1>9. Cardinality(Seen(ex')) <= Amount
  BY <1>1, <1>2, <1>7, <1>8, <1>f
<1>10. OrderFits'
  <2>1. amount' <= ex[exId].amount
    BY <1>2, <1>3, <1>8, <1>f
  <2>2. QED
    BY <1>1, <1>4, <1>6, <1>8, <2>1 DEF OrderFits, others
<1>11. Told(t)' /\ Left(t)'
  <2>1. pc'[t] = "canceling" => amount' + Cardinality(Seen(ex')) <= Amount
    BY <1>2, <1>3, <1>7, <1>8, <1>f
  <2>2. QED
    BY <1>3, <2>1 DEF Told, Left, Submitting
<1>12. ASSUME NEW u \in Threads, u # t PROVE Told(u)' /\ Left(u)'
  <2>1. Told(u)' /\ pc'[u] = pc[u]
    BY <1>c, <1>12, OthersTold
  <2>2. pc[u] \notin Submitting
    <3>1. pc[u] \notin Driving
      BY <1>c, <1>1, <1>12, DriverAlone DEF Driving
    <3>2. pc[u] # "queued"
      <4>1. u \in Checks => pc[u] # "queued"
        BY DEF Reached, IInv, PlacesOK, Driving
      <4>2. u = Main => pc[u] # "queued"
        BY <1>1 DEF Reached, IInv, AloneAtFirst
      <4>3. QED
        BY <4>1, <4>2 DEF Threads
    <3>3. QED
      BY <3>1, <3>2 DEF Submitting, Driving
  <2>3. QED
    BY <2>1, <2>2 DEF Left
<1>13. QED
  BY <1>5, <1>9, <1>10, <1>11, <1>12 DEF Budget

\* The other steps of a monitor callback.
LEMMA CheckBudgets ==
    ASSUME Reached, Budget, ex' \in Seq(ExchangeOrder), NEW t \in Checks, CheckStep(t)
    PROVE  Budget'
<1>c. t \in Threads /\ Handler(t)
  BY DEF Threads, Handler
<1>f. /\ t \in Actors
      /\ pc \in [Actors -> Driving \cup {"queued", "idle", "waiting", "done"}]
      /\ net \in [Actors -> Messages]
  BY <1>c, ThreadFacts
<1>1. CASE TimerFires(t)
  <2>1. ex' = ex /\ amount' = amount /\ exId' = exId /\ pc[t] = "idle"
    BY <1>1 DEF TimerFires, order, exchange
  <2>2. \/ pc'[t] = "idle"
        \/ pc'[t] = "failing"
        \/ pc'[t] = "fetching" /\ net'[t] = [kind |-> "fetch", id |-> exId]
    BY <1>f, <1>1, <2>1 DEF TimerFires, BeginCheck, Goto, Send
  <2>3. Told(t)' /\ pc'[t] \notin Submitting
    BY <2>1, <2>2 DEF Told, Submitting
  <2>4. QED
    BY <1>c, <2>1, <2>3, BlindKeeps
<1>2. CASE GaveUp(t) \/ CheckFailed(t) \/ CheckCanceled(t) \/ Resubmit(t)
  <2>1. /\ ex' = ex /\ amount' = amount /\ exId' = exId
        /\ \/ pc'[t] = "idle"
           \/ pc[t] = "canceling" /\ pc'[t] = "pricing"
           \/ pc[t] = "pricing" /\ pc'[t] = "retry"
    BY <1>f, <1>2 DEF GaveUp, CheckFailed, CheckCanceled, Resubmit, Goto, order, exchange
  <2>2. Told(t)' /\ (pc'[t] \in Submitting => pc[t] \in Submitting)
    BY <2>1 DEF Told, Submitting
  <2>3. QED
    BY <1>c, <2>1, <2>2, BlindKeeps
<1>3. CASE Fetched(t)
  BY <1>3, FetchedBudgets
<1>4. QED
  BY <1>1, <1>2, <1>3 DEF CheckStep

\* A step that moves no thread of the executor and shows it nothing.
LEMMA OutsideKeeps ==
    ASSUME Reached, Budget, ex' \in Seq(ExchangeOrder),
           exId' = exId, amount' = amount, SeenAlike(ex, ex', 0), SeenIsFilled',
           \A j \in 1..Len(ex) : ex'[j].amount = ex[j].amount,
           \A t \in Threads : pc'[t] = pc[t] /\ Told(t)'
    PROVE  Budget'
<1>1. Unseen
  BY DEF Unseen
<1>2. QED
  BY <1>1, UnseenKeeps DEF Budget

\* What a thread has been told stays true while its order only fills.
LEMMA ToldStays ==
    ASSUME Reached, Budget, NEW t \in Threads, pc'[t] = pc[t], net'[t] = net[t],
           exId' = exId, amount' = amount,
           \A j \in 1..Len(ex) : /\ ex'[j].amount = ex[j].amount
                                 /\ ex'[j].seen = ex[j].seen
                                 /\ ex'[j].filled \in Int /\ ex[j].filled <= ex'[j].filled
    PROVE  Told(t)'
<1>1. net[t] \in Messages /\ Told(t) /\ ex \in Seq(ExchangeOrder)
  BY ThreadFacts DEF Budget
<1>2. net[t].kind = "created" => net[t].id \in 1..Len(ex)
  BY <1>1, Carried
<1>3. ASSUME pc[t] = "fetching", net[t].kind = "snapshot"
      PROVE  net[t].order.filled <= ex'[exId].filled
  <2>1. /\ net[t].id = exId /\ exId \in 1..Len(ex) /\ net[t].order \in ExchangeOrder
        /\ net[t].order.filled <= ex[exId].filled
    BY <1>1, <1>3, Carried DEF Told
  <2>2. net[t].order.filled \in Nat /\ ex[exId].filled \in Nat
    BY <1>1, <2>1, FilledTyped
  <2>3. QED
    BY <2>1, <2>2
<1>4. QED
  BY <1>1, <1>2, <1>3 DEF Told

\* The exchange accepts an order for what is left, shows it as it is, and fills
\* no more of it than was asked for.
LEMMA ExchangeBudgets ==
    ASSUME Reached, Budget, ex' \in Seq(ExchangeOrder), NEW a \in Actors, ExchangeStep(a)
    PROVE  Budget'
<1>f. /\ net \in [Actors -> Messages] /\ net[a] \in Messages
      /\ ex \in Seq(ExchangeOrder) /\ exId \in 0..Len(ex) /\ Len(ex) \in Nat
      /\ \A t \in Threads : t \in Actors
      /\ a \in Threads \/ a = User
      /\ \A j \in 1..Len(ex) : ex[j] \in ExchangeOrder
  BY DEF Reached, Types, TypeOK, Actors
<1>g. \A j \in 1..Len(ex) : ex[j].filled \in Nat
  BY <1>f, FilledTyped
<1>2. /\ pc' = pc /\ exId' = exId /\ amount' = amount
      /\ \A t \in Threads : t # a => net'[t] = net[t]
  <2>1. pc' = pc /\ exId' = exId /\ amount' = amount
    BY DEF ExchangeStep, ExchangeCreate, ExchangeFetch, ExchangeCancel, order
  <2>2. \A t \in Threads : t # a => net'[t] = net[t]
    BY <1>f DEF ExchangeStep, ExchangeCreate, ExchangeFetch, ExchangeCancel, Send
  <2>3. QED
    BY <2>1, <2>2
<1>3. CASE ExchangeCreate(a)
  <2>1. net[a].kind = "create" /\ net[a].amount \in 1..Amount
    BY <1>f, <1>3, Carried DEF ExchangeCreate
  <2> DEFINE new == [state |-> "open", amount |-> net[a].amount, filled |-> 0, seen |-> 0]
  <2>2. \/ ex' = ex
        \/ ex' = Append(ex, new)
    BY <1>3 DEF ExchangeCreate, Accepted
  <2>3. \/ net'[a].kind = "error"
        \/ net'[a].kind = "created" /\ net'[a].id = Len(ex) + 1 /\ ex' = Append(ex, new)
    BY <1>f, <1>3 DEF ExchangeCreate, Accepted, Send
  <2>4. new.amount = net[a].amount /\ new.filled = 0 /\ new.seen = 0
    OBVIOUS
  <2> HIDE DEF new
  <2>5. ex' = Append(ex, new) => /\ Len(ex') = Len(ex) + 1 /\ ex'[Len(ex) + 1] = new
                                /\ \A j \in 1..Len(ex) : ex'[j] = ex[j]
    BY <1>f
  <2>6. SeenAlike(ex, ex', 0) /\ \A j \in 1..Len(ex) : ex'[j] = ex[j]
    <3>1. CASE ex' = ex
      BY <1>f, <3>1 DEF SeenAlike
    <3>2. CASE ex' = Append(ex, new)
      <4>1. \A j \in 1..Len(ex') : j > Len(ex) => j = Len(ex) + 1
        BY <1>f, <2>5, <3>2
      <4>2. QED
        BY <1>f, <2>4, <2>5, <3>2, <4>1 DEF SeenAlike
    <3>3. QED
      BY <2>2, <3>1, <3>2
  <2>7. SeenIsFilled'
    <3>1. CASE ex' = ex
      BY <3>1 DEF SeenIsFilled, Budget
    <3>2. CASE ex' = Append(ex, new)
      <4>1. ASSUME NEW j \in 1..Len(ex')
            PROVE  ex'[j].seen <= ex'[j].filled /\ ex'[j].filled <= ex'[j].amount
        <5>1. CASE j \in 1..Len(ex)
          BY <2>5, <3>2, <5>1 DEF Budget, SeenIsFilled
        <5>2. CASE j = Len(ex) + 1
          BY <2>1, <2>4, <2>5, <3>2, <5>2, OrderExecutorAssumption
        <5>3. QED
          BY <1>f, <2>5, <3>2, <5>1, <5>2
      <4>2. QED
        BY <4>1 DEF SeenIsFilled
    <3>3. QED
      BY <2>2, <3>1, <3>2
  <2>8. ASSUME NEW t \in Threads PROVE Told(t)'
    <3>1. CASE t # a
      BY <1>2, <1>g, <2>6, <3>1, ToldStays
    <3>2. CASE t = a
      <4>1. pc[t] = "creating" /\ net[t].amount = amount
        BY <2>1, <3>2 DEF Reached, MessagesFit, Fits, Budget, Told
      <4>2. QED
        BY <1>2, <2>3, <2>4, <2>5, <3>2, <4>1 DEF Told
    <3>3. QED
      BY <3>1, <3>2
  <2>9. QED
    BY <1>2, <2>6, <2>7, <2>8, OutsideKeeps
<1>4. CASE ExchangeFetch(a)
  <2>1. ex' = ex /\ net[a].kind = "fetch"
    BY <1>4 DEF ExchangeFetch
  <2>2. SeenAlike(ex, ex', 0) /\ SeenIsFilled'
    BY <1>f, <2>1 DEF SeenAlike, SeenIsFilled, Budget
  <2>3. ASSUME NEW t \in Threads PROVE Told(t)'
    <3>1. CASE t # a
      BY <1>2, <1>g, <2>1, <3>1, ToldStays
    <3>2. CASE t = a
      <4>1. pc[t] = "fetching" /\ net[t].id = exId
        BY <2>1, <3>2 DEF Reached, MessagesFit, Fits, Budget, Told
      <4>2. \/ net'[t].kind = "error"
            \/ net'[t] = [kind |-> "snapshot", id |-> exId, order |-> ex[exId]]
        BY <1>f, <1>4, <3>2, <4>1 DEF ExchangeFetch, Send
      <4>3. exId \in 1..Len(ex)
        BY <1>f, <2>1, <3>2, <4>1, Carried
      <4>4. ex[exId].filled \in Nat
        BY <1>g, <4>3
      <4>5. QED
        BY <1>2, <2>1, <4>1, <4>2, <4>4 DEF Told
    <3>3. QED
      BY <3>1, <3>2
  <2>4. QED
    BY <1>2, <2>1, <2>2, <2>3, OutsideKeeps
<1>5. CASE ExchangeCancel(a)
  <2> DEFINE i == net[a].id
  <2>1. /\ net[a].kind = "cancel" /\ i \in 1..Len(ex)
        /\ net'[a].kind \in {"canceled", "error"}
        /\ ex' = ex \/ ex' = CanceledAt(i)
    BY <1>f, <1>5, Carried DEF ExchangeCancel, Send
  <2> HIDE DEF i
  <2>2. \/ ex' = ex
        \/ ex' = [ex EXCEPT ![i] = [ex[i] EXCEPT !.state = "canceled"]]
    BY <2>1 DEF CanceledAt
  <2>3. ex[i] \in ExchangeOrder
    BY <1>f, <2>1
  <2>4. /\ [ex[i] EXCEPT !.state = "canceled"].amount = ex[i].amount
        /\ [ex[i] EXCEPT !.state = "canceled"].filled = ex[i].filled
        /\ [ex[i] EXCEPT !.state = "canceled"].seen = ex[i].seen
    BY <2>3 DEF ExchangeOrder
  <2>5. /\ Len(ex') = Len(ex)
        /\ \A j \in 1..Len(ex) : /\ ex'[j].amount = ex[j].amount
                                 /\ ex'[j].filled = ex[j].filled
                                 /\ ex'[j].seen = ex[j].seen
    <3> DEFINE closed == [ex[i] EXCEPT !.state = "canceled"]
    <3>1. closed.amount = ex[i].amount /\ closed.filled = ex[i].filled /\ closed.seen = ex[i].seen
      BY <2>4
    <3> HIDE DEF closed
    <3>2. CASE ex' = ex
      BY <3>2
    <3>3. CASE ex' = [ex EXCEPT ![i] = closed]
      <4>1. /\ Len(ex') = Len(ex) /\ ex'[i] = closed
            /\ \A j \in 1..Len(ex) : j # i => ex'[j] = ex[j]
        BY <1>f, <2>1, <3>3
      <4>2. QED
        BY <3>1, <4>1
    <3>4. QED
      BY <2>2, <3>2, <3>3 DEF closed
  <2>6. SeenAlike(ex, ex', 0) /\ SeenIsFilled'
    BY <1>f, <2>5 DEF SeenAlike, SeenIsFilled, Budget
  <2>7. ASSUME NEW t \in Threads PROVE Told(t)'
    <3>1. CASE t # a
      BY <1>2, <1>g, <2>5, <3>1, ToldStays
    <3>2. CASE t = a
      <4>1. pc[t] \in {"canceling", "failing"}
        BY <2>1, <3>2 DEF Reached, MessagesFit, Fits
      <4>2. QED
        BY <1>2, <4>1 DEF Told
    <3>3. QED
      BY <3>1, <3>2
  <2>8. QED
    BY <1>2, <2>5, <2>6, <2>7, OutsideKeeps
<1>6. QED
  BY <1>3, <1>4, <1>5 DEF ExchangeStep

\* A trade fills one unit more of an order that has one left.
LEMMA TradeBudgets ==
    ASSUME Reached, Budget, ex' \in Seq(ExchangeOrder), NEW n \in 1..Len(ex), Trade(n)
    PROVE  Budget'
<1> DEFINE later == [ex[n] EXCEPT !.filled = @ + 1,
                       !.state = IF ex[n].filled + 1 = ex[n].amount THEN "closed" ELSE "open"]
<1>f. /\ ex \in Seq(ExchangeOrder) /\ Len(ex) \in Nat
      /\ \A j \in 1..Len(ex) : ex[j] \in ExchangeOrder
      /\ ex[n].state = "open" /\ ex[n].filled < ex[n].amount
      /\ pc' = pc /\ net' = net /\ exId' = exId /\ amount' = amount
  BY DEF Reached, Types, TypeOK, Fillable, Trade, order
<1>g. \A j \in 1..Len(ex) : /\ ex[j].filled \in Nat /\ ex[j].amount \in Nat
                            /\ ex[j].seen \in Nat
  <2>1. ASSUME NEW o \in ExchangeOrder
        PROVE  o.filled \in Nat /\ o.amount \in Nat /\ o.seen \in Nat
    BY OrderExecutorAssumption DEF ExchangeOrder
  <2>2. QED
    BY <1>f, <2>1
<1>1. ex' = [ex EXCEPT ![n] = later]
  BY DEF Trade
<1>2. /\ later.amount = ex[n].amount /\ later.seen = ex[n].seen
      /\ later.filled = ex[n].filled + 1
  BY <1>f DEF ExchangeOrder
<1> HIDE DEF later
<1>3. /\ Len(ex') = Len(ex) /\ \A j \in 1..Len(ex) : j # n => ex'[j] = ex[j]
      /\ ex'[n] = later
  BY <1>f, <1>1
<1>4. \A j \in 1..Len(ex) :
         /\ ex'[j].amount = ex[j].amount /\ ex'[j].seen = ex[j].seen
         /\ ex'[j].filled = ex[j].filled \/ (j = n /\ ex'[j].filled = ex[j].filled + 1)
  BY <1>2, <1>3
<1>5. SeenIsFilled'
  <2>1. ASSUME NEW j \in 1..Len(ex)
        PROVE  ex'[j].seen <= ex'[j].filled /\ ex'[j].filled <= ex'[j].amount
    <3>1. /\ ex[j].seen <= ex[j].filled /\ ex[j].filled <= ex[j].amount
          /\ ex[j].seen \in Nat /\ ex[j].filled \in Nat /\ ex[j].amount \in Nat
      BY <1>g DEF Budget, SeenIsFilled
    <3>2. CASE ex'[j].filled = ex[j].filled
      BY <1>4, <3>1, <3>2
    <3>3. CASE j = n /\ ex'[j].filled = ex[j].filled + 1
      <4>1. ex[j].filled + 1 <= ex[j].amount
        BY <1>f, <3>1, <3>3
      <4>2. QED
        BY <1>4, <3>1, <3>3, <4>1
    <3>4. QED
      BY <1>4, <3>2, <3>3
  <2>2. QED
    BY <1>3, <2>1 DEF SeenIsFilled
<1>6. SeenAlike(ex, ex', 0)
  BY <1>f, <1>3, <1>4 DEF SeenAlike
<1>7. \A j \in 1..Len(ex) : ex'[j].filled \in Int /\ ex[j].filled <= ex'[j].filled
  BY <1>g, <1>4
<1>8. \A t \in Threads : Told(t)'
  BY <1>f, <1>4, <1>7, ToldStays
<1>9. QED
  BY <1>f, <1>4, <1>5, <1>6, <1>8, OutsideKeeps

LEMMA BudgetStep == Reached /\ Reached' /\ Budget /\ [Next]_vars => Budget'
<1> SUFFICES ASSUME Reached, Reached', Budget, [Next]_vars PROVE Budget'
  OBVIOUS
<1>f. ex' \in Seq(ExchangeOrder)
  <2>1. ExchangeOrder' = ExchangeOrder
    BY DEF ExchangeOrder
  <2>2. QED
    BY <2>1 DEF Reached, Types, TypeOK
<1>1. CASE Start
  BY <1>1, LoopBudgets DEF Threads
<1>2. ASSUME NEW t \in Threads, LoopStep(t) PROVE Budget'
  BY <1>2, LoopBudgets
<1>3. ASSUME NEW t \in Checks, CheckStep(t) PROVE Budget'
  BY <1>3, <1>f, CheckBudgets
<1>4. CASE UserStep
  <2>1. Apart
    BY <1>4, UserApart DEF Reached
  <2>2. ex' = ex /\ amount' = amount
    BY <1>4 DEF UserStep, CancelCalled, CancelReturnsTrue, CancelReturnsFalse, order, exchange
  <2>3. QED
    BY <2>1, <2>2 DEF Apart, Budget, SeenIsFilled, OrderFits, Told, Left
<1>5. ASSUME NEW a \in Actors, ExchangeStep(a) PROVE Budget'
  BY <1>5, <1>f, ExchangeBudgets
<1>6. ASSUME NEW n \in 1..Len(ex), Trade(n) PROVE Budget'
  BY <1>6, <1>f, TradeBudgets
<1>7. CASE QueueTimeout \/ UNCHANGED vars
  <2>1. pc' = pc /\ net' = net /\ exId' = exId /\ ex' = ex /\ amount' = amount
    BY <1>7 DEF QueueTimeout, vars, order, exchange
  <2>2. QED
    BY <2>1 DEF Budget, SeenIsFilled, OrderFits, Told, Left
<1>8. QED
  BY <1>1, <1>2, <1>3, <1>4, <1>5, <1>6, <1>7 DEF Next

LEMMA InitBudget == Init => Budget
<1> SUFFICES ASSUME Init PROVE Budget
  OBVIOUS
<1>1. ex = <<>> /\ amount = Amount /\ exId = 0 /\ Len(ex) = 0 /\ Amount \in Nat
  BY OrderExecutorAssumption DEF Init
<1>2. Seen(ex) = {}
  BY <1>1 DEF Seen
<1>3. Cardinality(Seen(ex)) = 0
  BY <1>2, FS_EmptySet
<1>4. \A t \in Threads : Left(t)
  BY <1>1, <1>3 DEF Left
<1>5. \A t \in Threads : Told(t)
  BY OrderExecutorAssumption DEF Init, Told, Threads, Actors, Main, User
<1>6. SeenIsFilled /\ OrderFits
  BY <1>1 DEF SeenIsFilled, OrderFits
<1>7. QED
  BY <1>1, <1>3, <1>4, <1>5, <1>6 DEF Budget

\* What is bought is what has been seen and what filled after it.
LEMMA BudgetSuffices ==
    ASSUME Reached, Budget PROVE OverfillIsLate
<1>1. ex \in Seq(ExchangeOrder) /\ Len(ex) \in Nat /\ Amount \in Nat
  BY OrderExecutorAssumption DEF Reached, Types, TypeOK
<1>2. /\ Bought \subseteq (1..Len(ex)) \X (1..Amount)
      /\ BoughtLate \subseteq (1..Len(ex)) \X (1..Amount)
      /\ Seen(ex) \subseteq (1..Len(ex)) \X (1..Amount)
  BY DEF Bought, BoughtLate, Seen, Units
<1>3. /\ IsFiniteSet(BoughtLate) /\ Cardinality(BoughtLate) \in Nat
      /\ IsFiniteSet(Seen(ex)) /\ Cardinality(Seen(ex)) \in Nat
  BY <1>1, <1>2, UnitsFinite
<1>4. Bought \subseteq Seen(ex) \cup BoughtLate
  <2> SUFFICES ASSUME NEW u \in Bought, u \notin Seen(ex) PROVE u \in BoughtLate
    OBVIOUS
  <2>1. u[1] \in 1..Len(ex) /\ u[2] \in 1..Amount /\ u \in (1..Len(ex)) \X (1..Amount)
    BY DEF Bought, Units
  <2>2. ex[u[1]] \in ExchangeOrder
    BY <1>1, <2>1
  <2>3. ex[u[1]].seen \in 0..Amount
    BY <2>2 DEF ExchangeOrder
  <2>4. ~(u[2] <= ex[u[1]].seen)
    BY <2>1 DEF Seen
  <2>5. u[2] > ex[u[1]].seen
    BY <1>1, <2>1, <2>3, <2>4
  <2>6. QED
    BY <2>5 DEF BoughtLate
<1>5. /\ IsFiniteSet(Seen(ex) \cup BoughtLate)
      /\ Cardinality(Seen(ex) \cup BoughtLate)
           = Cardinality(Seen(ex)) + Cardinality(BoughtLate)
             - Cardinality(Seen(ex) \cap BoughtLate)
  BY <1>3, FS_Union
<1>6. Cardinality(Bought) <= Cardinality(Seen(ex) \cup BoughtLate)
  BY <1>4, <1>5, FS_Subset
<1>7. Cardinality(Seen(ex) \cap BoughtLate) \in Nat /\ Cardinality(Bought) \in Nat
  <2>1. Seen(ex) \cap BoughtLate \subseteq (1..Len(ex)) \X (1..Amount)
    BY <1>2
  <2>2. QED
    BY <1>1, <1>2, <2>1, UnitsFinite
<1>8. Cardinality(Seen(ex)) <= Amount
  BY DEF Budget
<1>9. QED
  BY <1>1, <1>3, <1>5, <1>6, <1>7, <1>8 DEF OverfillIsLate, TotalFilled, LateFills

(* Whatever fails, answers that are lost included, and whenever the user   *)
(* cancels: the orders of the executor together buy more than was asked    *)
(* for only by what filled after the last look it took at each of them,    *)
(* since _checkAndResubmitOrder() takes what it sees off the amount before *)
(* the next order is submitted.                                            *)
THEOREM NothingAskedTwice == Spec => []OverfillIsLate
<1> DEFINE Inv == Reached /\ Budget
<1>1. Init => Inv
  BY Initial, InitTypes, InitFit, InitOver, InitBudget DEF Reached
<1>2. Inv /\ [Next]_vars => Inv'
  <2> SUFFICES ASSUME Inv, [Next]_vars PROVE Inv'
    OBVIOUS
  <2>1. IInv'
    BY Inductive DEF Reached
  <2>2. Types'
    BY <2>1, TypesStep DEF Reached
  <2>3. MessagesFit' /\ QueuedIsNew'
    BY FitStep DEF Reached
  <2>4. FilledIsOver'
    BY OverStep DEF Reached
  <2>5. Reached'
    BY <2>1, <2>2, <2>3, <2>4 DEF Reached
  <2>6. QED
    BY <2>5, BudgetStep
<1>3. Inv => OverfillIsLate
  BY BudgetSuffices
<1>4. QED
  BY <1>1, <1>2, <1>3, PTL DEF Spec
=============================================================================
