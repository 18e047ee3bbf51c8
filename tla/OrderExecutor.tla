---------------------------- MODULE OrderExecutor ----------------------------
(***************************************************************************)
(* One limit order of SmartOrderExecutor (src/executor/orderExecutor.js):  *)
(* executeSmartLimitOrder() and its retry loop, the monitor that cancels   *)
(* and submits again what has not filled, the poll that waits for the      *)
(* final status, the user's cancelOrder(), and the exchange.               *)
(*                                                                         *)
(* Every await splits a handler: an action is the code between two awaits. *)
(* orderInfo is shared by all of them:                                     *)
(*   Main    the task executeSmartLimitOrder() puts in the account queue,  *)
(*   Checks  the callbacks of monitor timers (_checkAndResubmitOrder),     *)
(*           each of which may run the retry loop and wait in it,          *)
(*   User    a call of cancelOrder().                                      *)
(* Prices and the wording of errors are left out; an error is the class    *)
(* that _analyzeError() gives it.                                          *)
(***************************************************************************)
EXTENDS Integers, Sequences, FiniteSets

CONSTANTS Checks,        \* monitor callbacks that can be in flight together
          Amount,        \* params.amount
          NegligibleDen, \* a remainder below amount / NegligibleDen counts as filled
          MaxResubmit,   \* config.maxResubmitAttempts
          RateLimitMaxRetries,  \* config.rateLimitMaxRetries (never read)
          Plans          \* bounds: what may disturb an order, see AllPlans

Main == "main"
User == "user"
Threads == Checks \cup {Main}
Actors == Threads \cup {User}

\* errors of createOrder() by class; "lost": the order is accepted and the
\* answer is not received; "fetch", "cancel": fetchOrder, cancelOrder fail
AllFaults == {"rateLimit", "nonce", "rejected", "network",
              "lost", "fetch", "cancel"}

\* the ways the exchange may fail a call, how often it does, and the calls of
\* cancelOrder()
AllPlans == [kinds : SUBSET AllFaults, faults : Nat, cancels : Nat]

ASSUME OrderExecutorAssumption ==
    /\ Amount \in Nat \ {0} /\ NegligibleDen \in Nat \ {0}
    /\ MaxResubmit \in Nat /\ RateLimitMaxRetries \in Nat
    /\ Plans \subseteq AllPlans
    /\ IsFiniteSet(Checks)
    /\ Cardinality(Checks) > MaxResubmit
    /\ Main \notin Checks /\ User \notin Checks

VARIABLES
    status,         \* orderInfo.status
    amount,         \* orderInfo.amount, reduced as fills are seen
    filledAmount,   \* orderInfo.filledAmount
    resubmitCount,  \* orderInfo.resubmitCount
    exId,           \* orderInfo.exchangeOrderId, 0 for null
    active,         \* the order is in activeOrders
    monitor,        \* its entry in orderMonitors: none, or a timer's state
    strays,         \* pending monitor timers that orderMonitors lost
    pc,             \* what each thread and the user wait for
    net,            \* the call of each on its way to the exchange, or its answer
    answer,         \* what executeSmartLimitOrder() returned
    canceled,       \* a cancelOrder() has returned true
    filledEvents,   \* orderFilled events, stats.filledOrders
    rateRetries,    \* 429 answers this order has retried
    ex,             \* the exchange's orders, by number
    faults,         \* calls the exchange has failed
    cancels,        \* calls of cancelOrder() so far
    plan            \* bound: one of Plans, never changes

order == <<status, amount, filledAmount, resubmitCount, exId, active>>
timers == <<monitor, strays>>
outcome == <<answer, canceled, filledEvents, rateRetries>>
exchange == <<ex, faults>>
vars == <<order, timers, pc, net, outcome, exchange, cancels, plan>>

Final == {"filled", "canceled", "failed"}
Quiet == [kind |-> "none"]

Init ==
    /\ status = "pending" /\ amount = Amount /\ filledAmount = 0
    /\ resubmitCount = 0 /\ exId = 0 /\ active = TRUE
    /\ monitor = "none" /\ strays = 0
    /\ pc = [a \in Actors |-> IF a = Main THEN "queued" ELSE "idle"]
    /\ net = [a \in Actors |-> Quiet]
    /\ answer = "none" /\ canceled = FALSE
    /\ filledEvents = 0 /\ rateRetries = 0
    /\ ex = <<>> /\ faults = 0 /\ cancels = 0 /\ plan \in Plans

-----------------------------------------------------------------------------
(* Steps the handlers share.                                               *)

Goto(a, place) == pc' = [pc EXCEPT ![a] = place]

\* a call leaves for the exchange, or its answer has been consumed
Send(a, request) == net' = [net EXCEPT ![a] = request]
Consume(a) == Send(a, Quiet)
Answered(a) == net[a].kind \in {"created", "error", "snapshot", "canceled"}
AnsweredWith(a, kind) == net[a].kind = kind

\* _startOrderMonitor when orderMonitors holds `entry': the new timer
\* replaces it, cleared or not
StartMonitor(entry) ==
    /\ monitor' = "pending"
    /\ strays' = IF entry = "pending" THEN strays + 1 ELSE strays

\* _clearOrderMonitor
ClearMonitor == monitor' = "none" /\ UNCHANGED strays

\* _cancelOrder: without an exchange id there is nothing to call
SendCancel(a) ==
    Send(a, IF exId = 0 THEN [kind |-> "canceled"]
            ELSE [kind |-> "cancel", id |-> exId])

\* the promise of the queue settles once; later results are dropped
Settle(result) == answer' = IF answer = "none" THEN result ELSE answer

-----------------------------------------------------------------------------
(* The retry loop, _executeOrderWithRetry, run by Main and by Checks.      *)

\* an exception leaves the loop: executeSmartLimitOrder() marks the order
\* failed unless the queue has given up on the task, and
\* _checkAndResubmitOrder() starts another monitor.  `entry' is what
\* orderMonitors holds when the exception leaves the loop
Throw(t, entry) ==
    /\ IF t = Main
       THEN /\ Goto(t, "done")
            /\ Settle("failed")
            /\ IF answer = "none"
               THEN status' = "failed" /\ active' = FALSE
               ELSE UNCHANGED <<status, active>>
            /\ monitor' = entry /\ UNCHANGED strays
       ELSE /\ Goto(t, "idle")
            /\ StartMonitor(entry)
            /\ UNCHANGED <<status, active, answer>>
    /\ UNCHANGED <<amount, filledAmount, resubmitCount, exId, canceled,
                   filledEvents>>

\* the default branch of the catch block: another attempt, or give up
RetryOrThrow(t, entry) ==
    \/ /\ resubmitCount >= MaxResubmit
       /\ Throw(t, entry)
    \/ /\ resubmitCount < MaxResubmit
       /\ resubmitCount' = resubmitCount + 1
       /\ Goto(t, "retry")
       /\ monitor' = entry
       /\ UNCHANGED <<status, amount, filledAmount, exId, active, strays,
                      answer, canceled, filledEvents>>

\* the queue starts the task
Start ==
    /\ pc[Main] = "queued"
    /\ Goto(Main, "retry")
    /\ UNCHANGED <<order, timers, net, outcome, exchange, cancels, plan>>

\* an iteration begins: createOrder() is called with the amount of now.  The
\* loop condition always holds (TypeOK), so the throw after the loop is dead.
SendCreate(t) ==
    /\ pc[t] = "retry"
    /\ resubmitCount <= MaxResubmit
    /\ Send(t, [kind |-> "create", amount |-> amount])
    /\ Goto(t, "creating")
    /\ UNCHANGED <<order, timers, outcome, exchange, cancels, plan>>

\* createOrder() returned an order
Created(t) ==
    /\ pc[t] = "creating" /\ AnsweredWith(t, "created")
    /\ exId' = net[t].id
    /\ status' = "submitted"
    /\ StartMonitor(monitor)
    /\ Goto(t, "waiting")
    /\ Consume(t)
    /\ UNCHANGED <<amount, filledAmount, resubmitCount, active, outcome,
                   exchange, cancels, plan>>

\* createOrder() threw: the four ways of the catch block
CreateFailed(t) ==
    /\ pc[t] = "creating" /\ AnsweredWith(t, "error")
    /\ Consume(t)
    /\ \/ /\ net[t].error \in {"rateLimit", "nonce"}
          /\ rateRetries' = IF net[t].error = "rateLimit" THEN rateRetries + 1
                            ELSE rateRetries
          /\ Goto(t, "retry")
          /\ UNCHANGED <<order, timers, answer, canceled, filledEvents>>
       \/ /\ net[t].error = "rejected"
          /\ Throw(t, monitor)
          /\ UNCHANGED rateRetries
       \/ /\ net[t].error = "network"
          /\ RetryOrThrow(t, monitor)
          /\ UNCHANGED rateRetries
    /\ UNCHANGED <<exchange, cancels, plan>>

(* _waitForOrderCompletion: a poll of orderInfo.status, and a timeout that  *)
(* stops the poll.                                                          *)

\* mutant: a filled order is counted again by the poll that sees it
PollFilledCounting(t) ==
    /\ pc[t] = "waiting"
    /\ status = "filled"
    /\ ClearMonitor
    /\ IF t = Main THEN Goto(t, "done") /\ Settle("filled")
                   ELSE Goto(t, "idle") /\ UNCHANGED answer
    /\ filledEvents' = filledEvents + 1
    /\ UNCHANGED <<order, net, canceled, rateRetries, exchange, cancels, plan>>

PollFilled(t) ==
    /\ pc[t] = "waiting"
    /\ status = "filled"
    /\ ClearMonitor
    /\ IF t = Main THEN Goto(t, "done") /\ Settle("filled")
                   ELSE Goto(t, "idle") /\ UNCHANGED answer
    /\ UNCHANGED <<order, net, canceled, filledEvents, rateRetries, exchange,
                   cancels, plan>>

\* the poll clears the monitor and rejects: the catch block of the loop goes
\* on as after a failed call
PollFailed(t) ==
    /\ pc[t] = "waiting"
    /\ status = "failed"
    /\ RetryOrThrow(t, "none")
    /\ UNCHANGED <<net, rateRetries, exchange, cancels, plan>>

\* 60 seconds: after the 30 seconds of the queue, as far as Main goes.  A
\* final status the poll has not seen yet leaves the promise unsettled.
PollTimeout(t) ==
    /\ pc[t] = "waiting"
    /\ t = Main => answer # "none"
    /\ Goto(t, IF t = Main THEN "done" ELSE "idle")
    /\ UNCHANGED <<order, timers, net, outcome, exchange, cancels, plan>>

\* queueTimeout: the queue settles the call without a result while the task
\* goes on
QueueTimeout ==
    /\ pc[Main] \notin {"queued", "done"}
    /\ answer = "none"
    /\ answer' = "undefined"
    /\ UNCHANGED <<order, timers, pc, net, canceled, filledEvents, rateRetries,
                   exchange, cancels, plan>>

-----------------------------------------------------------------------------
(* _checkAndResubmitOrder, the callback of a monitor timer.                *)

\* the callback starts: nothing to do, or give up, or look at the order
BeginCheck(t) ==
    IF status \in Final
    THEN UNCHANGED <<pc, net>>
    ELSE IF resubmitCount >= MaxResubmit
         THEN Goto(t, "failing") /\ SendCancel(t)
         ELSE Goto(t, "fetching") /\ Send(t, [kind |-> "fetch", id |-> exId])

\* callbacks have no identity: the next one is any that is not in flight
NextCheck == CHOOSE t \in Checks : pc[t] = "idle"

\* a pending timer fires, a forgotten one first since it is older;
\* orderMonitors keeps the id of the timer that fired
TimerFires(t) ==
    /\ t \in Checks /\ pc[t] = "idle" /\ t = NextCheck
    /\ monitor = "pending" \/ strays > 0
    /\ IF strays > 0 THEN strays' = strays - 1 /\ UNCHANGED monitor
                     ELSE monitor' = "fired" /\ UNCHANGED strays
    /\ BeginCheck(t)
    /\ UNCHANGED <<order, outcome, exchange, cancels, plan>>

\* mutant: the order is canceled but not marked as failed
GaveUpSilently(t) ==
    /\ pc[t] = "failing" /\ Answered(t)
    /\ Goto(t, "idle") /\ Consume(t)
    /\ UNCHANGED <<order, timers, outcome, exchange, cancels, plan>>

\* attempts are used up: the order is canceled and has failed.  This await is
\* outside the try block, so an exception ends the callback and nothing else.
GaveUp(t) ==
    /\ pc[t] = "failing" /\ Answered(t)
    /\ Goto(t, "idle") /\ Consume(t)
    /\ status' = IF AnsweredWith(t, "error") THEN status ELSE "failed"
    /\ UNCHANGED <<amount, filledAmount, resubmitCount, exId, active, timers,
                   outcome, exchange, cancels, plan>>

\* the order is complete: filled, off the active orders, and announced
MarkFilled ==
    /\ status' = "filled" /\ active' = FALSE
    /\ filledEvents' = filledEvents + 1

\* mutant: the next order asks again for what has filled
FetchedKeepingAmount(t) ==
    /\ pc[t] = "fetching" /\ AnsweredWith(t, "snapshot")
    /\ LET latest == net[t].order
           complete == latest.state = "closed" \/ latest.filled = latest.amount
       IN  /\ ex' = [ex EXCEPT ![net[t].id].seen = latest.filled]
           /\ filledAmount' = latest.filled
           /\ IF complete
              THEN MarkFilled /\ Goto(t, "idle") /\ Consume(t)
              ELSE /\ Goto(t, "canceling") /\ SendCancel(t)
                   /\ UNCHANGED <<status, active, filledEvents>>
    /\ UNCHANGED <<amount, resubmitCount, exId, timers, answer, canceled,
                   rateRetries, faults, cancels, plan>>

\* mutant: a new order is submitted without canceling the one that is open
FetchedNotCanceling(t) ==
    /\ pc[t] = "fetching" /\ AnsweredWith(t, "snapshot")
    /\ IF net[t].order.state = "closed"
       THEN MarkFilled /\ Goto(t, "idle")
       ELSE Goto(t, "pricing") /\ UNCHANGED <<status, active, filledEvents>>
    /\ Consume(t)
    /\ UNCHANGED <<amount, filledAmount, resubmitCount, exId, timers, answer,
                   canceled, rateRetries, exchange, cancels, plan>>

\* fetchOrder() returned: filled, almost filled, or cancel what remains
Fetched(t) ==
    /\ pc[t] = "fetching" /\ AnsweredWith(t, "snapshot")
    /\ LET latest == net[t].order
           remaining == amount - latest.filled
           complete == latest.state = "closed" \/ latest.filled = latest.amount
           tiny == latest.filled > 0 /\ NegligibleDen * remaining < amount
       IN  /\ ex' = [ex EXCEPT ![net[t].id].seen = latest.filled]
           /\ filledAmount' = IF complete \/ latest.filled > 0
                              THEN latest.filled ELSE filledAmount
           /\ amount' = IF ~complete /\ ~tiny /\ latest.filled > 0
                        THEN remaining ELSE amount
           /\ IF complete \/ tiny
              THEN MarkFilled /\ Goto(t, "idle") /\ Consume(t)
              ELSE /\ Goto(t, "canceling") /\ SendCancel(t)
                   /\ UNCHANGED <<status, active, filledEvents>>
    /\ UNCHANGED <<resubmitCount, exId, timers, answer, canceled, rateRetries,
                   faults, cancels, plan>>

\* mutant: the error is logged and no new monitor starts
CheckFailedUnattended(t) ==
    /\ pc[t] \in {"fetching", "canceling"} /\ AnsweredWith(t, "error")
    /\ Goto(t, "idle") /\ Consume(t)
    /\ UNCHANGED <<order, timers, outcome, exchange, cancels, plan>>

\* fetchOrder() or cancelOrder() threw: the catch block starts a new monitor
CheckFailed(t) ==
    /\ pc[t] \in {"fetching", "canceling"} /\ AnsweredWith(t, "error")
    /\ Goto(t, "idle") /\ Consume(t)
    /\ StartMonitor(monitor)
    /\ UNCHANGED <<order, outcome, exchange, cancels, plan>>

\* _cancelOrder() returned, which it does also when the exchange no longer
\* has the order open; next await: the ticker, for the new price
CheckCanceled(t) ==
    /\ pc[t] = "canceling" /\ AnsweredWith(t, "canceled")
    /\ Goto(t, "pricing") /\ Consume(t)
    /\ UNCHANGED <<order, timers, outcome, exchange, cancels, plan>>

\* mutant: the monitor is started again before the order is submitted again
ResubmitMonitored(t) ==
    /\ pc[t] = "pricing"
    /\ resubmitCount' = resubmitCount + 1
    /\ Goto(t, "retry")
    /\ StartMonitor(monitor)
    /\ UNCHANGED <<status, amount, filledAmount, exId, active, net, outcome,
                   exchange, cancels, plan>>

\* _getNewPrice() always has a price; the order enters the retry loop again
Resubmit(t) ==
    /\ pc[t] = "pricing"
    /\ resubmitCount' = resubmitCount + 1
    /\ Goto(t, "retry")
    /\ UNCHANGED <<status, amount, filledAmount, exId, active, timers, net,
                   outcome, exchange, cancels, plan>>

-----------------------------------------------------------------------------
(* cancelOrder(clientOrderId)                                              *)

CancelCalled ==
    /\ pc[User] = "idle" /\ cancels < plan.cancels
    /\ active
    /\ cancels' = cancels + 1
    /\ Goto(User, "canceling") /\ SendCancel(User)
    /\ UNCHANGED <<order, timers, outcome, exchange, plan>>

\* the exchange has canceled it, or had nothing to cancel: returns true
CancelReturnsTrue ==
    /\ pc[User] = "canceling" /\ AnsweredWith(User, "canceled")
    /\ status' = "canceled" /\ active' = FALSE
    /\ ClearMonitor
    /\ canceled' = TRUE
    /\ Goto(User, "idle") /\ Consume(User)
    /\ UNCHANGED <<amount, filledAmount, resubmitCount, exId, answer,
                   filledEvents, rateRetries, exchange, cancels, plan>>

CancelReturnsFalse ==
    /\ pc[User] = "canceling" /\ AnsweredWith(User, "error")
    /\ Goto(User, "idle") /\ Consume(User)
    /\ UNCHANGED <<order, timers, outcome, exchange, cancels, plan>>

-----------------------------------------------------------------------------
(* The exchange.                                                           *)

Accepted(a) == Append(ex, [state  |-> "open", amount |-> net[a].amount,
                           filled |-> 0, seen |-> 0])

\* the exchange fails a call in one of the ways the plan allows
Fail(kind) == /\ kind \in plan.kinds
              /\ faults < plan.faults
              /\ faults' = faults + 1

ExchangeCreate(a) ==
    /\ net[a].kind = "create"
    /\ \/ /\ ex' = Accepted(a)
          /\ Send(a, [kind |-> "created", id |-> Len(ex) + 1])
          /\ UNCHANGED faults
       \/ \E e \in {"rateLimit", "nonce", "rejected", "network"} :
             /\ Fail(e)
             /\ Send(a, [kind |-> "error", error |-> e])
             /\ UNCHANGED ex
       \/ /\ Fail("lost")
          /\ ex' = Accepted(a)
          /\ Send(a, [kind |-> "error", error |-> "network"])
    /\ UNCHANGED <<order, timers, pc, outcome, cancels, plan>>

ExchangeFetch(a) ==
    /\ net[a].kind = "fetch"
    /\ \/ /\ Send(a, [kind |-> "snapshot", id |-> net[a].id,
                      order |-> ex[net[a].id]])
          /\ UNCHANGED faults
       \/ /\ Fail("fetch")
          /\ Send(a, [kind |-> "error", error |-> "network"])
    /\ UNCHANGED <<order, timers, pc, outcome, ex, cancels, plan>>

CanceledAt(i) ==
    IF ex[i].state = "open" THEN [ex EXCEPT ![i].state = "canceled"] ELSE ex

ExchangeCancel(a) ==
    /\ net[a].kind = "cancel"
    /\ \/ /\ ex' = CanceledAt(net[a].id)
          /\ Send(a, [kind |-> "canceled"])
          /\ UNCHANGED faults
       \/ /\ Fail("cancel")
          /\ ex' \in {ex, CanceledAt(net[a].id)}
          /\ Send(a, [kind |-> "error", error |-> "network"])
    /\ UNCHANGED <<order, timers, pc, outcome, cancels, plan>>

\* a trade against an open order
Trade(i) ==
    /\ ex[i].state = "open"
    /\ ex' = [ex EXCEPT ![i].filled = @ + 1,
                        ![i].state = IF ex[i].filled + 1 = ex[i].amount
                                     THEN "closed" ELSE "open"]
    /\ UNCHANGED <<order, timers, pc, net, outcome, faults, cancels, plan>>

-----------------------------------------------------------------------------
LoopStep(t) == \/ SendCreate(t)
               \/ Created(t) \/ CreateFailed(t)
               \/ PollFilled(t) \/ PollFailed(t) \/ PollTimeout(t)

CheckStep(t) == \/ TimerFires(t) \/ GaveUp(t) \/ Fetched(t) \/ CheckFailed(t)
                \/ CheckCanceled(t) \/ Resubmit(t)

UserStep == CancelCalled \/ CancelReturnsTrue \/ CancelReturnsFalse

ExchangeStep(a) == ExchangeCreate(a) \/ ExchangeFetch(a) \/ ExchangeCancel(a)

Next == \/ Start \/ QueueTimeout
        \/ \E t \in Threads : LoopStep(t)
        \/ \E t \in Checks : CheckStep(t)
        \/ UserStep
        \/ \E a \in Actors : ExchangeStep(a)
        \/ \E i \in 1..Len(ex) : Trade(i)

\* the event loop runs what is ready and fires its timers (a waiting thread
\* polls, or its 60 seconds end); the exchange answers every call.  Nothing
\* makes a trade happen or a user cancel.
Fairness ==
    /\ WF_vars(Start) /\ WF_vars(QueueTimeout)
    /\ \A t \in Threads : WF_vars(LoopStep(t))
    /\ WF_vars(\E t \in Checks : TimerFires(t))
    /\ \A t \in Checks : WF_vars(CheckStep(t))
    /\ WF_vars(CancelReturnsTrue) /\ WF_vars(CancelReturnsFalse)
    /\ \A a \in Actors : WF_vars(ExchangeStep(a))

Spec == Init /\ [][Next]_vars /\ Fairness

-----------------------------------------------------------------------------
OpenOrders == {i \in 1..Len(ex) : ex[i].state = "open"}

\* a unit of an order is numbered in the order of its fills
Units == (1..Len(ex)) \X (1..Amount)
Bought == {u \in Units : u[2] <= ex[u[1]].filled}
\* what filled after the last look the executor took at each order
BoughtLate == {u \in Bought : u[2] > ex[u[1]].seen}
TotalFilled == Cardinality(Bought)
LateFills == Cardinality(BoughtLate)

\* the order that _checkAndResubmitOrder() took for filled, "remaining too small",
\* without canceling it
LeftOpen == {i \in OpenOrders : /\ status = "filled" /\ i = exId
                               /\ NegligibleDen * (ex[i].amount - ex[i].seen) < ex[i].amount}

\* the threads that may still act on the order, a waiting one apart
Driving == {"retry", "creating", "failing", "fetching", "canceling", "pricing"}
Drivers == {t \in Threads : pc[t] \in Driving}
PendingTimers == strays + IF monitor = "pending" THEN 1 ELSE 0

ExchangeOrder == [state : {"open", "closed", "canceled"}, amount : 1..Amount,
                  filled : 0..Amount, seen : 0..Amount]

Messages ==
    [kind : {"none", "canceled"}]
    \cup [kind : {"create"}, amount : 1..Amount]
    \cup [kind : {"fetch", "cancel", "created"}, id : 1..Len(ex)]
    \cup [kind : {"error"}, error : {"rateLimit", "nonce", "rejected", "network"}]
    \cup [kind : {"snapshot"}, id : 1..Len(ex), order : ExchangeOrder]

TypeOK ==
    /\ status \in {"pending", "submitted"} \cup Final
    /\ amount \in 1..Amount /\ filledAmount \in 0..Amount
    /\ resubmitCount \in 0..MaxResubmit
    /\ exId \in 0..Len(ex) /\ active \in BOOLEAN
    /\ monitor \in {"none", "pending", "fired"} /\ strays \in Nat
    /\ pc \in [Actors -> Driving \cup {"queued", "idle", "waiting", "done"}]
    /\ net \in [Actors -> Messages]
    /\ answer \in {"none", "filled", "failed", "undefined"}
    /\ canceled \in BOOLEAN
    /\ filledEvents \in Nat /\ rateRetries \in Nat
    /\ ex \in Seq(ExchangeOrder)
    /\ plan \in Plans /\ faults \in 0..plan.faults /\ cancels \in 0..plan.cancels

(* One thread at a time submits, looks at or cancels the order: the retry   *)
(* loop of a callback, the next timer and the catch blocks that start       *)
(* another one never run side by side, and no pending timer is overwritten. *)
SingleDriver ==
    /\ \A t, u \in Drivers : t = u
    /\ monitor = "pending" => Drivers = {}
    /\ strays = 0

(* An order is canceled or closed at the exchange before the next one for   *)
(* the same clientOrderId is accepted, whatever fails on the way, as long   *)
(* as the exchange does not accept an order whose answer is lost.           *)
AtMostOneOpen == Cardinality(OpenOrders) <= 1

\* nobody cancels, and no cancellation fails
LeftAlone == plan.cancels = 0 /\ "cancel" \notin plan.kinds

(* An open order that is left alone has a timer or a thread that will look  *)
(* at it, but for such a remainder.                                         *)
Attended == OpenOrders \subseteq LeftOpen \/ Drivers # {} \/ PendingTimers > 0
OpenIsAttended == LeftAlone => Attended

(* What is left alone and open at the exchange is in activeOrders, where    *)
(* cancelAllOrders() and emergencyCloseAll() look for it, but for such a    *)
(* remainder.                                                               *)
Listed == OpenOrders \subseteq LeftOpen \/ active
OpenIsActive == LeftAlone => Listed

(* The orders together buy more than was asked for only by what filled      *)
(* after the last look the executor took at them.                           *)
OverfillIsLate == TotalFilled <= Amount + LateFills

(* executeSmartLimitOrder()'s order is announced as filled once.            *)
FilledOnce == filledEvents <= 1

(* The executor never puts more than 1 + maxResubmitAttempts orders on the  *)
(* exchange for one order, however the failures are mixed.                  *)
ResubmitsBounded == Len(ex) <= 1 + MaxResubmit

(* A final status is never left, by any of the threads that share orderInfo, *)
(* as long as the user does not cancel.                                     *)
FinalIsFinal ==
    [][plan.cancels = 0 /\ status' # status => status \notin Final]_vars

(* Left alone, an order the exchange accepted reaches a final status,       *)
(* although each failure of a callback only starts another timer, and        *)
(* nothing else rests on the exchange for ever: each open order fills or is  *)
(* canceled in the end, and none follows it.                                *)
OrderSettles ==
    LeftAlone => /\ status = "submitted" ~> status \in Final
                 /\ <>[](OpenOrders \subseteq LeftOpen)

(* What the code or its comments promise, and the runs refute.              *)

(* "Fully filled" (ORDER_STATUS.FILLED): a filled order bought the amount.  *)
FilledIsFilled == status = "filled" => TotalFilled >= Amount

(* "Iterate all active orders": cancelAllOrders() reaches every open order. *)
AllOpenIsActive == OpenOrders # {} => active

(* filledAmount is what the order bought.                                   *)
FilledAmountIsTotal == status = "filled" => filledAmount = TotalFilled

(* After cancelOrder() returned true the order leaves the exchange and      *)
(* stays off it.                                                            *)
CanceledStaysOff == canceled ~> [](OpenOrders = {})

(* "Pending submission" (ORDER_STATUS.PENDING): an order whose task has     *)
(* ended is not waiting to be submitted.                                    *)
EndedIsNotPending == pc[Main] = "done" => status # "pending"

(* rateLimitMaxRetries: the maximum of retries for 429 errors.              *)
RateRetriesBounded == rateRetries <= RateLimitMaxRetries
=============================================================================
