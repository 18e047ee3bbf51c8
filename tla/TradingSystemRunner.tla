------------------------- MODULE TradingSystemRunner -------------------------
(***************************************************************************)
(* How TradingSystemRunner (src/main.js) joins the strategy, the risk      *)
(* manager and the executor, for one symbol on one exchange: signals on    *)
(* their way to a market order, the emergency closes of a risk check, the  *)
(* close of a position through the API, the position at the exchange and   *)
(* the runner's own book of it (_virtualPositions), and a restart of the   *)
(* process.                                                                *)
(*                                                                         *)
(* Of the risk manager (AdvancedRiskManager) there is tradingAllowed, and  *)
(* the emergency checks it repeats while the account is in danger.  Up to  *)
(* five market orders of an account run at once, so orders reach the       *)
(* exchange, and their answers come back, in any order; retries after a    *)
(* rate limit are part of the way to the exchange.  The queue of an        *)
(* account gives a call up after a while, and its order goes on all the    *)
(* same: a signal's is then FilledUnnoticed; a check that closes again     *)
(* meanwhile is another element of Emergencies.                            *)
(***************************************************************************)
EXTENDS Integers, FiniteSets

CONSTANTS Signals,      \* signals of the strategy, each of them used once
          Emergencies,  \* risk checks whose close can be under way together
          MinTradeIntervalCandles,
          MaxSeq,       \* bound: candles closed between two restarts
          MaxFaults     \* bound: calls that fail or time out, answers that do
                        \* not tell what was filled, and restarts

\* a check closes twice: through the event that the runner handles, and by its
\* own call of the executor
Closers == Emergencies \X {"runner", "manager"}
Api == <<"api", "close">>
Orders == Signals \cup Closers \cup {Api}

ASSUME TradingSystemRunnerAssumption ==
    /\ Signals \cap (Closers \cup {Api}) = {} /\ Api \notin Closers
    /\ MinTradeIntervalCandles \in Nat
    /\ MaxSeq \in Nat /\ MaxFaults \in Nat

VARIABLES allowed,        \* tradingAllowed
          danger,         \* the account is beyond an emergency threshold
          seq,            \* _closedCandleSeq of the symbol
          last,           \* _lastTradeCandleSeq of the symbol, or 0
          order,          \* each signal, close and API call, with its order
          pos,            \* the position at the exchange, negative when short
          book,           \* _virtualPositions
          overlapped,     \* a signal was accepted with another's order under way
          strayed,        \* the book was given cause to differ from the position
          faults

vars == <<allowed, danger, seq, last, order, pos, book, overlapped, strayed,
          faults>>

\* a signal that traded is "filled" when its candle was noted, else "unnoted"
States == {"none", "syncing", "asking", "sent", "executed", "filled", "unnoted",
           "over"}
Void == [st |-> "none", side |-> "buy", amount |-> 0, filled |-> 0, seq |-> 0]

TypeOK ==
    /\ {allowed, danger, overlapped, strayed} \subseteq BOOLEAN
    /\ seq \in 0..MaxSeq /\ last \in 0..MaxSeq
    /\ order \in [Orders -> [st : States, side : {"buy", "sell"}, amount : Nat,
                             filled : Nat, seq : 0..MaxSeq]]
    /\ pos \in Int /\ book \in Nat
    /\ faults \in 0..MaxFaults

Init ==
    /\ allowed = TRUE /\ danger = FALSE
    /\ seq = 0 /\ last = 0
    /\ order = [o \in Orders |-> Void]
    /\ pos = 0 /\ book = 0
    /\ overlapped = FALSE /\ strayed = FALSE
    /\ faults = 0

Abs(n) == IF n < 0 THEN -n ELSE n
Lesser(a, b) == IF a < b THEN a ELSE b
AtLeastZero(n) == IF n < 0 THEN 0 ELSE n
Under(o) == order[o].st \in {"sent", "executed"}
Send(o, side, amount) ==
    order' = [order EXCEPT ![o].st = "sent", ![o].side = side,
                           ![o].amount = amount]

\* a signal is not used again, and its candle matters if it was a trade
Ends(o, st) ==
    order' = [order EXCEPT ![o] =
                IF o \notin Signals THEN Void
                ELSE [Void EXCEPT !.st = st,
                                  !.seq = IF st = "over" THEN 0 ELSE order[o].seq]]

-----------------------------------------------------------------------------
(* Signals *)

\* 'candle' closed: _recordClosedCandle()
CandleClosed ==
    /\ seq < MaxSeq
    /\ seq' = seq + 1
    /\ UNCHANGED <<allowed, danger, last, order, pos, book, overlapped,
                   strayed, faults>>

\* engine.buy() or engine.closePosition(), and the 'signal' handler up to the
\* await of _syncRuntimeStrategyRecord().  It needs no closed candle: a ticker, a
\* book or a funding rate will do
Signal(s) ==
    /\ order[s].st = "none"
    /\ \E side \in {"buy", "sell"} :
         /\ side = "sell" => book > 0
         /\ order' = [order EXCEPT ![s].st = "syncing", ![s].side = side,
                                   ![s].amount = IF side = "sell" THEN book ELSE 1]
    /\ UNCHANGED <<allowed, danger, seq, last, pos, book, overlapped,
                   strayed, faults>>

\* mutant: one candle too few
CoolingOneLess(now) == last # 0 /\ now - last < MinTradeIntervalCandles - 1

\* the test of the trade interval.  Before the first candle, when nothing is
\* tested, nothing is noted either
Cooling(now) == last # 0 /\ now - last < MinTradeIntervalCandles

\* _handleSignal(): accepted, and in activeOrders, without a wait in between
Accept(s) ==
    /\ order[s].st = "syncing"
    /\ ~Cooling(seq) /\ allowed
    /\ order' = [order EXCEPT ![s].st = "sent", ![s].seq = seq]
    /\ overlapped' = (overlapped \/ \E t \in Signals : Under(t))
    /\ UNCHANGED <<allowed, danger, seq, last, pos, book, strayed, faults>>

\* the record is not saved, the interval is too short, or checkOrder() refuses:
\* trading is stopped or a drawdown is past its limit
Refuse(s) ==
    /\ order[s].st = "syncing"
    /\ Ends(s, "over")
    /\ UNCHANGED <<allowed, danger, seq, last, pos, book, overlapped,
                   strayed, faults>>

-----------------------------------------------------------------------------
(* Closing *)

\* mutant: an emergency that has stopped trading is not looked at again
MayTriggerOnce == danger /\ allowed

MayTrigger == danger

\* _triggerEmergencyClose(), with the runner's handler.  cancelAllOrders() takes
\* every order out of activeOrders and reports it canceled before anything else
\* runs; market orders have no id to cancel yet and go on
TriggerEmergencyClose(e) ==
    /\ MayTrigger
    /\ \A c \in Closers : c[1] = e => order[c].st = "none"
    /\ allowed' = FALSE
    /\ order' = [o \in Orders |-> IF o \in Closers /\ o[1] = e
                                  THEN [Void EXCEPT !.st = "asking"] ELSE order[o]]
    /\ UNCHANGED <<danger, seq, last, pos, book, overlapped, strayed,
                   faults>>

\* RuntimeTradingEngine.closePosition(): what the book holds, or else what the
\* exchange says
ApiClosePosition ==
    /\ order[Api].st = "none"
    /\ IF book > 0 THEN Send(Api, "sell", book)
       ELSE order' = [order EXCEPT ![Api].st = "asking"]
    /\ UNCHANGED <<allowed, danger, seq, last, pos, book, overlapped,
                   strayed, faults>>

\* fetchPositions() and the order that closes what it shows.  The API's call
\* goes by the sign of an amount that has none
FetchPositions(o) ==
    /\ order[o].st = "asking"
    /\ IF pos = 0 THEN Ends(o, "over")
       ELSE Send(o, IF pos > 0 \/ o = Api THEN "sell" ELSE "buy", Abs(pos))
    /\ UNCHANGED <<allowed, danger, seq, last, pos, book, overlapped,
                   strayed, faults>>

-----------------------------------------------------------------------------
(* Market orders: _executeMarketOrderDirect() and the exchange *)

\* mutant: the orders of an emergency close are not reduceOnly
ReduceOnlyApi(o) == o = Api

\* params.reduceOnly
ReduceOnly(o) == o \notin Signals

\* what the exchange fills of o
Fill(o) ==
    LET exposed == AtLeastZero(IF order[o].side = "sell" THEN pos ELSE -pos)
    IN  IF ReduceOnly(o) THEN Lesser(order[o].amount, exposed) ELSE order[o].amount

\* the exchange takes the order
Execute(o) ==
    /\ order[o].st = "sent" /\ Fill(o) > 0
    /\ order' = [order EXCEPT ![o].st = "executed", ![o].filled = Fill(o)]
    /\ pos' = IF order[o].side = "buy" THEN pos + Fill(o) ELSE pos - Fill(o)
    /\ UNCHANGED <<allowed, danger, seq, last, book, overlapped, strayed,
                   faults>>

\* nothing is left to reduce
NothingToReduce(o) ==
    /\ order[o].st = "sent" /\ Fill(o) = 0
    /\ Ends(o, "over")
    /\ UNCHANGED <<allowed, danger, seq, last, pos, book, overlapped,
                   strayed, faults>>

\* a call fails: fetchPositions(), or createOrder() before the order is taken
Fails(o) ==
    /\ faults < MaxFaults
    /\ order[o].st \in {"asking", "sent"}
    /\ faults' = faults + 1
    /\ Ends(o, "over")
    /\ UNCHANGED <<allowed, danger, seq, last, pos, book, overlapped,
                   strayed>>

\* mutant: only what the strategy ordered is booked
FilledForStrategy(o, told) == IF o \in Signals THEN order[o].filled ELSE 0

\* orderInfo.filledAmount: the whole order when the answer does not tell
FilledAmount(o, told) == IF told THEN order[o].filled ELSE order[o].amount

\* the answer: 'orderFilled', _applyFilledOrderToVirtualPosition(), and the
\* candle of the trade for a signal, if it had one and its call still waited
Answer(o, told, waited) ==
    LET amount == FilledAmount(o, told)
        buys == order[o].side = "buy"
        notes == o \in Signals /\ waited /\ order[o].seq > 0
    IN  /\ order[o].st = "executed"
        /\ book' = IF buys THEN book + amount ELSE AtLeastZero(book - amount)
        /\ strayed' = (\/ strayed
                       \/ ~buys /\ amount > book
                       \/ ~told /\ order[o].amount # order[o].filled)
        /\ last' = IF notes THEN order[o].seq ELSE last
        /\ Ends(o, IF notes THEN "filled" ELSE "unnoted")
        /\ UNCHANGED <<allowed, danger, seq, pos, overlapped>>

Filled(o) ==
    /\ Answer(o, TRUE, TRUE)
    /\ UNCHANGED faults

\* the answer does not tell what was filled, or the queue gave the call up
\* before: executeOrder() has reported a failure, and the order traded
FilledUnnoticed(o) ==
    /\ faults < MaxFaults
    /\ faults' = faults + 1
    /\ \E told, waited \in BOOLEAN : ~(told /\ waited) /\ Answer(o, told, waited)

\* the answer is lost: the executor reports a failure
AnswerLost(o) ==
    /\ faults < MaxFaults
    /\ order[o].st = "executed"
    /\ faults' = faults + 1
    /\ strayed' = TRUE
    /\ Ends(o, "unnoted")
    /\ UNCHANGED <<allowed, danger, seq, last, pos, book, overlapped>>

-----------------------------------------------------------------------------
(* The rest *)

\* the risk manager lets trading go on, also during an emergency (by hand); a
\* stop it makes for another reason is a refusal
TradingResumes ==
    /\ ~allowed
    /\ allowed' = TRUE
    /\ UNCHANGED <<danger, seq, last, order, pos, book, overlapped, strayed,
                   faults>>

DangerBegins ==
    /\ ~danger
    /\ danger' = TRUE
    /\ UNCHANGED <<allowed, seq, last, order, pos, book, overlapped, strayed,
                   faults>>

\* the process ends and starts again: nothing of this is stored and read back.
\* An order on its way reaches the exchange before or not at all; a signal that
\* was used is over
Restart ==
    /\ faults < MaxFaults
    /\ faults' = faults + 1
    /\ allowed' = TRUE
    /\ seq' = 0 /\ last' = 0 /\ book' = 0
    /\ order' = [o \in Orders |-> IF o \in Signals /\ order[o].st # "none"
                                  THEN [Void EXCEPT !.st = "over"] ELSE Void]
    /\ overlapped' = FALSE
    /\ strayed' = (pos # 0)
    /\ UNCHANGED <<danger, pos>>

Next ==
    \/ CandleClosed \/ ApiClosePosition \/ TradingResumes \/ DangerBegins
    \/ Restart
    \/ \E s \in Signals : Signal(s) \/ Accept(s) \/ Refuse(s)
    \/ \E e \in Emergencies : TriggerEmergencyClose(e)
    \/ \E o \in Orders : \/ FetchPositions(o) \/ Execute(o) \/ NothingToReduce(o)
                         \/ Fails(o) \/ Filled(o) \/ FilledUnnoticed(o)
                         \/ AnswerLost(o)

\* the check's interval fires again and again; every call is answered
Fairness ==
    /\ WF_vars(\E e \in Emergencies : TriggerEmergencyClose(e))
    /\ \A o \in Orders : /\ WF_vars(FetchPositions(o))
                         /\ WF_vars(Execute(o) \/ NothingToReduce(o))
                         /\ WF_vars(Filled(o))

Spec == Init /\ [][Next]_vars /\ Fairness

-----------------------------------------------------------------------------

(* Closing never turns a position round, though an emergency closes twice,   *)
(* each from positions fetched before the other's order, and orders of the   *)
(* strategy that were accepted before arrive in between.                     *)
ClosingNeverFlips ==
    [][\A o \in Closers \cup {Api} :
         order[o].st = "sent" /\ order'[o].st = "executed"
            => Abs(pos') < Abs(pos) /\ pos * pos' >= 0]_vars

(* While the account stays in danger the position ends flat, whatever calls  *)
(* failed, were already under way or were resumed meanwhile: closing is      *)
(* tried again until nothing is left.                                        *)
FlatInTheEnd == <>[]danger => <>[](pos = 0)

(* With no order under way the book is the position, unless an answer was    *)
(* lost or did not tell what was filled, more was booked as sold than the    *)
(* book held at that moment, or the process restarted with a position.       *)
BookAgrees == (\A o \in Orders : ~Under(o)) /\ ~strayed => book = pos

(* As long as no signal is accepted while the order of another is under way, *)
(* every trade keeps its distance of MinTradeIntervalCandles from the noted  *)
(* trades before it.                                                         *)
Apart(s, t) == Abs(order[s].seq - order[t].seq) >= MinTradeIntervalCandles
Noted == {s \in Signals : order[s].st = "filled"}
Trades == {s \in Signals : order[s].st \in {"filled", "unnoted"}}
SpacedUnlessOverlapping ==
    ~overlapped =>
       \A s \in Noted, t \in Trades :
          s # t /\ (t \in Noted \/ order[t].seq > order[s].seq) => Apart(s, t)

-----------------------------------------------------------------------------
(* Refuted: what the code's names, comments and messages suggest; the README *)
(* says with which constants.                                                *)

(* Trades keep their distance: the candle of a trade is noted when its       *)
(* answer comes, and tested when the next signal is accepted; the candle of  *)
(* a trade that timed out, or whose answer was lost, is not noted at all.    *)
TradesSpaced == \A s, t \in Trades : s # t => Apart(s, t)

(* The book is the position when nothing fails.                              *)
BookIsRight == (\A o \in Orders : ~Under(o)) => book = pos

(* Selling what the book holds never opens a short position.                 *)
NeverShort == pos >= 0

(* A stop is in force after a restart.                                       *)
StopSurvivesRestart == [][Restart => allowed' = allowed]_vars
==============================================================================
