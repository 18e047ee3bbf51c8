--------------------- MODULE TradingSystemRunner_proofs ---------------------
(***************************************************************************)
(* What the runner promises for any number of signals, emergencies and     *)
(* candles between two restarts, and any number of failing calls.          *)
(***************************************************************************)
EXTENDS TradingSystemRunner, FiniteSetTheorems, TLAPS

Order == [st : States, side : {"buy", "sell"}, amount : Nat, filled : Nat,
          seq : 0..MaxSeq]

Typing ==
    /\ allowed \in BOOLEAN /\ danger \in BOOLEAN
    /\ overlapped \in BOOLEAN /\ strayed \in BOOLEAN
    /\ seq \in 0..MaxSeq /\ last \in 0..MaxSeq
    /\ order \in [Orders -> Order]
    /\ pos \in Int /\ book \in Nat
    /\ faults \in 0..MaxFaults

\* a step that changes no order but o
OnlyOrder(o) ==
    /\ order' \in [Orders -> Order]
    /\ \A p \in Orders : p # o => order'[p] = order[p]

------------------------------------------------------------------------------
(* Orders, and the actions' effect on them *)

LEMMA VoidIsOrder == Void \in Order
BY TradingSystemRunnerAssumption DEF Void, Order, States

LEMMA OrderKinds == /\ Signals \subseteq Orders /\ Closers \subseteq Orders
                    /\ Api \in Orders
BY DEF Orders

LEMMA TradersAreNoClosers ==
  ASSUME NEW o \in Closers \cup {Api}
  PROVE  o \notin Signals /\ o \in Orders
BY TradingSystemRunnerAssumption DEF Orders

\* The fields of an order.
LEMMA OrderTyped ==
  ASSUME Typing, NEW o \in Orders
  PROVE  /\ order[o] \in Order
         /\ order[o].st \in States /\ order[o].side \in {"buy", "sell"}
         /\ order[o].amount \in Nat /\ order[o].filled \in Nat
         /\ order[o].seq \in 0..MaxSeq
<1>1. order[o] \in Order
  BY DEF Typing
<1>2. QED
  BY <1>1 DEF Order

\* An order gets a new value.
LEMMA Replaced ==
  ASSUME Typing, NEW o \in Orders, NEW r \in Order,
         order' = [order EXCEPT ![o] = r]
  PROVE  OnlyOrder(o) /\ order'[o] = r
BY DEF Typing, OnlyOrder

\* An order that ends is free for the next one, or a signal that is done with;
\* of a trade the candle stays.
LEMMA EndsOrder ==
  ASSUME Typing, NEW o \in Orders, NEW st \in States, Ends(o, st)
  PROVE  /\ OnlyOrder(o)
         /\ o \notin Signals => order'[o] = Void
         /\ o \in Signals => /\ order'[o].st = st
                             /\ order'[o].seq = IF st = "over" THEN 0 ELSE order[o].seq
         /\ order'[o].filled = 0 /\ order'[o].st \in {"none", st}
<1> DEFINE kept == IF st = "over" THEN 0 ELSE order[o].seq
           ended == [Void EXCEPT !.st = st, !.seq = kept]
           r == IF o \notin Signals THEN Void ELSE ended
<1>1. kept \in 0..MaxSeq
  BY OrderTyped, TradingSystemRunnerAssumption
<1>2. ended \in Order /\ ended.st = st /\ ended.seq = kept /\ ended.filled = 0
  <2> HIDE DEF kept
  <2>1. QED
    BY <1>1 DEF Void, Order, States
<1>3. Void.st = "none" /\ Void.filled = 0
  BY DEF Void
<1>4. r \in Order
  BY <1>2, VoidIsOrder
<1>5. order' = [order EXCEPT ![o] = r]
  BY DEF Ends
<1>6. OnlyOrder(o) /\ order'[o] = r
  <2> HIDE DEF r
  <2>1. QED
    BY <1>4, <1>5, Replaced
<1>7. QED
  BY <1>2, <1>3, <1>6

\* An order on its way to the exchange.
LEMMA SendOrder ==
  ASSUME Typing, NEW o \in Orders, NEW side \in {"buy", "sell"},
         NEW amount \in Nat, Send(o, side, amount)
  PROVE  OnlyOrder(o) /\ order'[o].st = "sent"
<1> DEFINE r == [order[o] EXCEPT !.st = "sent", !.side = side, !.amount = amount]
<1>1. order[o] \in Order
  BY OrderTyped
<1>2. r \in Order /\ r.st = "sent"
  BY <1>1 DEF Order, States
<1>3. order' = [order EXCEPT ![o] = r]
  BY DEF Send, Typing
<1>4. OnlyOrder(o) /\ order'[o] = r
  <2> HIDE DEF r
  <2>1. QED
    BY <1>2, <1>3, Replaced
<1>5. QED
  BY <1>2, <1>4

\* A signal comes up.
LEMMA SignalOrder ==
  ASSUME Typing, NEW s \in Signals, Signal(s)
  PROVE  OnlyOrder(s) /\ order'[s].st = "syncing" /\ order'[s].seq = order[s].seq
<1>1. PICK side \in {"buy", "sell"} :
        order' = [order EXCEPT ![s].st = "syncing", ![s].side = side,
                               ![s].amount = IF side = "sell" THEN book ELSE 1]
  BY DEF Signal
<1> DEFINE amount == IF side = "sell" THEN book ELSE 1
           r == [order[s] EXCEPT !.st = "syncing", !.side = side, !.amount = amount]
<1>2. amount \in Nat
  BY DEF Typing
<1>3. s \in Orders /\ order[s] \in Order
  BY OrderKinds, OrderTyped
<1>4. r \in Order /\ r.st = "syncing" /\ r.seq = order[s].seq
  <2> HIDE DEF amount
  <2>1. QED
    BY <1>2, <1>3 DEF Order, States
<1>5. order' = [order EXCEPT ![s] = r]
  BY <1>1, <1>3 DEF Typing
<1>6. OnlyOrder(s) /\ order'[s] = r
  <2> HIDE DEF r
  <2>1. QED
    BY <1>3, <1>4, <1>5, Replaced
<1>7. QED
  BY <1>4, <1>6

\* An accepted signal is on its way, with the candle it was accepted in.
LEMMA AcceptOrder ==
  ASSUME Typing, NEW s \in Signals, Accept(s)
  PROVE  OnlyOrder(s) /\ order'[s].st = "sent" /\ order'[s].seq = seq
<1> DEFINE r == [order[s] EXCEPT !.st = "sent", !.seq = seq]
<1>1. s \in Orders /\ order[s] \in Order
  BY OrderKinds, OrderTyped
<1>2. r \in Order /\ r.st = "sent" /\ r.seq = seq
  BY <1>1 DEF Order, States, Typing
<1>3. order' = [order EXCEPT ![s] = r]
  BY <1>1 DEF Accept, Typing
<1>4. OnlyOrder(s) /\ order'[s] = r
  <2> HIDE DEF r
  <2>1. QED
    BY <1>1, <1>2, <1>3, Replaced
<1>5. QED
  BY <1>2, <1>4

\* The closes of a check begin, and no other order changes.
LEMMA TriggerOrder ==
  ASSUME Typing, NEW e \in Emergencies, TriggerEmergencyClose(e)
  PROVE  /\ order' \in [Orders -> Order]
         /\ \A o \in Orders :
              \/ order'[o] = order[o]
              \/ /\ o \in Closers
                 /\ order[o].st = "none" /\ order'[o].st = "asking"
<1> DEFINE asks == [Void EXCEPT !.st = "asking"]
<1>1. asks \in Order /\ asks.st = "asking"
  BY TradingSystemRunnerAssumption DEF Void, Order, States
<1> HIDE DEF asks
<1>2. order' = [o \in Orders |-> IF o \in Closers /\ o[1] = e THEN asks ELSE order[o]]
  BY DEF TriggerEmergencyClose, asks
<1>3. \A o \in Orders : order[o] \in Order
  BY OrderTyped
<1>4. \A c \in Closers : c[1] = e => order[c].st = "none"
  BY DEF TriggerEmergencyClose
<1>5. QED
  BY <1>1, <1>2, <1>3, <1>4

\* The API's close sells what the book holds, or asks.
LEMMA ApiOrder ==
  ASSUME Typing, ApiClosePosition
  PROVE  OnlyOrder(Api) /\ order[Api].st = "none" /\ order'[Api].st \in {"sent", "asking"}
<1>1. Api \in Orders /\ order[Api].st = "none"
  BY OrderKinds DEF ApiClosePosition
<1>2. CASE book > 0
  <2>1. Send(Api, "sell", book) /\ book \in Nat
    BY <1>2 DEF ApiClosePosition, Typing
  <2>2. QED
    BY <1>1, <2>1, SendOrder
<1>3. CASE ~(book > 0)
  <2> DEFINE r == [order[Api] EXCEPT !.st = "asking"]
  <2>1. order[Api] \in Order
    BY <1>1, OrderTyped
  <2>2. r \in Order /\ r.st = "asking"
    BY <2>1 DEF Order, States
  <2>3. order' = [order EXCEPT ![Api] = r]
    BY <1>1, <1>3 DEF ApiClosePosition, Typing
  <2>4. OnlyOrder(Api) /\ order'[Api] = r
    <3> HIDE DEF r
    <3>1. QED
      BY <1>1, <2>2, <2>3, Replaced
  <2>5. QED
    BY <1>1, <2>2, <2>4
<1>4. QED
  BY <1>2, <1>3

\* A close that has asked sends an order for what it was told, or is over.
LEMMA FetchOrder ==
  ASSUME Typing, NEW o \in Orders, FetchPositions(o)
  PROVE  /\ OnlyOrder(o) /\ order[o].st = "asking"
         /\ order'[o].st \in {"sent", "none", "over"}
<1>1. CASE pos = 0
  BY <1>1, EndsOrder DEF FetchPositions, States
<1>2. CASE pos # 0
  <2> DEFINE side == IF pos > 0 \/ o = Api THEN "sell" ELSE "buy"
  <2>1. side \in {"buy", "sell"} /\ Abs(pos) \in Nat
    BY DEF Abs, Typing
  <2>2. Send(o, side, Abs(pos)) /\ order[o].st = "asking"
    BY <1>2 DEF FetchPositions
  <2>3. QED
    <3> HIDE DEF side
    <3>1. QED
      BY <2>1, <2>2, SendOrder
<1>3. QED
  BY <1>1, <1>2

\* What the exchange fills is a quantity, and with reduceOnly no more than there
\* is on the side of the position.
LEMMA FillTyped ==
  ASSUME Typing, NEW o \in Orders
  PROVE  /\ Fill(o) \in Nat
         /\ ReduceOnly(o) => Fill(o) <= AtLeastZero(IF order[o].side = "sell" THEN pos ELSE -pos)
<1> DEFINE exposed == AtLeastZero(IF order[o].side = "sell" THEN pos ELSE -pos)
<1>1. exposed \in Nat
  BY DEF AtLeastZero, Typing
<1>2. order[o].amount \in Nat
  BY OrderTyped
<1>3. Fill(o) = IF ReduceOnly(o) THEN Lesser(order[o].amount, exposed) ELSE order[o].amount
  BY DEF Fill
<1>4. QED
  <2> HIDE DEF exposed
  <2>1. Fill(o) \in Nat /\ (ReduceOnly(o) => Fill(o) <= exposed)
    BY <1>1, <1>2, <1>3 DEF Lesser
  <2>2. QED
    BY <2>1 DEF exposed

\* An order the exchange takes keeps its side and has what was filled.
LEMMA ExecuteOrder ==
  ASSUME Typing, NEW o \in Orders, Execute(o)
  PROVE  /\ OnlyOrder(o) /\ order[o].st = "sent"
         /\ order'[o].st = "executed" /\ order'[o].side = order[o].side
         /\ order'[o].filled = Fill(o) /\ order'[o].seq = order[o].seq
         /\ Fill(o) \in Nat
<1> DEFINE r == [order[o] EXCEPT !.st = "executed", !.filled = Fill(o)]
<1>1. order[o] \in Order /\ Fill(o) \in Nat
  BY OrderTyped, FillTyped
<1>2. r \in Order /\ r.st = "executed" /\ r.side = order[o].side
      /\ r.filled = Fill(o) /\ r.seq = order[o].seq
  BY <1>1 DEF Order, States
<1>3. order' = [order EXCEPT ![o] = r] /\ order[o].st = "sent"
  BY DEF Execute, Typing
<1>4. OnlyOrder(o) /\ order'[o] = r
  <2> HIDE DEF r
  <2>1. QED
    BY <1>2, <1>3, Replaced
<1>5. QED
  BY <1>1, <1>2, <1>3, <1>4

\* What the answer books, whatever it tells.
LEMMA AnswerAmount ==
  ASSUME Typing, NEW o \in Orders, NEW told \in BOOLEAN
  PROVE  FilledAmount(o, told) \in Nat
BY OrderTyped DEF FilledAmount

\* An order that is answered is over; a signal has traded.
LEMMA AnswerOrder ==
  ASSUME Typing, NEW o \in Orders, NEW told \in BOOLEAN, NEW waited \in BOOLEAN,
         Answer(o, told, waited)
  PROVE  /\ OnlyOrder(o) /\ order[o].st = "executed"
         /\ order'[o].st \in {"none", "filled", "unnoted"}
         /\ o \in Signals =>
              /\ order'[o].seq = order[o].seq
              /\ order'[o].st = IF waited /\ order[o].seq > 0 THEN "filled" ELSE "unnoted"
<1> DEFINE notes == o \in Signals /\ waited /\ order[o].seq > 0
           st == IF notes THEN "filled" ELSE "unnoted"
<1>1. Ends(o, st) /\ order[o].st = "executed"
  BY DEF Answer
<1>2. st \in {"filled", "unnoted"} /\ st \in States /\ st # "over"
  BY DEF States
<1>3. /\ OnlyOrder(o) /\ order'[o].st \in {"none", st}
      /\ o \in Signals => order'[o].st = st /\ order'[o].seq = order[o].seq
  <2> HIDE DEF st
  <2>1. QED
    BY <1>1, <1>2, EndsOrder
<1>4. QED
  BY <1>1, <1>2, <1>3

\* An answer comes, with what it tells and to whom.
LEMMA AnswerOf ==
  ASSUME NEW o \in Orders, Filled(o) \/ FilledUnnoticed(o)
  PROVE  \E told \in BOOLEAN : \E waited \in BOOLEAN : Answer(o, told, waited)
<1>1. CASE Filled(o)
  <2>1. TRUE \in BOOLEAN /\ Answer(o, TRUE, TRUE)
    BY <1>1 DEF Filled
  <2>2. QED
    BY <2>1
<1>2. CASE FilledUnnoticed(o)
  BY <1>2 DEF FilledUnnoticed
<1>3. QED
  BY <1>1, <1>2

\* After a restart no order is under way.
LEMMA RestartOrder ==
  ASSUME Restart
  PROVE  /\ order' \in [Orders -> Order]
         /\ \A o \in Orders : order'[o].st \in {"none", "over"} /\ order'[o].seq = 0
<1> DEFINE used == [Void EXCEPT !.st = "over"]
<1>1. used \in Order /\ used.st = "over" /\ used.seq = 0
  BY TradingSystemRunnerAssumption DEF Void, Order, States
<1>2. Void \in Order /\ Void.st = "none" /\ Void.seq = 0
  BY VoidIsOrder DEF Void
<1> HIDE DEF used
<1>3. order' = [o \in Orders |-> IF o \in Signals /\ order[o].st # "none"
                                THEN used ELSE Void]
  BY DEF Restart, used
<1>4. QED
  BY <1>1, <1>2, <1>3

------------------------------------------------------------------------------
(* Typing *)

LEMMA InitTyped == Init => Typing
<1> SUFFICES ASSUME Init PROVE Typing
  OBVIOUS
<1>1. order \in [Orders -> Order]
  BY VoidIsOrder DEF Init
<1>2. /\ allowed \in BOOLEAN /\ danger \in BOOLEAN
      /\ overlapped \in BOOLEAN /\ strayed \in BOOLEAN
  BY DEF Init
<1>3. /\ seq \in 0..MaxSeq /\ last \in 0..MaxSeq /\ faults \in 0..MaxFaults
      /\ pos \in Int /\ book \in Nat
  BY TradingSystemRunnerAssumption DEF Init
<1>4. QED
  BY <1>1, <1>2, <1>3 DEF Typing

LEMMA NextTyped == Typing /\ [Next]_vars => Typing'
<1> SUFFICES ASSUME Typing, [Next]_vars PROVE Typing'
  OBVIOUS
<1> USE TradingSystemRunnerAssumption
<1>1. CASE UNCHANGED vars
  BY <1>1 DEF Typing, vars
<1>2. CASE CandleClosed
  BY <1>2 DEF CandleClosed, Typing
<1>3. CASE ApiClosePosition
  <2>1. order' \in [Orders -> Order]
    BY <1>3, ApiOrder DEF OnlyOrder
  <2>2. QED
    BY <1>3, <2>1 DEF ApiClosePosition, Typing
<1>4. CASE TradingResumes \/ DangerBegins
  BY <1>4 DEF TradingResumes, DangerBegins, Typing
<1>5. CASE Restart
  <2>1. order' \in [Orders -> Order]
    BY <1>5, RestartOrder
  <2>2. (pos # 0) \in BOOLEAN
    OBVIOUS
  <2>3. strayed' \in BOOLEAN
    BY <1>5, <2>2 DEF Restart
  <2>4. allowed' \in BOOLEAN /\ danger' \in BOOLEAN /\ overlapped' \in BOOLEAN
    BY <1>5 DEF Restart, Typing
  <2>5. /\ seq' \in 0..MaxSeq /\ last' \in 0..MaxSeq /\ faults' \in 0..MaxFaults
        /\ pos' \in Int /\ book' \in Nat
    BY <1>5 DEF Restart, Typing
  <2>6. QED
    BY <2>1, <2>3, <2>4, <2>5 DEF Typing
<1>6. ASSUME NEW s \in Signals, Signal(s) \/ Accept(s) \/ Refuse(s)
      PROVE  Typing'
  <2>1. s \in Orders /\ "over" \in States
    BY OrderKinds DEF States
  <2>2. order' \in [Orders -> Order]
    BY <1>6, <2>1, SignalOrder, AcceptOrder, EndsOrder DEF Refuse, OnlyOrder
  <2>3. CASE Signal(s) \/ Refuse(s)
    BY <2>2, <2>3 DEF Signal, Refuse, Typing
  <2>4. CASE Accept(s)
    <3>1. (overlapped \/ \E t \in Signals : Under(t)) \in BOOLEAN
      OBVIOUS
    <3>2. overlapped' \in BOOLEAN
      BY <2>4, <3>1 DEF Accept
    <3>3. QED
      BY <2>2, <2>4, <3>2 DEF Accept, Typing
  <2>5. QED
    BY <1>6, <2>3, <2>4
<1>7. ASSUME NEW e \in Emergencies, TriggerEmergencyClose(e)
      PROVE  Typing'
  <2>1. order' \in [Orders -> Order]
    BY <1>7, TriggerOrder
  <2>2. QED
    BY <1>7, <2>1 DEF TriggerEmergencyClose, Typing
<1>8. ASSUME NEW o \in Orders,
             FetchPositions(o) \/ NothingToReduce(o) \/ Fails(o) \/ AnswerLost(o)
      PROVE  Typing'
  <2>1. order' \in [Orders -> Order]
    BY <1>8, FetchOrder, EndsOrder
    DEF NothingToReduce, Fails, AnswerLost, OnlyOrder, States
  <2>2. CASE FetchPositions(o) \/ NothingToReduce(o)
    BY <2>1, <2>2 DEF FetchPositions, NothingToReduce, Typing
  <2>3. CASE Fails(o)
    BY <2>1, <2>3 DEF Fails, Typing
  <2>4. CASE AnswerLost(o)
    <3>1. strayed' \in BOOLEAN
      BY <2>4 DEF AnswerLost
    <3>2. faults' \in 0..MaxFaults
      BY <2>4 DEF AnswerLost, Typing
    <3>3. QED
      BY <2>1, <2>4, <3>1, <3>2 DEF AnswerLost, Typing
  <2>5. QED
    BY <1>8, <2>2, <2>3, <2>4
<1>9. ASSUME NEW o \in Orders, Execute(o)
      PROVE  Typing'
  <2>1. order' \in [Orders -> Order] /\ Fill(o) \in Nat
    BY <1>9, ExecuteOrder DEF OnlyOrder
  <2>2. pos' \in Int
    BY <1>9, <2>1 DEF Execute, Typing
  <2>3. QED
    BY <1>9, <2>1, <2>2 DEF Execute, Typing
<1>10. ASSUME NEW o \in Orders, Filled(o) \/ FilledUnnoticed(o)
       PROVE  Typing'
  <2>1. PICK told \in BOOLEAN, waited \in BOOLEAN : Answer(o, told, waited)
    BY <1>10, AnswerOf
  <2>2. order' \in [Orders -> Order]
    BY <2>1, AnswerOrder DEF OnlyOrder
  <2>3. FilledAmount(o, told) \in Nat /\ order[o].seq \in 0..MaxSeq
    BY OrderTyped, AnswerAmount
  <2>4. book' \in Nat /\ last' \in 0..MaxSeq
    BY <2>1, <2>3 DEF Answer, AtLeastZero, Typing
  <2>5. strayed' \in BOOLEAN
    <3>1. (\/ strayed
           \/ ~(order[o].side = "buy") /\ FilledAmount(o, told) > book
           \/ ~told /\ order[o].amount # order[o].filled) \in BOOLEAN
      OBVIOUS
    <3>2. QED
      BY <2>1, <3>1 DEF Answer
  <2>6. faults' \in 0..MaxFaults
    <3>1. CASE Filled(o)
      BY <3>1 DEF Filled, Typing
    <3>2. CASE FilledUnnoticed(o)
      <4>1. faults < MaxFaults /\ faults' = faults + 1
        BY <3>2 DEF FilledUnnoticed
      <4>2. QED
        BY <4>1 DEF Typing
    <3>3. QED
      BY <1>10, <3>1, <3>2
  <2>7. allowed' \in BOOLEAN /\ danger' \in BOOLEAN /\ overlapped' \in BOOLEAN
    BY <2>1 DEF Answer, Typing
  <2>8. seq' \in 0..MaxSeq /\ pos' \in Int
    BY <2>1 DEF Answer, Typing
  <2>9. QED
    BY <2>2, <2>4, <2>5, <2>6, <2>7, <2>8 DEF Typing
<1>11. QED
  BY <1>1, <1>2, <1>3, <1>4, <1>5, <1>6, <1>7, <1>8, <1>9, <1>10 DEF Next

LEMMA AlwaysTyped == Spec => []Typing
<1>1. Init => Typing
  BY InitTyped
<1>2. Typing /\ [Next]_vars => Typing'
  BY NextTyped
<1>3. QED
  BY <1>1, <1>2, PTL DEF Spec

(* Every state of the runner is well-typed: the book never goes below zero,  *)
(* and no candle number is past the candles closed.                          *)
THEOREM TypesCorrect == Spec => []TypeOK
<1>1. Typing => TypeOK
  BY DEF Typing, TypeOK, Order
<1>2. QED
  BY <1>1, AlwaysTyped, PTL

------------------------------------------------------------------------------
(* Closes *)

\* Only the exchange executes an order, and only one that was sent.
LEMMA OnlyExecuteExecutes ==
  ASSUME Typing, [Next]_vars, NEW o \in Orders,
         order[o].st # "executed", order'[o].st = "executed"
  PROVE  Execute(o)
<1> SUFFICES ASSUME ~Execute(o) PROVE FALSE
  OBVIOUS
<1>1. CASE UNCHANGED vars \/ CandleClosed \/ TradingResumes \/ DangerBegins
  BY <1>1 DEF vars, CandleClosed, TradingResumes, DangerBegins
<1>2. CASE ApiClosePosition
  BY <1>2, ApiOrder DEF OnlyOrder
<1>3. CASE Restart
  BY <1>3, RestartOrder
<1>4. ASSUME NEW s \in Signals, Signal(s) \/ Accept(s) \/ Refuse(s)
      PROVE  FALSE
  <2>1. s \in Orders /\ "over" \in States
    BY OrderKinds DEF States
  <2>2. QED
    BY <1>4, <2>1, SignalOrder, AcceptOrder, EndsOrder DEF Refuse, OnlyOrder
<1>5. ASSUME NEW e \in Emergencies, TriggerEmergencyClose(e)
      PROVE  FALSE
  BY <1>5, TriggerOrder
<1>6. ASSUME NEW p \in Orders,
             \/ FetchPositions(p) \/ NothingToReduce(p) \/ Fails(p)
             \/ Filled(p) \/ FilledUnnoticed(p) \/ AnswerLost(p)
      PROVE  FALSE
  <2>1. "over" \in States /\ "unnoted" \in States
    BY DEF States
  <2>2. CASE FetchPositions(p)
    BY <2>2, FetchOrder DEF OnlyOrder
  <2>3. CASE NothingToReduce(p) \/ Fails(p) \/ AnswerLost(p)
    BY <2>1, <2>3, EndsOrder DEF NothingToReduce, Fails, AnswerLost, OnlyOrder
  <2>4. CASE Filled(p) \/ FilledUnnoticed(p)
    <3>1. PICK told \in BOOLEAN, waited \in BOOLEAN : Answer(p, told, waited)
      BY <2>4, AnswerOf
    <3>2. OnlyOrder(p) /\ order'[p].st # "executed"
      BY <3>1, AnswerOrder
    <3>3. QED
      BY <3>2 DEF OnlyOrder
  <2>5. QED
    BY <1>6, <2>2, <2>3, <2>4
<1>7. ASSUME NEW p \in Orders, Execute(p)
      PROVE  FALSE
  <2>1. p # o
    BY <1>7
  <2>2. QED
    BY <1>7, <2>1, ExecuteOrder DEF OnlyOrder
<1>8. QED
  BY <1>1, <1>2, <1>3, <1>4, <1>5, <1>6, <1>7 DEF Next

\* numbers of one sign
LEMMA ProductOfLike ==
  ASSUME NEW a \in Int, NEW b \in Int, (a >= 0 /\ b >= 0) \/ (a <= 0 /\ b <= 0)
  PROVE  a * b >= 0
BY SMT

LEMMA AbsOfPositive == ASSUME NEW n \in Int, n >= 0 PROVE Abs(n) = n
BY DEF Abs

LEMMA AbsOfNegative == ASSUME NEW n \in Int, n <= 0 PROVE Abs(n) = -n
BY DEF Abs

\* The exchange takes from the position what a reduceOnly order may fill of it.
LEMMA ReducingShrinks ==
  ASSUME Typing, NEW o \in Orders, ReduceOnly(o), Execute(o)
  PROVE  Abs(pos') < Abs(pos) /\ pos * pos' >= 0
<1> DEFINE f == Fill(o)
<1>1. f \in Nat /\ f > 0 /\ pos \in Int
  BY FillTyped DEF Execute, Typing
<1>2. order[o].side \in {"buy", "sell"}
  BY OrderTyped
<1>3. CASE order[o].side = "sell"
  <2>1. f <= AtLeastZero(pos) /\ pos' = pos - f
    BY <1>3, FillTyped DEF Execute
  <2>2. /\ pos >= 0 /\ pos' >= 0 /\ pos' < pos
        /\ pos' \in Int
    <3> HIDE DEF f
    <3>1. QED
      BY <1>1, <2>1 DEF AtLeastZero
  <2>3. pos * pos' >= 0
    BY <1>1, <2>2, ProductOfLike
  <2>4. QED
    BY <1>1, <2>2, <2>3, AbsOfPositive
<1>4. CASE order[o].side = "buy"
  <2>1. f <= AtLeastZero(-pos) /\ pos' = pos + f
    BY <1>4, FillTyped DEF Execute
  <2>2. /\ pos <= 0 /\ pos' <= 0 /\ -pos' < -pos
        /\ pos' \in Int
    <3> HIDE DEF f
    <3>1. QED
      BY <1>1, <2>1 DEF AtLeastZero
  <2>3. pos * pos' >= 0
    BY <1>1, <2>2, ProductOfLike
  <2>4. QED
    BY <1>1, <2>2, <2>3, AbsOfNegative
<1>5. QED
  BY <1>2, <1>3, <1>4

(* However many closes an emergency and the API start from whatever they     *)
(* were told of the position, none turns it round.                           *)
THEOREM ClosesOnlyClose == Spec => ClosingNeverFlips
<1> DEFINE Closes == \A o \in Closers \cup {Api} :
                       order[o].st = "sent" /\ order'[o].st = "executed"
                          => Abs(pos') < Abs(pos) /\ pos * pos' >= 0
<1>1. ASSUME Typing, [Next]_vars
      PROVE  Closes
  <2> SUFFICES ASSUME NEW o \in Closers \cup {Api},
                      order[o].st = "sent", order'[o].st = "executed"
               PROVE  Abs(pos') < Abs(pos) /\ pos * pos' >= 0
    OBVIOUS
  <2>1. o \in Orders /\ ReduceOnly(o)
    BY TradersAreNoClosers DEF ReduceOnly
  <2>2. Execute(o)
    BY <1>1, <2>1, OnlyExecuteExecutes
  <2>3. QED
    BY <1>1, <2>1, <2>2, ReducingShrinks
<1>2. Typing /\ [Next]_vars => [Closes]_vars
  BY <1>1
<1> HIDE DEF Closes
<1>3. Spec => [][Closes]_vars
  BY <1>2, AlwaysTyped, PTL DEF Spec
<1>4. QED
  BY <1>3 DEF ClosingNeverFlips, Closes

------------------------------------------------------------------------------
(* The book: what lies between it and the position is what the exchange has  *)
(* executed and the runner has not heard of.  These quantities are sums over *)
(* the orders, taken here as the sizes of sets of units.                     *)

\* the units of an order's fill
Units(o, n) == {o} \X (1..n)

\* the units of the orders on a side that are executed and not yet answered
OnTheWay(orders, side) ==
    {u \in Orders \X Nat : /\ orders[u[1]].st = "executed"
                           /\ orders[u[1]].side = side
                           /\ u[2] \in 1..orders[u[1]].filled}

Total(side) == Cardinality(OnTheWay(order, side))

BookIInv ==
    /\ Typing
    /\ \A side \in {"buy", "sell"} : IsFiniteSet(OnTheWay(order, side))
    /\ ~strayed => pos - book = Total("buy") - Total("sell")

\* n units are n.
LEMMA UnitsCounted ==
  ASSUME NEW o, NEW n \in Nat
  PROVE  IsFiniteSet(Units(o, n)) /\ Cardinality(Units(o, n)) = n
<1>1. IsFiniteSet({o}) /\ Cardinality({o}) = 1
  BY FS_Singleton
<1>2. IsFiniteSet(1..n) /\ Cardinality(1..n) = n
  BY FS_Interval
<1>3. /\ IsFiniteSet({o} \X (1..n))
      /\ Cardinality({o} \X (1..n)) = Cardinality({o}) * Cardinality(1..n)
  BY <1>1, <1>2, FS_Product
<1>4. Cardinality({o} \X (1..n)) = 1 * n
  BY <1>1, <1>2, <1>3
<1>5. QED
  BY <1>3, <1>4 DEF Units

\* Units of an order that was not among them add up.
LEMMA UnitsAdded ==
  ASSUME NEW S, IsFiniteSet(S), NEW o, NEW n \in Nat, S \cap Units(o, n) = {}
  PROVE  /\ IsFiniteSet(S \cup Units(o, n))
         /\ Cardinality(S) \in Nat
         /\ Cardinality(S \cup Units(o, n)) = Cardinality(S) + n
<1>1. IsFiniteSet(Units(o, n)) /\ Cardinality(Units(o, n)) = n
  BY UnitsCounted
<1>2. /\ IsFiniteSet(S \cup Units(o, n))
      /\ Cardinality(S \cup Units(o, n))
           = Cardinality(S) + Cardinality(Units(o, n)) - Cardinality(S \cap Units(o, n))
  BY <1>1, FS_Union
<1>3. Cardinality(S) \in Nat /\ Cardinality(S \cap Units(o, n)) = 0
  BY FS_CardinalityType, FS_EmptySet
<1>4. QED
  BY <1>1, <1>2, <1>3

\* What is on the way depends on the executed orders alone.
LEMMA SameOnTheWay ==
  ASSUME NEW side, NEW old, NEW new,
         \A p \in Orders : \/ new[p] = old[p]
                           \/ old[p].st # "executed" /\ new[p].st # "executed"
  PROVE  OnTheWay(new, side) = OnTheWay(old, side)
<1>1. \A u \in Orders \X Nat : u[1] \in Orders
  OBVIOUS
<1>2. QED
  BY <1>1 DEF OnTheWay

\* An order more that is executed, on its side and on no other.
LEMMA OneMoreOnTheWay ==
  ASSUME NEW old, NEW new, NEW o \in Orders, new[o].filled \in Nat,
         \A p \in Orders : p # o => new[p] = old[p],
         old[o].st # "executed", new[o].st = "executed"
  PROVE  /\ OnTheWay(new, new[o].side)
              = OnTheWay(old, new[o].side) \cup Units(o, new[o].filled)
         /\ OnTheWay(old, new[o].side) \cap Units(o, new[o].filled) = {}
         /\ \A side : side # new[o].side => OnTheWay(new, side) = OnTheWay(old, side)
<1> DEFINE n == new[o].filled
<1>1. \A u \in Orders \X Nat : u = <<u[1], u[2]>> /\ u[1] \in Orders
  OBVIOUS
<1>2. \A u : u \in Units(o, n)
               <=> u \in Orders \X Nat /\ u[1] = o /\ u[2] \in 1..n
  <2>1. ASSUME NEW u \in Units(o, n)
        PROVE  u \in Orders \X Nat /\ u[1] = o /\ u[2] \in 1..n
    BY DEF Units
  <2>2. ASSUME NEW u \in Orders \X Nat, u[1] = o, u[2] \in 1..n
        PROVE  u \in Units(o, n)
    BY <1>1, <2>2 DEF Units
  <2>3. QED
    BY <2>1, <2>2
<1>3. \A side : \A u \in Orders \X Nat : u[1] # o =>
        (u \in OnTheWay(new, side) <=> u \in OnTheWay(old, side))
  BY <1>1 DEF OnTheWay
<1>4. \A side : \A u \in Orders \X Nat : u[1] = o =>
        /\ u \notin OnTheWay(old, side)
        /\ u \in OnTheWay(new, side) <=> side = new[o].side /\ u[2] \in 1..n
  BY DEF OnTheWay
<1>5. \A orders, side : OnTheWay(orders, side) \subseteq Orders \X Nat
  BY DEF OnTheWay
<1>6. QED
  <2> HIDE DEF n
  <2>1. /\ OnTheWay(new, new[o].side) = OnTheWay(old, new[o].side) \cup Units(o, n)
        /\ OnTheWay(old, new[o].side) \cap Units(o, n) = {}
    BY <1>2, <1>3, <1>4, <1>5
  <2>2. ASSUME NEW side, side # new[o].side
        PROVE  OnTheWay(new, side) = OnTheWay(old, side)
    <3>1. \A u \in Orders \X Nat : u \in OnTheWay(new, side) <=> u \in OnTheWay(old, side)
      BY <1>3, <1>4, <2>2
    <3>2. QED
      BY <1>5, <3>1
  <2>3. QED
    BY <2>1, <2>2 DEF n

\* where no order is executed, nothing is on the way
LEMMA NothingOnTheWay ==
  ASSUME NEW orders, NEW side, \A p \in Orders : orders[p].st # "executed"
  PROVE  /\ OnTheWay(orders, side) = {} /\ IsFiniteSet(OnTheWay(orders, side))
         /\ Cardinality(OnTheWay(orders, side)) = 0
<1>1. OnTheWay(orders, side) = {}
  BY DEF OnTheWay
<1>2. QED
  BY <1>1, FS_EmptySet

\* A step that executes and books nothing.
LEMMA BookUntouched ==
  ASSUME BookIInv, Typing', pos' = pos, book' = book, strayed' = strayed,
         \A p \in Orders :
           \/ order'[p] = order[p]
           \/ order[p].st # "executed" /\ order'[p].st # "executed"
  PROVE  BookIInv'
<1>1. \A side \in {"buy", "sell"} : OnTheWay(order', side) = OnTheWay(order, side)
  BY SameOnTheWay
<1>2. \A side \in {"buy", "sell"} : IsFiniteSet(OnTheWay(order', side))
  BY <1>1 DEF BookIInv
<1>3. Total("buy")' = Total("buy") /\ Total("sell")' = Total("sell")
  BY <1>1 DEF Total
<1>4. QED
  BY <1>2, <1>3 DEF BookIInv

\* The exchange moves the position, and as much is on its way.
LEMMA BookExecute ==
  ASSUME BookIInv, Typing', NEW o \in Orders, Execute(o)
  PROVE  BookIInv'
<1> DEFINE side == order[o].side
           other == IF side = "buy" THEN "sell" ELSE "buy"
           n == Fill(o)
<1>1. /\ OnlyOrder(o) /\ order[o].st = "sent" /\ order'[o].st = "executed"
      /\ order'[o].side = side /\ order'[o].filled = n /\ n \in Nat
  BY ExecuteOrder DEF BookIInv
<1>2. side \in {"buy", "sell"} /\ pos \in Int /\ book \in Nat
  BY OrderTyped DEF BookIInv, Typing
<1>3. /\ pos' = IF side = "buy" THEN pos + n ELSE pos - n
      /\ book' = book /\ strayed' = strayed
  BY DEF Execute
<1> HIDE DEF side, n
<1>4. /\ OnTheWay(order', side) = OnTheWay(order, side) \cup Units(o, n)
      /\ OnTheWay(order, side) \cap Units(o, n) = {}
      /\ \A d : d # side => OnTheWay(order', d) = OnTheWay(order, d)
  BY <1>1, OneMoreOnTheWay DEF OnlyOrder
<1>5. IsFiniteSet(OnTheWay(order, "buy")) /\ IsFiniteSet(OnTheWay(order, "sell"))
  BY DEF BookIInv
<1>6. /\ IsFiniteSet(OnTheWay(order', side)) /\ Cardinality(OnTheWay(order, side)) \in Nat
      /\ Cardinality(OnTheWay(order', side)) = Cardinality(OnTheWay(order, side)) + n
  BY <1>1, <1>2, <1>4, <1>5, UnitsAdded
<1>7. \A d \in {"buy", "sell"} : IsFiniteSet(OnTheWay(order', d))
  BY <1>4, <1>5, <1>6
<1>8. Total("buy") \in Nat /\ Total("sell") \in Nat
  BY <1>5, FS_CardinalityType DEF Total
<1>9. CASE side = "buy"
  <2>1. Total("buy")' = Total("buy") + n /\ Total("sell")' = Total("sell")
    BY <1>4, <1>6, <1>9 DEF Total
  <2>2. ~strayed' => pos' - book' = Total("buy")' - Total("sell")'
    BY <1>1, <1>2, <1>3, <1>8, <1>9, <2>1 DEF BookIInv
  <2>3. QED
    BY <1>7, <2>2 DEF BookIInv
<1>10. CASE side = "sell"
  <2>1. Total("sell")' = Total("sell") + n /\ Total("buy")' = Total("buy")
    BY <1>4, <1>6, <1>10 DEF Total
  <2>2. ~strayed' => pos' - book' = Total("buy")' - Total("sell")'
    BY <1>1, <1>2, <1>3, <1>8, <1>10, <2>1 DEF BookIInv
  <2>3. QED
    BY <1>7, <2>2 DEF BookIInv
<1>11. QED
  BY <1>2, <1>9, <1>10

\* An order that is executed no longer: what it had filled is off its side.
LEMMA OneLessOnTheWay ==
  ASSUME Typing, NEW o \in Orders, OnlyOrder(o),
         order[o].st = "executed", order'[o].st # "executed"
  PROVE  /\ OnTheWay(order, order[o].side)
              = OnTheWay(order', order[o].side) \cup Units(o, order[o].filled)
         /\ OnTheWay(order', order[o].side) \cap Units(o, order[o].filled) = {}
         /\ \A d : d # order[o].side => OnTheWay(order, d) = OnTheWay(order', d)
<1>1. \A p \in Orders : p # o => order[p] = order'[p]
  BY DEF OnlyOrder
<1>2. order[o].filled \in Nat
  BY OrderTyped
<1>3. QED
  BY <1>1, <1>2, OneMoreOnTheWay

\* An answer takes from the book's lag what it books.
LEMMA BookAnswer ==
  ASSUME BookIInv, Typing', NEW o \in Orders,
         NEW told \in BOOLEAN, NEW waited \in BOOLEAN, Answer(o, told, waited)
  PROVE  BookIInv'
<1> DEFINE side == order[o].side
           n == order[o].filled
           booked == FilledAmount(o, told)
<1>1. OnlyOrder(o) /\ order'[o].st # "executed" /\ order[o].st = "executed"
  BY AnswerOrder DEF BookIInv
<1>2. side \in {"buy", "sell"} /\ n \in Nat /\ pos \in Int /\ book \in Nat
  BY OrderTyped DEF BookIInv, Typing
<1>3. /\ pos' = pos
      /\ book' = IF side = "buy" THEN book + booked ELSE AtLeastZero(book - booked)
      /\ ~strayed' => ~strayed /\ (side = "buy" \/ ~(booked > book)) /\ booked = n
  BY DEF Answer, FilledAmount
<1> HIDE DEF side, n, booked
<1>4. /\ OnTheWay(order, side) = OnTheWay(order', side) \cup Units(o, n)
      /\ OnTheWay(order', side) \cap Units(o, n) = {}
      /\ \A d : d # side => OnTheWay(order, d) = OnTheWay(order', d)
  BY <1>1, OneLessOnTheWay DEF BookIInv, side, n
<1>5. IsFiniteSet(OnTheWay(order, side))
  BY <1>2 DEF BookIInv
<1>6. IsFiniteSet(OnTheWay(order', side))
  BY <1>4, <1>5, FS_Subset
<1>7. /\ Cardinality(OnTheWay(order', side)) \in Nat
      /\ Cardinality(OnTheWay(order, side)) = Cardinality(OnTheWay(order', side)) + n
  BY <1>2, <1>4, <1>6, UnitsAdded
<1>8. \A d \in {"buy", "sell"} : IsFiniteSet(OnTheWay(order', d))
  BY <1>4, <1>6 DEF BookIInv
<1>9. Total("buy")' \in Nat /\ Total("sell")' \in Nat
  BY <1>8, FS_CardinalityType DEF Total
<1>10. CASE side = "buy"
  <2>1. Total("buy") = Total("buy")' + n /\ Total("sell") = Total("sell")'
    BY <1>4, <1>7, <1>10 DEF Total
  <2>2. ~strayed' => pos' - book' = Total("buy")' - Total("sell")'
    BY <1>2, <1>3, <1>9, <1>10, <2>1 DEF BookIInv
  <2>3. QED
    BY <1>8, <2>2 DEF BookIInv
<1>11. CASE side = "sell"
  <2>1. Total("sell") = Total("sell")' + n /\ Total("buy") = Total("buy")'
    BY <1>4, <1>7, <1>11 DEF Total
  <2>2. ~strayed' => book' = book - n
    BY <1>2, <1>3, <1>11 DEF AtLeastZero
  <2>3. ~strayed' => pos' - book' = Total("buy")' - Total("sell")'
    BY <1>2, <1>3, <1>9, <2>1, <2>2 DEF BookIInv
  <2>4. QED
    BY <1>8, <2>3 DEF BookIInv
<1>12. QED
  BY <1>2, <1>10, <1>11

\* When an answer is lost nothing is said of the book any more.
LEMMA BookLost ==
  ASSUME BookIInv, Typing', NEW o \in Orders, AnswerLost(o)
  PROVE  BookIInv'
<1>1. strayed' = TRUE
  BY DEF AnswerLost
<1>2. OnlyOrder(o) /\ order'[o].st # "executed"
  BY EndsOrder DEF AnswerLost, BookIInv, States
<1>3. \A side \in {"buy", "sell"} : OnTheWay(order', side) \subseteq OnTheWay(order, side)
  <2>1. \A u \in Orders \X Nat : u[1] \in Orders
    OBVIOUS
  <2>2. QED
    BY <1>2, <2>1 DEF OnlyOrder, OnTheWay
<1>4. \A side \in {"buy", "sell"} : IsFiniteSet(OnTheWay(order', side))
  BY <1>3, FS_Subset DEF BookIInv
<1>5. QED
  BY <1>1, <1>4 DEF BookIInv

LEMMA InitBook == Init => BookIInv
<1> SUFFICES ASSUME Init PROVE BookIInv
  OBVIOUS
<1>1. \A p \in Orders : order[p].st # "executed"
  BY DEF Init, Void
<1>2. \A side \in {"buy", "sell"} :
        IsFiniteSet(OnTheWay(order, side)) /\ Total(side) = 0
  BY <1>1, NothingOnTheWay DEF Total
<1>3. pos - book = 0
  BY DEF Init
<1>4. QED
  BY <1>2, <1>3, InitTyped DEF BookIInv

\* A restart with no position starts a book that agrees.
LEMMA BookRestart == ASSUME BookIInv, Typing', Restart PROVE BookIInv'
<1>1. \A p \in Orders : order'[p].st # "executed"
  BY RestartOrder
<1>2. \A side \in {"buy", "sell"} :
        IsFiniteSet(OnTheWay(order', side)) /\ Cardinality(OnTheWay(order', side)) = 0
  BY <1>1, NothingOnTheWay
<1>3. ~strayed' => pos' - book' = 0
  <2>1. ~strayed' => pos = 0
    BY DEF Restart
  <2>2. pos' = pos /\ book' = 0
    BY DEF Restart
  <2>3. QED
    BY <2>1, <2>2
<1>4. QED
  BY <1>2, <1>3 DEF BookIInv, Total

LEMMA NextBook == BookIInv /\ [Next]_vars => BookIInv'
<1> SUFFICES ASSUME BookIInv, [Next]_vars PROVE BookIInv'
  OBVIOUS
<1>1. Typing /\ Typing'
  BY NextTyped DEF BookIInv
<1>2. CASE UNCHANGED vars \/ CandleClosed \/ TradingResumes \/ DangerBegins
  BY <1>1, <1>2, BookUntouched
  DEF vars, CandleClosed, TradingResumes, DangerBegins
<1>3. CASE ApiClosePosition
  <2>1. \A p \in Orders :
          \/ order'[p] = order[p]
          \/ order[p].st # "executed" /\ order'[p].st # "executed"
    BY <1>1, <1>3, ApiOrder DEF OnlyOrder
  <2>2. QED
    BY <1>1, <1>3, <2>1, BookUntouched DEF ApiClosePosition
<1>4. CASE Restart
  BY <1>1, <1>4, BookRestart
<1>5. ASSUME NEW s \in Signals, Signal(s) \/ Accept(s) \/ Refuse(s)
      PROVE  BookIInv'
  <2>1. s \in Orders /\ "over" \in States
    BY OrderKinds DEF States
  <2>2. order[s].st # "executed" /\ order'[s].st # "executed" /\ OnlyOrder(s)
    BY <1>1, <1>5, <2>1, SignalOrder, AcceptOrder, EndsOrder DEF Signal, Accept, Refuse
  <2>3. pos' = pos /\ book' = book /\ strayed' = strayed
    BY <1>5 DEF Signal, Accept, Refuse
  <2>4. QED
    BY <1>1, <2>2, <2>3, BookUntouched DEF OnlyOrder
<1>6. ASSUME NEW e \in Emergencies, TriggerEmergencyClose(e)
      PROVE  BookIInv'
  <2>1. pos' = pos /\ book' = book /\ strayed' = strayed
    BY <1>6 DEF TriggerEmergencyClose
  <2>2. QED
    BY <1>1, <1>6, <2>1, TriggerOrder, BookUntouched
<1>7. ASSUME NEW o \in Orders, FetchPositions(o) \/ NothingToReduce(o) \/ Fails(o)
      PROVE  BookIInv'
  <2>1. "over" \in States
    BY DEF States
  <2>2. order[o].st # "executed" /\ order'[o].st # "executed" /\ OnlyOrder(o)
    BY <1>1, <1>7, <2>1, FetchOrder, EndsOrder DEF NothingToReduce, Fails
  <2>3. pos' = pos /\ book' = book /\ strayed' = strayed
    BY <1>7 DEF FetchPositions, NothingToReduce, Fails
  <2>4. QED
    BY <1>1, <2>2, <2>3, BookUntouched DEF OnlyOrder
<1>8. ASSUME NEW o \in Orders,
             Execute(o) \/ Filled(o) \/ FilledUnnoticed(o) \/ AnswerLost(o)
      PROVE  BookIInv'
  <2>1. CASE Execute(o) \/ AnswerLost(o)
    BY <1>1, <2>1, BookExecute, BookLost
  <2>2. CASE Filled(o) \/ FilledUnnoticed(o)
    <3>1. PICK told \in BOOLEAN, waited \in BOOLEAN : Answer(o, told, waited)
      BY <2>2, AnswerOf
    <3>2. QED
      BY <1>1, <3>1, BookAnswer
  <2>3. QED
    BY <1>8, <2>1, <2>2
<1>9. QED
  BY <1>2, <1>3, <1>4, <1>5, <1>6, <1>7, <1>8 DEF Next

(* When no order is under way the book is the position, but for the causes   *)
(* that strayed names: the gap between the two is always exactly what the    *)
(* exchange has executed and the runner has not heard of.                    *)
THEOREM BookFollowsPosition == Spec => []BookAgrees
<1>1. BookIInv => BookAgrees
  <2> SUFFICES ASSUME BookIInv, \A o \in Orders : ~Under(o), ~strayed
               PROVE  book = pos
    BY DEF BookAgrees
  <2>1. Total("buy") = 0 /\ Total("sell") = 0
    BY NothingOnTheWay DEF Under, Total
  <2>2. pos \in Int /\ book \in Nat
    BY DEF BookIInv, Typing
  <2>3. pos - book = Total("buy") - Total("sell")
    BY DEF BookIInv
  <2>4. pos - book = 0 - 0
    BY <2>1, <2>3, Zenon
  <2>5. QED
    BY <2>2, <2>4
<1>2. QED
  BY <1>1, InitBook, NextBook, PTL DEF Spec

------------------------------------------------------------------------------
(* The trade interval *)

\* a signal asks for no positions, and is of no later candle than the last; a
\* noted trade is of no earlier one than the first
CandlesCounted ==
    \A s \in Signals :
       /\ order[s].st # "asking"
       /\ order[s].seq <= seq
       /\ order[s].st = "filled" => order[s].seq > 0

\* without overlapping one signal's order is under way, and it was accepted
\* after every trade there is and far enough from every noted one
OneUnderWay == \A s, t \in Signals : Under(s) /\ Under(t) => s = t
NotedInLast == \A t \in Noted : order[t].seq <= last
AfterTrades ==
    \A s \in Signals : \A t \in Trades : Under(s) => order[t].seq <= order[s].seq
FarFromNoted ==
    \A s \in Signals : \A t \in Noted :
       Under(s) => order[s].seq - order[t].seq >= MinTradeIntervalCandles

SpacedIInv ==
    /\ Typing
    /\ CandlesCounted
    /\ ~overlapped => OneUnderWay /\ NotedInLast /\ AfterTrades /\ FarFromNoted
    /\ SpacedUnlessOverlapping

\* With no signal's order under way and no trade there is nothing to keep apart.
LEMMA SpacedWhenEmpty ==
  ASSUME Typing,
         \A s \in Signals : order[s].st \in {"none", "over"} /\ order[s].seq = 0
  PROVE  SpacedIInv
<1>1. Trades = {} /\ Noted = {} /\ \A s \in Signals : ~Under(s)
  BY DEF Trades, Noted, Under
<1>2. seq \in Nat
  BY TradingSystemRunnerAssumption DEF Typing
<1>3. CandlesCounted
  BY <1>2 DEF CandlesCounted
<1>4. QED
  BY <1>1, <1>3 DEF SpacedIInv, OneUnderWay, NotedInLast, AfterTrades, FarFromNoted,
                    SpacedUnlessOverlapping

\* The candles of signals, as numbers.
LEMMA SignalCandles ==
  ASSUME SpacedIInv
  PROVE  /\ seq \in Nat /\ last \in Nat /\ MinTradeIntervalCandles \in Nat
         /\ \A s \in Signals : order[s].seq \in Nat /\ order[s].seq <= seq
         /\ Noted \subseteq Trades /\ Trades \subseteq Signals
<1>1. Typing /\ CandlesCounted
  BY DEF SpacedIInv
<1>2. seq \in Nat /\ last \in Nat /\ MinTradeIntervalCandles \in Nat
  BY <1>1, TradingSystemRunnerAssumption DEF Typing
<1>3. \A s \in Signals : order[s].seq \in Nat /\ order[s].seq <= seq
  BY <1>1, OrderKinds, OrderTyped, TradingSystemRunnerAssumption DEF CandlesCounted
<1>4. Noted \subseteq Trades /\ Trades \subseteq Signals
  BY DEF Noted, Trades
<1>5. QED
  BY <1>2, <1>3, <1>4

\* A step that accepts no signal and in which no signal trades.
LEMMA SpacedUntouched ==
  ASSUME SpacedIInv, Typing', last' = last, overlapped' = overlapped,
         seq' \in {seq, seq + 1},
         \A s \in Signals :
           /\ order'[s].st # "asking" /\ order'[s].seq \in {0, order[s].seq}
           /\ order'[s].st \in {"sent", "executed"}
                => order[s].st \in {"sent", "executed"} /\ order'[s].seq = order[s].seq
           /\ order'[s].st \in {"filled", "unnoted"}
                => order'[s].st = order[s].st /\ order'[s].seq = order[s].seq
  PROVE  SpacedIInv'
<1>1. \A s \in Signals : Under(s)' => Under(s) /\ order'[s].seq = order[s].seq
  BY DEF Under
<1>2. \A t \in Trades' : t \in Trades /\ t \in Signals /\ order'[t].seq = order[t].seq
  BY DEF Trades
<1>3. \A t \in Noted' : t \in Noted /\ t \in Signals /\ order'[t].seq = order[t].seq
  BY DEF Noted
<1>4. CandlesCounted'
  <2> SUFFICES ASSUME NEW s \in Signals
               PROVE  /\ order'[s].st # "asking" /\ order'[s].seq <= seq'
                      /\ order'[s].st = "filled" => order'[s].seq > 0
    BY DEF CandlesCounted
  <2>1. order[s].seq \in Nat /\ order[s].seq <= seq /\ seq \in Nat
    BY SignalCandles
  <2>2. order[s].st = "filled" => order[s].seq > 0
    BY DEF SpacedIInv, CandlesCounted
  <2>3. order'[s].seq <= seq'
    BY <2>1
  <2>4. QED
    BY <2>2, <2>3
<1>5. ~overlapped' => OneUnderWay' /\ NotedInLast' /\ AfterTrades' /\ FarFromNoted'
  <2> SUFFICES ASSUME ~overlapped'
               PROVE  OneUnderWay' /\ NotedInLast' /\ AfterTrades' /\ FarFromNoted'
    OBVIOUS
  <2>1. OneUnderWay /\ NotedInLast /\ AfterTrades /\ FarFromNoted
    BY DEF SpacedIInv
  <2>2. OneUnderWay'
    BY <1>1, <2>1 DEF OneUnderWay
  <2>3. NotedInLast'
    BY <1>3, <2>1 DEF NotedInLast
  <2>4. AfterTrades'
    BY <1>1, <1>2, <2>1 DEF AfterTrades
  <2>5. FarFromNoted'
    BY <1>1, <1>3, <2>1 DEF FarFromNoted
  <2>6. QED
    BY <2>2, <2>3, <2>4, <2>5
<1>6. SpacedUnlessOverlapping'
  <2> SUFFICES ASSUME ~overlapped', NEW s \in Noted', NEW t \in Trades', s # t,
                      t \in Noted' \/ order'[t].seq > order'[s].seq
               PROVE  Apart(s, t)'
    BY DEF SpacedUnlessOverlapping
  <2>1. s \in Noted /\ t \in Trades /\ (t \in Noted \/ order[t].seq > order[s].seq)
    BY <1>2, <1>3
  <2>2. Apart(s, t)
    BY <2>1 DEF SpacedIInv, SpacedUnlessOverlapping
  <2>3. QED
    BY <1>2, <1>3, <2>2 DEF Apart
<1>7. QED
  BY <1>4, <1>5, <1>6 DEF SpacedIInv

\* A signal is accepted alone, its candle far enough from the last one noted.
LEMMA SpacedAccept ==
  ASSUME SpacedIInv, Typing', NEW s \in Signals, Accept(s)
  PROVE  SpacedIInv'
<1>1. Typing
  BY DEF SpacedIInv
<1>2. /\ order'[s].st = "sent" /\ order'[s].seq = seq /\ order[s].st = "syncing"
      /\ \A t \in Signals : t # s => order'[t] = order[t]
  BY <1>1, AcceptOrder, OrderKinds DEF OnlyOrder, Accept
<1>3. /\ seq \in Nat /\ last \in Nat /\ MinTradeIntervalCandles \in Nat
      /\ \A t \in Signals : order[t].seq \in Nat /\ order[t].seq <= seq
  BY SignalCandles
<1>4. /\ last' = last /\ seq' = seq /\ ~Cooling(seq)
      /\ ~overlapped' => ~overlapped /\ \A t \in Signals : ~Under(t)
  BY DEF Accept
<1>5. \A t \in Signals : t # s => (Under(t)' <=> Under(t))
  BY <1>2 DEF Under
<1>6. Trades' = Trades /\ Noted' = Noted /\ s \notin Trades /\ s \notin Noted
  BY <1>2 DEF Trades, Noted
<1>7. \A t \in Trades : t \in Signals /\ order'[t] = order[t]
  BY <1>2, <1>6 DEF Trades
<1>8. \A t \in Noted : t \in Trades /\ order[t].seq > 0 /\ order[t].seq \in Nat
  <2> TAKE t \in Noted
  <2>1. t \in Signals /\ t \in Trades /\ order[t].st = "filled"
    BY DEF Noted, Trades
  <2>2. QED
    BY <1>3, <2>1 DEF SpacedIInv, CandlesCounted
<1>9. CandlesCounted'
  <2> SUFFICES ASSUME NEW t \in Signals
               PROVE  /\ order'[t].st # "asking" /\ order'[t].seq <= seq'
                      /\ order'[t].st = "filled" => order'[t].seq > 0
    BY DEF CandlesCounted
  <2>1. CASE t = s
    BY <1>2, <1>3, <1>4, <2>1
  <2>2. CASE t # s
    BY <1>2, <1>4, <2>2 DEF SpacedIInv, CandlesCounted
  <2>3. QED
    BY <2>1, <2>2
<1>10. ~overlapped' => OneUnderWay' /\ NotedInLast' /\ AfterTrades' /\ FarFromNoted'
  <2> SUFFICES ASSUME ~overlapped'
               PROVE  OneUnderWay' /\ NotedInLast' /\ AfterTrades' /\ FarFromNoted'
    OBVIOUS
  <2>1. NotedInLast /\ ~overlapped
    BY <1>4 DEF SpacedIInv
  <2>2. \A t \in Signals : Under(t)' => t = s
    BY <1>4, <1>5
  <2>3. OneUnderWay'
    BY <2>2 DEF OneUnderWay
  <2>4. NotedInLast'
    BY <1>4, <1>6, <1>7, <1>8, <2>1 DEF NotedInLast
  <2>5. \A t \in Noted : seq - order[t].seq >= MinTradeIntervalCandles
    <3> TAKE t \in Noted
    <3>1. order[t].seq <= last /\ order[t].seq > 0 /\ order[t].seq \in Nat
      BY <1>8, <2>1 DEF NotedInLast
    <3>2. ~(last # 0 /\ seq - last < MinTradeIntervalCandles)
      BY <1>4 DEF Cooling
    <3>3. QED
      BY <1>3, <3>1, <3>2
  <2>6. FarFromNoted'
    <3> SUFFICES ASSUME NEW u \in Signals, NEW t \in Noted', Under(u)'
                 PROVE  order'[u].seq - order'[t].seq >= MinTradeIntervalCandles
      BY DEF FarFromNoted
    <3>1. u = s
      BY <2>2
    <3>2. QED
      BY <1>2, <1>6, <1>7, <1>8, <2>5, <3>1
  <2>7. AfterTrades'
    <3> SUFFICES ASSUME NEW u \in Signals, NEW t \in Trades', Under(u)'
                 PROVE  order'[t].seq <= order'[u].seq
      BY DEF AfterTrades
    <3>1. u = s
      BY <2>2
    <3>2. QED
      BY <1>2, <1>3, <1>6, <1>7, <3>1
  <2>8. QED
    BY <2>3, <2>4, <2>6, <2>7
<1>11. SpacedUnlessOverlapping'
  <2> SUFFICES ASSUME ~overlapped', NEW u \in Noted', NEW t \in Trades', u # t,
                      t \in Noted' \/ order'[t].seq > order'[u].seq
               PROVE  Apart(u, t)'
    BY DEF SpacedUnlessOverlapping
  <2>1. u \in Noted /\ t \in Trades /\ order'[u] = order[u] /\ order'[t] = order[t]
    BY <1>6, <1>7, <1>8
  <2>2. Apart(u, t)
    BY <1>4, <1>6, <2>1 DEF SpacedIInv, SpacedUnlessOverlapping
  <2>3. QED
    BY <2>1, <2>2 DEF Apart
<1>12. QED
  BY <1>9, <1>10, <1>11 DEF SpacedIInv

\* The one order under way trades: after every trade, and far from those that
\* were noted.  When it is noted it becomes the last.
LEMMA SpacedTraded ==
  ASSUME SpacedIInv, Typing', NEW s \in Signals, order[s].st = "executed",
         \A t \in Signals : t # s => order'[t] = order[t],
         order'[s].seq = order[s].seq,
         \/ order'[s].st = "filled" /\ last' = order[s].seq /\ order[s].seq > 0
         \/ order'[s].st = "unnoted" /\ last' = last,
         seq' = seq, overlapped' = overlapped
  PROVE  SpacedIInv'
<1>1. Under(s) /\ ~Under(s)'
  BY DEF Under
<1>2. \A t \in Signals : t # s => (Under(t)' <=> Under(t))
  BY DEF Under
<1>3. /\ MinTradeIntervalCandles \in Nat /\ last \in Nat
      /\ \A t \in Signals : order[t].seq \in Nat /\ order'[t].seq = order[t].seq
  BY SignalCandles
<1>4. Trades' = Trades \cup {s} /\ s \notin Trades /\ s \notin Noted
  BY DEF Trades, Noted
<1>5. \/ Noted' = Noted \cup {s} /\ last' = order[s].seq
      \/ Noted' = Noted /\ last' = last
  BY DEF Noted
<1>6. \A t \in Trades : t \in Signals
  BY DEF Trades
<1>7. \A t \in Noted : t \in Trades /\ t \in Signals
  BY DEF Noted, Trades
<1>8. CandlesCounted'
  <2> SUFFICES ASSUME NEW t \in Signals
               PROVE  /\ order'[t].st # "asking" /\ order'[t].seq <= seq'
                      /\ order'[t].st = "filled" => order'[t].seq > 0
    BY DEF CandlesCounted
  <2>1. order[t].st # "asking" /\ order[t].seq <= seq
        /\ (order[t].st = "filled" => order[t].seq > 0)
    BY DEF SpacedIInv, CandlesCounted
  <2>2. CASE t = s
    BY <2>1, <2>2
  <2>3. CASE t # s
    BY <2>1, <2>3
  <2>4. QED
    BY <2>2, <2>3
<1>9. ASSUME ~overlapped
      PROVE  /\ \A t \in Noted : order[s].seq - order[t].seq >= MinTradeIntervalCandles
             /\ \A t \in Trades : order[t].seq <= order[s].seq
             /\ \A u \in Signals : ~Under(u)'
             /\ NotedInLast
  <2>1. OneUnderWay /\ AfterTrades /\ FarFromNoted /\ NotedInLast
    BY <1>9 DEF SpacedIInv
  <2>2. QED
    BY <1>1, <1>2, <2>1 DEF OneUnderWay, AfterTrades, FarFromNoted
<1>10. ~overlapped' => OneUnderWay' /\ NotedInLast' /\ AfterTrades' /\ FarFromNoted'
  <2> SUFFICES ASSUME ~overlapped'
               PROVE  OneUnderWay' /\ NotedInLast' /\ AfterTrades' /\ FarFromNoted'
    OBVIOUS
  <2>1. OneUnderWay' /\ AfterTrades' /\ FarFromNoted'
    BY <1>9 DEF OneUnderWay, AfterTrades, FarFromNoted
  <2>2. NotedInLast'
    <3>1. CASE Noted' = Noted /\ last' = last
      BY <1>3, <1>7, <1>9, <3>1 DEF NotedInLast
    <3>2. CASE Noted' = Noted \cup {s} /\ last' = order[s].seq
      <4> SUFFICES ASSUME NEW t \in Noted' PROVE order'[t].seq <= last'
        BY DEF NotedInLast
      <4>1. CASE t = s
        BY <1>3, <3>2, <4>1
      <4>2. CASE t \in Noted
        BY <1>3, <1>7, <1>9, <3>2, <4>2
      <4>3. QED
        BY <3>2, <4>1, <4>2
    <3>3. QED
      BY <1>5, <3>1, <3>2
  <2>3. QED
    BY <2>1, <2>2
<1>11. SpacedUnlessOverlapping'
  <2> SUFFICES ASSUME ~overlapped', NEW u \in Noted', NEW t \in Trades', u # t,
                      t \in Noted' \/ order'[t].seq > order'[u].seq
               PROVE  Apart(u, t)'
    BY DEF SpacedUnlessOverlapping
  <2>1. /\ u \in Signals /\ t \in Signals
        /\ order'[u].seq = order[u].seq /\ order'[t].seq = order[t].seq
        /\ order[u].seq \in Nat /\ order[t].seq \in Nat
    BY <1>3, <1>4, <1>5, <1>6, <1>7
  <2>2. CASE u # s /\ t # s
    <3>1. u \in Noted /\ t \in Trades /\ (t \in Noted' => t \in Noted)
      BY <1>4, <1>5, <2>2
    <3>2. Apart(u, t)
      BY <2>1, <3>1 DEF SpacedIInv, SpacedUnlessOverlapping
    <3>3. QED
      BY <2>1, <3>2 DEF Apart
  <2>3. CASE t = s
    <3>1. u \in Noted
      BY <1>5, <2>3
    <3>2. order[s].seq - order[u].seq >= MinTradeIntervalCandles
      BY <1>9, <3>1
    <3>3. /\ order[u].seq - order[s].seq \in Int
          /\ order[u].seq - order[s].seq <= 0
          /\ -(order[u].seq - order[s].seq) >= MinTradeIntervalCandles
      BY <1>3, <2>1, <2>3, <3>2
    <3>4. QED
      BY <2>1, <2>3, <3>3, AbsOfNegative DEF Apart
  <2>4. CASE u = s
    <3>1. t \in Trades /\ order[t].seq <= order[s].seq
      BY <1>4, <1>9, <2>4
    <3>2. t \in Noted
      BY <1>5, <2>1, <2>4, <3>1
    <3>3. order[s].seq - order[t].seq >= MinTradeIntervalCandles
      BY <1>9, <3>2
    <3>4. order[s].seq - order[t].seq \in Int /\ order[s].seq - order[t].seq >= 0
      BY <1>3, <2>1, <2>4, <3>3
    <3>5. QED
      BY <2>1, <2>4, <3>3, <3>4, AbsOfPositive DEF Apart
  <2>5. QED
    BY <2>2, <2>3, <2>4
<1>12. QED
  BY <1>8, <1>10, <1>11 DEF SpacedIInv

LEMMA InitSpaced == Init => SpacedIInv
<1> SUFFICES ASSUME Init PROVE SpacedIInv
  OBVIOUS
<1>1. \A s \in Signals : order[s].st = "none" /\ order[s].seq = 0
  BY OrderKinds DEF Init, Void
<1>2. QED
  BY <1>1, InitTyped, SpacedWhenEmpty

LEMMA NextSpaced == SpacedIInv /\ [Next]_vars => SpacedIInv'
<1> SUFFICES ASSUME SpacedIInv, [Next]_vars PROVE SpacedIInv'
  OBVIOUS
<1>1. Typing /\ Typing'
  BY NextTyped DEF SpacedIInv
<1>2. Signals \subseteq Orders /\ "over" \in States /\ "unnoted" \in States
  BY OrderKinds DEF States
<1>3. \A s \in Signals : order[s].st # "asking"
  BY DEF SpacedIInv, CandlesCounted
<1>4. ASSUME \A s \in Signals : order'[s] = order[s],
             last' = last, overlapped' = overlapped, seq' \in {seq, seq + 1}
      PROVE  SpacedIInv'
  BY <1>1, <1>3, <1>4, SpacedUntouched
<1>5. CASE UNCHANGED vars \/ CandleClosed \/ TradingResumes \/ DangerBegins
  BY <1>4, <1>5 DEF vars, CandleClosed, TradingResumes, DangerBegins
<1>6. CASE ApiClosePosition
  <2>1. \A s \in Signals : order'[s] = order[s]
    BY <1>1, <1>2, <1>6, ApiOrder, TradersAreNoClosers DEF OnlyOrder
  <2>2. QED
    BY <1>4, <1>6, <2>1 DEF ApiClosePosition
<1>7. CASE Restart
  <2>1. \A s \in Signals : order'[s].st \in {"none", "over"} /\ order'[s].seq = 0
    BY <1>2, <1>7, RestartOrder
  <2>2. Typing' /\ (\A s \in Signals : order[s].st \in {"none", "over"}
                                       /\ order[s].seq = 0)' => SpacedIInv'
    BY SpacedWhenEmpty, PTL
  <2>3. QED
    BY <1>1, <2>1, <2>2
<1>8. ASSUME NEW s \in Signals, Signal(s)
      PROVE  SpacedIInv'
  <2>1. /\ order'[s].st = "syncing" /\ order'[s].seq = order[s].seq
        /\ \A t \in Signals : t # s => order'[t] = order[t]
    BY <1>1, <1>2, <1>8, SignalOrder DEF OnlyOrder
  <2>2. seq' = seq /\ last' = last /\ overlapped' = overlapped
    BY <1>8 DEF Signal
  <2>3. QED
    BY <1>1, <1>3, <2>1, <2>2, SpacedUntouched
<1>9. ASSUME NEW s \in Signals, Accept(s)
      PROVE  SpacedIInv'
  BY <1>1, <1>9, SpacedAccept
<1>10. ASSUME NEW o \in Orders, Ends(o, "over"),
              seq' = seq, last' = last, overlapped' = overlapped
       PROVE  SpacedIInv'
  <2>1. /\ \A t \in Signals : t # o => order'[t] = order[t]
        /\ o \in Signals => order'[o].st = "over" /\ order'[o].seq = 0
    BY <1>1, <1>2, <1>10, EndsOrder DEF OnlyOrder
  <2>2. QED
    BY <1>1, <1>3, <1>10, <2>1, SpacedUntouched
<1>11. ASSUME NEW s \in Signals, Refuse(s)
       PROVE  SpacedIInv'
  <2>1. s \in Orders
    BY <1>2
  <2>2. QED
    BY <1>10, <1>11, <2>1 DEF Refuse
<1>12. ASSUME NEW e \in Emergencies, TriggerEmergencyClose(e)
       PROVE  SpacedIInv'
  <2>1. \A s \in Signals : order'[s] = order[s]
    BY <1>1, <1>2, <1>12, TriggerOrder, TradersAreNoClosers
  <2>2. QED
    BY <1>4, <1>12, <2>1 DEF TriggerEmergencyClose
<1>13. ASSUME NEW o \in Orders, NothingToReduce(o) \/ Fails(o)
       PROVE  SpacedIInv'
  BY <1>10, <1>13 DEF NothingToReduce, Fails
<1>14. ASSUME NEW o \in Orders, Filled(o) \/ FilledUnnoticed(o)
       PROVE  SpacedIInv'
  <2>1. PICK told \in BOOLEAN, waited \in BOOLEAN : Answer(o, told, waited)
    BY <1>14, AnswerOf
  <2>2. seq' = seq /\ overlapped' = overlapped
    BY <2>1 DEF Answer
  <2>3. /\ order[o].st = "executed"
        /\ \A t \in Signals : t # o => order'[t] = order[t]
    BY <1>1, <1>2, <2>1, AnswerOrder DEF OnlyOrder
  <2>4. CASE o \in Signals
    <3>1. /\ order'[o].seq = order[o].seq
          /\ order'[o].st = IF waited /\ order[o].seq > 0 THEN "filled" ELSE "unnoted"
      BY <1>1, <2>1, <2>4, AnswerOrder
    <3>2. last' = IF waited /\ order[o].seq > 0 THEN order[o].seq ELSE last
      BY <2>1, <2>4 DEF Answer
    <3>3. QED
      BY <1>1, <2>2, <2>3, <2>4, <3>1, <3>2, SpacedTraded
  <2>5. CASE o \notin Signals
    <3>1. last' = last
      BY <2>1, <2>5 DEF Answer
    <3>2. \A t \in Signals : order'[t] = order[t]
      BY <2>3, <2>5
    <3>3. QED
      BY <1>4, <2>2, <3>1, <3>2
  <2>6. QED
    BY <2>4, <2>5
<1>15. ASSUME NEW o \in Orders, AnswerLost(o)
       PROVE  SpacedIInv'
  <2>1. /\ order[o].st = "executed" /\ Ends(o, "unnoted")
        /\ seq' = seq /\ last' = last /\ overlapped' = overlapped
    BY <1>15 DEF AnswerLost
  <2>2. /\ \A t \in Signals : t # o => order'[t] = order[t]
        /\ o \in Signals => order'[o].st = "unnoted" /\ order'[o].seq = order[o].seq
    BY <1>1, <1>2, <2>1, EndsOrder DEF OnlyOrder
  <2>3. CASE o \in Signals
    BY <1>1, <2>1, <2>2, <2>3, SpacedTraded
  <2>4. CASE o \notin Signals
    BY <1>4, <2>1, <2>2, <2>4
  <2>5. QED
    BY <2>3, <2>4
<1>16. ASSUME NEW o \in Orders, Execute(o)
       PROVE  SpacedIInv'
  <2>1. /\ order[o].st = "sent" /\ order'[o].st = "executed"
        /\ order'[o].seq = order[o].seq
        /\ \A t \in Signals : t # o => order'[t] = order[t]
    BY <1>1, <1>2, <1>16, ExecuteOrder DEF OnlyOrder
  <2>2. seq' = seq /\ last' = last /\ overlapped' = overlapped
    BY <1>16 DEF Execute
  <2>3. QED
    BY <1>1, <1>3, <2>1, <2>2, SpacedUntouched
<1>17. ASSUME NEW o \in Orders, FetchPositions(o)
       PROVE  SpacedIInv'
  <2>1. OnlyOrder(o) /\ order[o].st = "asking"
    BY <1>1, <1>17, FetchOrder
  <2>2. o \notin Signals
    BY <1>3, <2>1
  <2>3. \A s \in Signals : order'[s] = order[s]
    BY <1>2, <2>1, <2>2 DEF OnlyOrder
  <2>4. seq' = seq /\ last' = last /\ overlapped' = overlapped
    BY <1>17 DEF FetchPositions
  <2>5. QED
    BY <1>4, <2>3, <2>4
<1>18. QED
  BY <1>5, <1>6, <1>7, <1>8, <1>9, <1>11, <1>12, <1>13, <1>14, <1>15, <1>16, <1>17
  DEF Next

(* As long as no signal is accepted while another's order is under way, every *)
(* trade keeps its distance from the noted trades before it, whatever fails,  *)
(* times out, is closed or is stopped between them, and however many trades   *)
(* were never noted.                                                          *)
THEOREM TradesKeepDistance == Spec => []SpacedUnlessOverlapping
<1>1. SpacedIInv => SpacedUnlessOverlapping
  BY DEF SpacedIInv
<1>2. QED
  BY <1>1, InitSpaced, NextSpaced, PTL DEF Spec

==============================================================================
