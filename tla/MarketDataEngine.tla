-------------------------- MODULE MarketDataEngine --------------------------
(***************************************************************************)
(* The connections and subscriptions of marketdata/MarketDataEngine.js for *)
(* one exchange and one symbol.  The engine keeps a main socket, which it  *)
(* replaces when it is lost; Binance's streams, with combined streams on,  *)
(* run over a pool of further sockets, each replaced with its keys.  A     *)
(* socket is a number in the order of creation.  An action is what runs    *)
(* between two awaits: a handler with the promise reactions it causes.     *)
(***************************************************************************)
EXTENDS Integers, Sequences, SequencesExt, FiniteSets, MarketChannels

CONSTANTS
  Exchanges,          \* the exchange is one of these
  Spot,               \* config.tradingType = 'spot'
  UseCombinedStream,  \* config.connectionPool.useCombinedStream
  Keys,               \* data types that are subscribed
  MaxSubs,            \* maxSubscriptionsPerConnection
  MaxAttempts,        \* config.reconnect.maxAttempts
  MaxSockets,         \* bound: sockets made
  MaxPool,            \* bound: sockets of the pool among them
  Faults,             \* what may fail: "drop", "silence", "connect", "poolConnect"
  MaxFaults,          \* bound: failures, for each exchange
  MaxChanges,         \* bound: calls of subscribe() and unsubscribe(), likewise
  MaxStarts           \* bound: calls of start()

ASSUME MarketDataEngineAssumption ==
  /\ Exchanges # {} /\ Keys \subseteq DataTypes
  /\ Spot \in BOOLEAN /\ UseCombinedStream \in BOOLEAN
  /\ {MaxSubs, MaxAttempts, MaxSockets} \subseteq Nat \ {0}
  /\ {MaxPool, MaxStarts} \subseteq Nat /\ {MaxFaults, MaxChanges} \subseteq [Exchanges -> Nat]
  /\ Faults \subseteq {"drop", "silence", "connect", "poolConnect"}

VARIABLES
  ex,        \* the exchange, never changes
  running,   \* this.running
  starting,  \* a start() in progress: "no", "connecting" or "settled"
  up,        \* history: the main socket was there when start() returned
  main,      \* connections.get(ex) and connectionStatus.get(ex)
  timers,    \* pending timers of _attemptReconnect()
  sock,      \* the sockets
  made,      \* sockets made so far
  subs,      \* subscriptions.get(ex)
  pool,      \* connectionPools.get(ex), in the order of insertion
  psubs,     \* connInfo.subscriptions of each socket of the pool
  route,     \* subscriptionToConnection.get(ex)
  lists,     \* pending timers of _attemptBinanceCombinedStreamReconnect()
  watch,     \* dataTimeoutTimers.get(ex): 0 is 'default'
  faults,    \* failures so far
  changes,   \* calls of subscribe() and unsubscribe() so far
  starts     \* calls of start() so far

bounds == <<faults, changes, starts>>
vars == <<ex, running, starting, up, main, timers, sock, made, subs, pool,
          psubs, route, lists, watch, bounds>>

None == 0
Sockets == 1..MaxSockets
Combined == ex = "binance" /\ UseCombinedStream
Channel == ChannelTable(ex, Spot)
Streams(K) == {Channel[k] : k \in K} \ {"none"}
InPool == {pool[i] : i \in DOMAIN pool}

Socket == [kind : {"main", "pool"}, by : {"start", "timer", "call", "list"},
           state : {"none", "connecting", "open", "closing", "closed", "failed"},
           silent : BOOLEAN, wire : SUBSET {ChannelTable(e, Spot)[k] : e \in Exchanges, k \in Keys},
           keys : SUBSET Keys, rest : SUBSET Keys]

NewSocket(kind, by, keys, rest) ==
  [kind |-> kind, by |-> by, state |-> "connecting", silent |-> FALSE,
   wire |-> IF kind = "pool" THEN Streams(keys) ELSE {},
   keys |-> keys, rest |-> rest]

Ended(s) == [NewSocket(s.kind, s.by, {}, {}) EXCEPT !.state = "closed"]
Unmade == [NewSocket("main", "start", {}, {}) EXCEPT !.state = "none"]

Init ==
  /\ ex \in Exchanges
  /\ running = FALSE /\ starting = "no" /\ up = FALSE
  /\ main = [entry |-> None, connected |-> FALSE, reconnecting |-> FALSE, attempt |-> 0]
  /\ timers = 0
  /\ sock = [s \in Sockets |-> Unmade] /\ made = 0
  /\ subs = {} /\ pool = <<>> /\ psubs = [s \in Sockets |-> {}]
  /\ route = [k \in Keys |-> None] /\ lists = {} /\ watch = {}
  /\ faults = 0 /\ changes = 0 /\ starts = 0

May(f) == f \in Faults /\ faults < MaxFaults[ex] /\ faults' = faults + 1

-----------------------------------------------------------------------------
(* Subscribing *)

\* the places in the pool of connections with room for another key
Roomy == {i \in DOMAIN pool : Cardinality(psubs[pool[i]]) < MaxSubs}

\* mutant: the answer of _addSubscriptionToBinanceConnection() is not looked at
AddToConnectionUnchecked(c, K, S, sk) ==
  /\ made' = made
  /\ subs' = S \cup K
  /\ IF sk[c].state = "open"
     THEN /\ psubs' = [psubs EXCEPT ![c] = @ \cup K]
          /\ route' = [k \in Keys |-> IF k \in K THEN c ELSE route[k]]
          /\ sock' = [sk EXCEPT ![c].wire = @ \cup Streams(K)]
     ELSE sock' = sk /\ UNCHANGED <<psubs, route>>

\* _addSubscriptionToBinanceConnection(), for the keys of K
AddToConnection(c, K, S, sk) ==
  /\ made' = made
  /\ IF sk[c].state = "open"
     THEN /\ subs' = S \cup K
          /\ psubs' = [psubs EXCEPT ![c] = @ \cup K]
          /\ route' = [k \in Keys |-> IF k \in K THEN c ELSE route[k]]
          /\ sock' = [sk EXCEPT ![c].wire = @ \cup Streams(K)]
     ELSE subs' = S /\ sock' = sk /\ UNCHANGED <<psubs, route>>

RoomForPool(n) ==
  /\ made + n <= MaxSockets
  /\ Cardinality({s \in 1..made : sock[s].kind = "pool"}) + n <= MaxPool

\* a connection of its own for each key: none is in the pool before it opens
CreateForEach(K, S, sk) ==
  LET order == CHOOSE q \in [1..Cardinality(K) -> K] : \A k \in K : \E i \in DOMAIN q : q[i] = k
  IN /\ RoomForPool(Cardinality(K))
     /\ made' = made + Cardinality(K)
     /\ sock' = [s \in Sockets |->
                   IF s \in made+1..made' THEN NewSocket("pool", "call", {order[s - made]}, {})
                                         ELSE sk[s]]
     /\ subs' = S /\ UNCHANGED <<psubs, route>>

\* calls of _subscribeToExchange() made together, with subscriptions S, sockets
\* sk and main socket e.  A type the builder throws on is in S by then.
SubscribeAll(K, S, sk, e) ==
  LET new == K \ S IN
  CASE new = {} ->
         subs' = S /\ sock' = sk /\ UNCHANGED <<made, psubs, route>>
    [] new # {} /\ Combined /\ Roomy # {} ->
         \E i \in Roomy : (\A j \in Roomy : i <= j) /\ AddToConnection(pool[i], new, S, sk)
    [] new # {} /\ Combined /\ Roomy = {} -> CreateForEach(new, S, sk)
    [] new # {} /\ ~Combined ->
         /\ IF e # None /\ sk[e].state = "open"
            THEN /\ subs' = S \cup new
                 /\ sock' = [sk EXCEPT ![e].wire = @ \cup Streams(new)]
            ELSE subs' = S /\ sock' = sk
         /\ UNCHANGED <<made, psubs, route>>

\* mutant: the set is not cleared, so every key counts as subscribed
ResubscribeKeeping(sk, e) == SubscribeAll(subs, subs, sk, e)

\* _resubscribe(): the set is cleared, then every key is subscribed anew
Resubscribe(sk, e) == SubscribeAll(subs, {}, sk, e)

\* subscribe(), or batchSubscribe() with several keys at once; callers have awaited
\* start()
Subscribe(K) ==
  /\ changes < MaxChanges[ex] /\ changes' = changes + 1
  /\ starting = "no" /\ main.entry # None
  /\ SubscribeAll(K, subs, sock, main.entry)
  /\ UNCHANGED <<ex, running, starting, up, main, timers, pool, lists, watch, faults, starts>>

\* _removeSubscriptionFromBinanceConnection()
RemoveFromConnection(k) ==
  LET c == route[k] IN
  /\ route' = [route EXCEPT ![k] = None]
  /\ IF c \in InPool
     THEN /\ psubs' = [psubs EXCEPT ![c] = @ \ {k}]
          /\ sock' = IF sock[c].state = "open"
                     THEN [sock EXCEPT ![c].wire = @ \ Streams({k})] ELSE sock
     ELSE UNCHANGED <<psubs, sock>>

RemoveFromMain(k) ==
  /\ sock' = IF sock[main.entry].state = "open"
             THEN [sock EXCEPT ![main.entry].wire = @ \ Streams({k})] ELSE sock
  /\ UNCHANGED <<psubs, route>>

\* unsubscribe() and _unsubscribeFromExchange()
Unsubscribe(k) ==
  /\ changes < MaxChanges[ex] /\ changes' = changes + 1
  /\ starting = "no" /\ main.entry # None
  /\ k \in subs
  /\ subs' = subs \ {k}
  /\ IF Combined THEN RemoveFromConnection(k) ELSE RemoveFromMain(k)
  /\ UNCHANGED <<ex, running, starting, up, main, timers, made, pool, lists, watch, faults, starts>>

-----------------------------------------------------------------------------
(* The main socket *)

\* mutant: a reconnection under way is not looked at
AttemptReconnectAlways(st) ==
  IF st.main.attempt >= MaxAttempts THEN st
  ELSE [main |-> [st.main EXCEPT !.reconnecting = TRUE, !.attempt = @ + 1],
        timers |-> st.timers + 1]

\* _attemptReconnect(), on the status and the number of pending timers
AttemptReconnect(st) ==
  IF st.main.reconnecting \/ st.main.attempt >= MaxAttempts THEN st
  ELSE [main |-> [st.main EXCEPT !.reconnecting = TRUE, !.attempt = @ + 1],
        timers |-> st.timers + 1]

Connect(by) ==
  /\ made < MaxSockets
  /\ made' = made + 1
  /\ sock' = [sock EXCEPT ![made + 1] = NewSocket("main", by, {}, {})]

\* start() up to the connection; its owner awaits it
Start ==
  /\ starts < MaxStarts /\ starts' = starts + 1
  /\ ~running /\ starting = "no"
  /\ starting' = "connecting"
  /\ Connect("start")
  /\ UNCHANGED <<ex, running, up, main, timers, subs, pool, psubs, route, lists, watch, faults, changes>>

\* the rest of start(), when the connections of all exchanges have settled
StartReturns ==
  /\ starting = "settled"
  /\ starting' = "no" /\ running' = TRUE
  /\ up' = (main.entry # None)
  /\ UNCHANGED <<ex, main, timers, sock, made, subs, pool, psubs, route, lists, watch, bounds>>

Settles(s) == starting' = IF sock[s].by = "start" THEN "settled" ELSE starting

\* the 'open' handler of _connectExchange()
MainOpens(s) ==
  /\ sock[s].kind = "main" /\ sock[s].state = "connecting"
  /\ main' = [entry |-> s, connected |-> TRUE, reconnecting |-> FALSE, attempt |-> 0]
  /\ watch' = watch \cup {0}
  /\ Resubscribe([sock EXCEPT ![s].state = "open"], s)
  /\ Settles(s)
  /\ UNCHANGED <<ex, running, up, timers, pool, lists, bounds>>

\* the 'close' handler of _connectExchange()
AfterClose ==
  LET lost == [main |-> [main EXCEPT !.connected = FALSE, !.entry = None],
               timers |-> timers]
  IN IF running THEN AttemptReconnect(lost) ELSE lost

MainCloses(s) ==
  /\ sock' = [sock EXCEPT ![s] = Ended(@)]
  /\ main' = AfterClose.main /\ timers' = AfterClose.timers
  /\ watch' = {}
  /\ UNCHANGED <<ex, running, starting, up, made, subs, pool, psubs, route, lists, changes, starts>>

\* mutant: the flag stays up
RejectedStillReconnecting == AttemptReconnect(AfterClose)

\* the catch block of _attemptReconnect()
AfterRejection == AttemptReconnect([AfterClose EXCEPT !.main.reconnecting = FALSE])

\* the 'error' and 'close' handlers of a socket that does not open, and the catch
\* block when the promise is rejected
MainConnectFails(s) ==
  LET rejected == ~main.connected
      after == IF rejected /\ sock[s].by = "timer" THEN AfterRejection ELSE AfterClose
  IN /\ sock[s].kind = "main" /\ sock[s].state = "connecting"
     /\ May("connect")
     /\ sock' = [sock EXCEPT ![s] = Ended(@)]
     /\ main' = after.main /\ timers' = after.timers
     /\ watch' = {}
     /\ IF rejected THEN Settles(s) ELSE UNCHANGED starting
     /\ UNCHANGED <<ex, running, up, made, subs, pool, psubs, route, lists, changes, starts>>

\* the timer of _attemptReconnect()
TimerFires ==
  /\ timers > 0 /\ timers' = timers - 1
  /\ IF running
     THEN Connect("timer") /\ UNCHANGED main
     ELSE main' = [main EXCEPT !.reconnecting = FALSE] /\ UNCHANGED <<sock, made>>
  /\ UNCHANGED <<ex, running, starting, up, subs, pool, psubs, route, lists, watch, bounds>>

-----------------------------------------------------------------------------
(* The pool *)

\* the 'open' handler of _createBinanceCombinedStreamConnection(), with what its
\* caller does next: the rest of a subscription, the next chunk of a list
PoolOpens(s) ==
  LET n == sock[s] IN
  /\ n.kind = "pool" /\ n.state = "connecting"
  /\ pool' = Append(pool, s)
  /\ psubs' = [psubs EXCEPT ![s] = n.keys]
  /\ route' = [k \in Keys |-> IF k \in n.keys THEN s ELSE route[k]]
  /\ main' = [main EXCEPT !.connected = TRUE, !.reconnecting = FALSE, !.attempt = 0]
  /\ watch' = watch \cup {s}
  /\ subs' = IF n.by = "call" THEN subs \cup n.keys ELSE subs
  /\ IF n.rest = {}
     THEN sock' = [sock EXCEPT ![s].state = "open"] /\ UNCHANGED made
     ELSE /\ RoomForPool(1) /\ made' = made + 1
          /\ sock' = [sock EXCEPT ![s].state = "open", ![s].rest = {},
                                  ![made + 1] = NewSocket("pool", "list", n.rest, {})]
  /\ UNCHANGED <<ex, running, starting, up, timers, lists, bounds>>

\* connections.delete(): the pool keeps its order
Without(s) ==
  IF s \in InPool THEN RemoveAt(pool, CHOOSE i \in DOMAIN pool : pool[i] = s) ELSE pool

\* the 'close' handler of a socket of the pool
PoolCloses(s, end) ==
  /\ sock' = [sock EXCEPT ![s] = [Ended(@) EXCEPT !.state = end]]
  /\ watch' = watch \ {s}
  /\ pool' = Without(s)
  /\ main' = [main EXCEPT !.connected = @ /\ pool' # <<>>]
  /\ IF s \in InPool
     THEN /\ psubs' = [psubs EXCEPT ![s] = {}]
          /\ route' = [k \in Keys |-> IF k \in psubs[s] THEN None ELSE route[k]]
          /\ lists' = IF running /\ psubs[s] # {}
                      THEN lists \cup {[keys |-> psubs[s], from |-> s]} ELSE lists
     ELSE UNCHANGED <<psubs, route, lists>>
  /\ UNCHANGED <<ex, running, starting, up, timers, made, subs, changes, starts>>

\* The 'error' and 'close' handlers of a socket that does not open.  Neither settles
\* the promise: whoever awaits it waits for ever.
PoolConnectFails(s) ==
  /\ sock[s].kind = "pool" /\ sock[s].state = "connecting"
  /\ May("poolConnect")
  /\ PoolCloses(s, "failed")

\* the timer of _attemptBinanceCombinedStreamReconnect(): keys in chunks
ListTimer(l) ==
  /\ l \in lists /\ lists' = lists \ {l}
  /\ IF running
     THEN /\ RoomForPool(1) /\ made' = made + 1
          /\ \E chunk \in SUBSET l.keys :
               /\ Cardinality(chunk) = IF Cardinality(l.keys) < MaxSubs
                                       THEN Cardinality(l.keys) ELSE MaxSubs
               /\ sock' = [sock EXCEPT ![made + 1] = NewSocket("pool", "list", chunk, l.keys \ chunk)]
     ELSE UNCHANGED <<sock, made>>
  /\ UNCHANGED <<ex, running, starting, up, main, timers, subs, pool, psubs, route, watch, bounds>>

-----------------------------------------------------------------------------
(* Losing and closing sockets *)

Closes(s) == IF sock[s].kind = "main" THEN MainCloses(s) ELSE PoolCloses(s, "closed")

\* the peer or the network closes it
Drops(s) == sock[s].state = "open" /\ May("drop") /\ Closes(s)

\* the end of a close the engine began
CloseArrives(s) == sock[s].state = "closing" /\ Closes(s) /\ UNCHANGED faults

\* nothing arrives any more, not even a pong
FallsSilent(s) ==
  /\ sock[s].state = "open" /\ ~sock[s].silent /\ May("silence")
  /\ sock' = [sock EXCEPT ![s].silent = TRUE]
  /\ UNCHANGED <<ex, running, starting, up, main, timers, made, subs, pool, psubs,
                 route, lists, watch, changes, starts>>

\* _checkDataTimeout() finds the last message too old
DataTimeout(w) ==
  LET late == IF w = 0 THEN main.entry ELSE w
      heard == IF w = 0 THEN {s \in Sockets : sock[s].kind = "main"} ELSE {w}
  IN /\ w \in watch /\ late # None
     /\ w # 0 => w \in InPool
     /\ sock[late].state = "open"
     /\ \A s \in heard : sock[s].state \in {"open", "closing"} => sock[s].silent
     /\ sock' = [sock EXCEPT ![late].state = "closing"]
     /\ UNCHANGED <<ex, running, starting, up, main, timers, made, subs, pool, psubs,
                    route, lists, watch, bounds>>

\* stop() with _disconnectAllExchanges(); subscriptions and timers stay
Stop ==
  /\ running /\ running' = FALSE /\ up' = FALSE
  /\ sock' = [s \in Sockets |->
                IF s \in InPool \cup {main.entry} /\ sock[s].state = "open"
                THEN [sock[s] EXCEPT !.state = "closing"] ELSE sock[s]]
  /\ pool' = <<>> /\ psubs' = [s \in Sockets |-> {}] /\ watch' = {}
  /\ main' = IF main.entry = None THEN main
             ELSE [main EXCEPT !.entry = None, !.connected = FALSE, !.reconnecting = FALSE]
  /\ UNCHANGED <<ex, starting, timers, made, subs, route, lists, bounds>>

Opens(s) == MainOpens(s) \/ PoolOpens(s)
ConnectFails(s) == MainConnectFails(s) \/ PoolConnectFails(s)

Next ==
  \/ Start \/ StartReturns \/ Stop \/ TimerFires
  \/ \E K \in SUBSET Keys \ {{}} : Subscribe(K)
  \/ \E k \in Keys : Unsubscribe(k)
  \/ \E s \in Sockets :
       Opens(s) \/ ConnectFails(s) \/ Drops(s) \/ CloseArrives(s) \/ FallsSilent(s)
  \/ \E l \in lists : ListTimer(l)
  \/ \E w \in watch : DataTimeout(w)

\* Timers fire and a close ends (after a timeout of the socket's at the latest); start()
\* waits for nothing but its connections.  A connection attempt need not end: the
\* sockets are made without a handshakeTimeout, and nothing else limits it.
Fairness ==
  /\ WF_vars(StartReturns) /\ WF_vars(TimerFires)
  /\ \A s \in Sockets : WF_vars(CloseArrives(s))
  /\ WF_vars(\E l \in lists : ListTimer(l))
  /\ WF_vars(\E w \in watch : DataTimeout(w))

Spec == Init /\ [][Next]_vars /\ Fairness

-----------------------------------------------------------------------------
(* Properties *)

TypeOK ==
  /\ ex \in Exchanges /\ running \in BOOLEAN /\ up \in BOOLEAN
  /\ starting \in {"no", "connecting", "settled"}
  /\ main \in [entry : Sockets \cup {None}, connected : BOOLEAN,
               reconnecting : BOOLEAN, attempt : 0..MaxAttempts]
  /\ timers \in Nat /\ made \in 0..MaxSockets
  /\ sock \in [Sockets -> Socket] /\ psubs \in [Sockets -> SUBSET Keys]
  /\ subs \subseteq Keys /\ pool \in Seq(Sockets)
  /\ route \in [Keys -> Sockets \cup {None}]
  /\ watch \subseteq Sockets \cup {0}
  /\ lists \subseteq [keys : SUBSET Keys, from : Sockets]
  /\ {faults, changes, starts} \subseteq Nat

Live(s) == sock[s].state \in {"connecting", "open", "closing"}
Served == main.entry # None /\ sock[main.entry].state = "open" /\ ~sock[main.entry].silent
GaveUp == ~main.reconnecting /\ main.attempt >= MaxAttempts

\* An exchange without combined streams never has two main sockets at a time,
\* although four places open one (start(), the close handler, the error handler by
\* way of the catch block, the timer): with two, every message is processed twice.
OneMain ==
  ~Combined => \A s, t \in Sockets :
    sock[s].kind = "main" /\ sock[t].kind = "main" /\ Live(s) /\ Live(t) => s = t

\* What the exchange sends over the open main socket is what is subscribed, after
\* every reconnection and change, and the handler processes it as what it was
\* subscribed for.
SubsOnWire ==
  ~Combined /\ main.entry # None /\ sock[main.entry].state = "open" =>
    /\ sock[main.entry].wire = Streams(subs)
    /\ \A k \in subs : k \in Serves(ex, Channel[k], Spot)

\* The route of a key leads to a connection of the pool that carries the key: it is
\* what unsubscribe() goes by.
RoutesAgree ==
  running => \A k \in Keys :
    route[k] # None => route[k] \in InPool /\ k \in psubs[route[k]]

\* A key that counts as subscribed is carried by a connection of the pool, or by one
\* that is being opened or waits to be, ...
Attended(k) ==
  \/ \E c \in InPool : k \in psubs[c]
  \/ \E l \in lists : k \in l.keys
  \/ \E s \in Sockets : /\ sock[s].kind = "pool" /\ sock[s].state = "connecting"
                         /\ k \in sock[s].keys \cup sock[s].rest

AllAttended == running /\ Combined => \A k \in subs : Attended(k)

\* ... through every loss and change, as long as no attempt to open a connection of
\* the pool fails; and routes lead to carriers.
PoolKeepsKeys ==
  /\ (\A s \in Sockets : sock[s].state # "failed") => AllAttended
  /\ RoutesAgree

\* every attempt to open a main socket succeeds or fails
AttemptsEnd ==
  \A s \in Sockets : []<>(sock[s].kind = "main" => sock[s].state # "connecting")

\* A main socket that is lost or falls silent while the engine runs is replaced in the
\* end, or the engine has used up its attempts: no loss, failed attempt, late event or
\* restart of the timers leaves it waiting, unless an attempt to connect never ends.
Recovers == AttemptsEnd => (up ~> Served \/ GaveUp \/ ~running)

(* Refuted (AllAttended too: a connection of the pool that does not open takes *)
(* its keys with it, for good)                                               *)

\* A handshake that is never answered leaves `reconnecting' set, and no timer is left
\* that would try again.
AlwaysRecovers == up ~> Served \/ GaveUp \/ ~running

\* "Start market data engine" (307): an exchange whose first attempt fails, or whose
\* socket is lost before start() returns, is never tried again.
StartedIsServed == AttemptsEnd => (running ~> Served \/ GaveUp \/ ~running)

\* "Stop market data engine" (360): a reconnection that was connecting goes on.
StoppedIsClosed == ~running /\ starting = "no" => \A s \in Sockets : sock[s].state # "open"

\* A type is carried by one connection: after the loss of both, the list of a
\* connection and _resubscribe() each bring its keys back.
CarriedOnce ==
  \A s, t \in InPool : psubs[s] \cap psubs[t] # {} => s = t

\* "Unsubscribe market data" (439): a key waiting in a list is subscribed again.
CarriedIsWanted ==
  \A c \in InPool : psubs[c] \subseteq
    subs \cup UNION {sock[s].keys : s \in {t \in Sockets : sock[t].state = "connecting"}}

\* "Start data timeout check ... for connection pool mode" (1785): the close of the
\* main socket ends the checks of the pool, whose sockets may then be silent for ever.
PoolIsWatched == \A c \in InPool : c \in watch
=============================================================================
