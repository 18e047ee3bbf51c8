-------------------------- MODULE SharedMarketData --------------------------
(***************************************************************************)
(* One process runs the market data engine for all strategy containers     *)
(* (src/services/MarketDataService.js); a container asks it for keys and   *)
(* receives their data over Redis (src/services/MarketDataSubscriber.js,   *)
(* used by src/main.js).  Redis keeps one thing, the heartbeat; requests   *)
(* and data are published to whoever is listening at that moment.          *)
(*                                                                         *)
(* A tick is heartbeatInterval.  Data are numbered per key, in the order   *)
(* the engine emits them.                                                  *)
(***************************************************************************)
EXTENDS Naturals, Sequences, FiniteSets

CONSTANTS Subscribers,  \* strategy containers
          Keys,         \* exchange, symbol and data type
          Symbols,      \* the keys the service subscribes to by itself
          Expiry,       \* life of the heartbeat in ticks
          CheckEvery,   \* ticks between the checks of a subscriber
          Plans         \* what may go wrong, and how much happens

Troubles ==
    {"crash",    \* the service dies
     "stop",     \* the service is told to stop
     "early",    \* requests go out while the service does not listen
     "refused",  \* the engine does not get a key
     "shared",   \* a key is given up while another container wants it
     "mute",     \* the service fails to write a heartbeat
     "fail",     \* a subscriber's command fails
     "slow",     \* a subscriber's check takes longer than a tick
     "drop"}     \* the service's publishing connection is lost

\* users: the containers that run; data and requests: bounds on the data of a
\* key and on requests under way; clock: does time pass?
AllPlans ==
    [trouble : SUBSET Troubles, users : SUBSET Subscribers,
     data : Nat, requests : Nat, clock : BOOLEAN]

ASSUME SharedMarketDataAssumption ==
    /\ Symbols \subseteq Keys
    /\ {Expiry, CheckEvery} \subseteq Nat \ {0}
    /\ Plans \subseteq AllPlans

VARIABLES service, \* the life of the service's process
          subs,    \* keys the engine is subscribed to
          opening, \* keys a request handler awaits the engine for
          asked,   \* requests on their way to the handler
          beat,    \* ticks the heartbeat has left in Redis
          steady,  \* ticks since the heartbeat's timer started or stopped
          made,    \* data of each key so far
          wire,    \* publish commands of redisPub without an answer
          sub,     \* the subscribers
          plan

engine == <<subs, opening, asked>>
clocks == <<beat, steady>>
feed == <<made, wire>>
vars == <<service, engine, clocks, feed, sub, plan>>

Command == [ch : {"own", "unified"}, key : Keys, n : Nat]
Request == [action : {"subscribe", "unsubscribe"}, key : Keys]
Subscriber ==
    [up : BOOLEAN,
     filter : SUBSET Keys,       \* subscriptions
     alive : BOOLEAN,            \* serviceAlive
     told : {"nothing", "online", "offline"},  \* what main.js heard last
     checks : Seq({"main", "wasAlive", "wasDead"}), \* under way
     next : 0..CheckEvery,       \* ticks to the next check
     last : [Keys -> Nat],       \* newest datum of each key
     back : BOOLEAN]             \* did it get one that was not newer?

LongestWait == Expiry + CheckEvery + 1

TypeOK ==
    /\ service \in {"down", "subscribing", "serving", "stopping"}
    /\ subs \subseteq Keys /\ opening \subseteq Keys
    /\ asked \in Seq(Request)
    /\ beat \in 0..Expiry /\ steady \in 0..LongestWait
    /\ made \in [Keys -> Nat]
    /\ wire \in Seq(Command)
    /\ sub \in [Subscribers -> Subscriber]
    /\ plan \in Plans

Away == [up |-> FALSE, filter |-> {}, alive |-> FALSE, told |-> "nothing",
         checks |-> <<>>, next |-> 0, last |-> [k \in Keys |-> 0],
         back |-> FALSE]

Init ==
    /\ service = "down"
    /\ subs = {} /\ opening = {} /\ asked = <<>>
    /\ beat = 0 /\ steady = 0
    /\ made = [k \in Keys |-> 0]
    /\ wire = <<>>
    /\ sub = [s \in Subscribers |-> Away]
    /\ plan \in Plans

May(trouble) == trouble \in plan.trouble

-----------------------------------------------------------------------------
(* The service *)

Beating == service \in {"subscribing", "serving"}
Listening == service \in {"serving", "stopping"}

\* start() up to the heartbeat, which it writes at once
Starts ==
    /\ service = "down"
    /\ service' = "subscribing"
    /\ beat' = Expiry /\ steady' = 0
    /\ UNCHANGED <<engine, feed, sub, plan>>

\* the rest of start(): the service's own symbols, then the listener
Listens ==
    /\ service = "subscribing"
    /\ service' = "serving"
    /\ \E K \in SUBSET Symbols :
          /\ May("refused") \/ K = Symbols
          /\ subs' = subs \cup K
    /\ UNCHANGED <<opening, asked, clocks, feed, sub, plan>>

\* stop() clears the timer, then waits for Redis and for the engine
Stops ==
    /\ May("stop") /\ service = "serving"
    /\ service' = "stopping"
    /\ steady' = 0
    /\ UNCHANGED <<engine, beat, feed, sub, plan>>

\* the end of stop(), or of the process
Ends ==
    /\ service = "stopping" \/ (May("crash") /\ Beating)
    /\ service' = "down"
    /\ subs' = {} /\ opening' = {} /\ asked' = <<>> /\ wire' = <<>>
    /\ steady' = IF Beating THEN 0 ELSE steady
    /\ UNCHANGED <<beat, made, sub, plan>>

\* mutant: one request at a time, the others are turned away
HandleUnlessBusy ==
    /\ asked # <<>>
    /\ LET request == Head(asked)
       IN IF request.action = "subscribe"
          THEN /\ opening' = IF opening = {} THEN {request.key} \ subs
                             ELSE opening
               /\ UNCHANGED subs
          ELSE /\ subs' = subs \ {request.key}
               /\ UNCHANGED opening
    /\ asked' = Tail(asked)
    /\ UNCHANGED <<service, clocks, feed, sub, plan>>

\* the handler of the request channel, up to the engine's first await
Handle ==
    /\ asked # <<>>
    /\ LET request == Head(asked)
       IN IF request.action = "subscribe"
          THEN /\ opening' = opening \cup ({request.key} \ subs)
               /\ UNCHANGED subs
          ELSE /\ subs' = subs \ {request.key}
               /\ UNCHANGED opening
    /\ asked' = Tail(asked)
    /\ UNCHANGED <<service, clocks, feed, sub, plan>>

\* the engine has a connection for the key, or gives up
Opened(k) ==
    /\ k \in opening
    /\ opening' = opening \ {k}
    /\ \/ subs' = subs \cup {k}
       \/ May("refused") /\ UNCHANGED subs
    /\ UNCHANGED <<service, asked, clocks, feed, sub, plan>>

-----------------------------------------------------------------------------
(* Data *)

\* mutant: with commands under way both go out together
EmitsBatch(k) ==
    LET c == [ch |-> "own", key |-> k, n |-> made[k] + 1]
    IN /\ k \in subs /\ made[k] < plan.data
       /\ made' = [made EXCEPT ![k] = @ + 1]
       /\ wire' = IF wire = <<>> THEN <<c>>
                  ELSE wire \o <<c, [c EXCEPT !.ch = "unified"]>>
       /\ UNCHANGED <<service, engine, clocks, sub, plan>>

\* _publishMarketData(): the key's own channel first
Emits(k) ==
    /\ k \in subs /\ made[k] < plan.data
    /\ made' = [made EXCEPT ![k] = @ + 1]
    /\ wire' = Append(wire, [ch |-> "own", key |-> k, n |-> made[k] + 1])
    /\ UNCHANGED <<service, engine, clocks, sub, plan>>

\* _handleMessage() of one subscriber
Received(r, c) ==
    IF ~r.up \/ c.ch = "own" \/ c.key \notin r.filter THEN r
    ELSE IF c.n > r.last[c.key] THEN [r EXCEPT !.last[c.key] = c.n]
    ELSE [r EXCEPT !.back = TRUE]

\* once the first command is answered the datum goes to market_data
QueueAfter(c, commands) ==
    IF c.ch = "own" THEN Append(commands, [c EXCEPT !.ch = "unified"])
    ELSE commands

\* Redis executes the oldest command and its answer arrives
Published ==
    /\ wire # <<>>
    /\ sub' = [s \in Subscribers |-> Received(sub[s], Head(wire))]
    /\ wire' = QueueAfter(Head(wire), Tail(wire))
    /\ UNCHANGED <<service, engine, clocks, made, plan>>

\* the connection is lost after Redis executed the oldest command and before
\* its answer came: ioredis sends every command without an answer again
Drops ==
    /\ May("drop") /\ wire # <<>>
    /\ sub' = [s \in Subscribers |-> Received(sub[s], Head(wire))]
    /\ UNCHANGED <<service, engine, clocks, feed, plan>>

-----------------------------------------------------------------------------
(* Subscribers *)

\* connect(), once in the life of a container, after which main.js asks for the
\* service's status at once
Connects(s) ==
    /\ s \in plan.users /\ ~sub[s].up
    /\ sub' = [sub EXCEPT ![s] =
                  [Away EXCEPT !.up = TRUE, !.checks = <<"main">>,
                               !.next = CheckEvery]]
    /\ UNCHANGED <<service, engine, clocks, feed, plan>>

\* disconnect(), or the end of the container: it gives up no key
Disconnects(s) ==
    /\ sub[s].up
    /\ sub' = [sub EXCEPT ![s] = Away]
    /\ UNCHANGED <<service, engine, clocks, feed, plan>>

\* _sendSubscribeRequest(): nobody keeps what nobody hears
Sends(action, k) ==
    /\ Len(asked) < plan.requests
    /\ Listening \/ May("early")
    /\ asked' \in (IF Listening
                   THEN {Append(asked, [action |-> action, key |-> k])}
                   ELSE {asked})
                  \cup (IF May("fail") THEN {asked} ELSE {})
    /\ UNCHANGED <<service, subs, opening, clocks, feed, plan>>

Subscribe(s, k) ==
    /\ sub[s].up
    /\ sub' = [sub EXCEPT ![s].filter = @ \cup {k}]
    /\ Sends("subscribe", k)

WantedElsewhere(s, k) ==
    \E t \in Subscribers \ {s} : k \in sub[t].filter

Unsubscribe(s, k) ==
    /\ sub[s].up
    /\ WantedElsewhere(s, k) => May("shared")
    /\ sub' = [sub EXCEPT ![s].filter = @ \ {k}]
    /\ Sends("unsubscribe", k)

\* the interval of _startHeartbeatCheck()
ChecksStatus(s) ==
    /\ sub[s].up /\ sub[s].next = 0
    /\ sub' = [sub EXCEPT
                  ![s].checks = Append(@, IF sub[s].alive THEN "wasAlive"
                                          ELSE "wasDead"),
                  ![s].next = CheckEvery]
    /\ UNCHANGED <<service, engine, clocks, feed, plan>>

\* serviceOffline, serviceOnline, or what main.js notes of its own check
Tells(r, isAlive) ==
    LET check == Head(r.checks)
    IN IF isAlive
       THEN IF check = "wasAlive" THEN r.told ELSE "online"
       ELSE IF check = "wasDead" THEN r.told ELSE "offline"

\* mutant: a missing heartbeat leaves serviceAlive as it was
StatusKnownStale(s) ==
    /\ sub[s].checks # <<>>
    /\ sub' = [sub EXCEPT
                  ![s].checks = Tail(@),
                  ![s].alive = @ \/ beat > 0,
                  ![s].told = Tells(sub[s], beat > 0)]
    /\ UNCHANGED <<service, engine, clocks, feed, plan>>

\* checkServiceStatus() comes back
StatusKnown(s) ==
    /\ sub[s].checks # <<>>
    /\ sub' = [sub EXCEPT
                  ![s].checks = Tail(@),
                  ![s].alive = (beat > 0),
                  ![s].told = Tells(sub[s], beat > 0)]
    /\ UNCHANGED <<service, engine, clocks, feed, plan>>

\* its catch block answers false and leaves serviceAlive as it was
StatusUnknown(s) ==
    /\ May("fail") /\ sub[s].checks # <<>>
    /\ sub' = [sub EXCEPT
                  ![s].checks = Tail(@),
                  ![s].told = Tells(sub[s], FALSE)]
    /\ UNCHANGED <<service, engine, clocks, feed, plan>>

-----------------------------------------------------------------------------
\* the timers that are due run before time passes, and their commands are
\* answered unless Redis is slow
Due(r) ==
    \/ r.up /\ r.next = 0
    \/ r.checks # <<>> /\ (~May("slow") \/ Len(r.checks) > 1)

Decreased(n) == IF n = 0 THEN 0 ELSE n - 1

Tick ==
    /\ plan.clock
    /\ \A s \in Subscribers : ~Due(sub[s])
    /\ sub' = [s \in Subscribers |->
                  [sub[s] EXCEPT !.next = Decreased(@)]]
    /\ steady' = IF steady < LongestWait THEN steady + 1 ELSE steady
    /\ \/ Beating /\ beat' = Expiry
       \/ ~Beating /\ beat' = Decreased(beat)
       \/ May("mute") /\ beat' = Decreased(beat)
    /\ UNCHANGED <<service, engine, feed, plan>>

Next ==
    \/ Starts \/ Listens \/ Stops \/ Ends \/ Handle
    \/ Published \/ Drops \/ Tick
    \/ \E k \in Keys : Opened(k) \/ Emits(k)
    \/ \E s \in Subscribers :
          \/ Connects(s) \/ Disconnects(s) \/ ChecksStatus(s)
          \/ StatusKnown(s) \/ StatusUnknown(s)
          \/ \E k \in Keys : Subscribe(s, k) \/ Unsubscribe(s, k)

\* the event loop runs what is ready, and Redis and the exchanges answer
Fairness == WF_vars(Handle) /\ \A k \in Keys : WF_vars(Opened(k))

Spec == Init /\ [][Next]_vars /\ Fairness

-----------------------------------------------------------------------------
(* Properties *)

\* However heartbeat, expiry, start, stop and check follow each other, a
\* subscriber's last word on the service is right in bounded time: offline
\* once the heartbeat has been still for longer than its life and one check,
\* even when checks fail; and, unless one failed, online a check after it
\* set in.
LastWordRight ==
    ~May("slow") =>
        \A s \in Subscribers : sub[s].told # "nothing" =>
            /\ ~Beating /\ steady > Expiry + CheckEvery
                  => sub[s].told = "offline"
            /\ Beating /\ steady > CheckEvery /\ ~May("fail") /\ ~May("mute")
                  => sub[s].told = "online"

\* A subscriber gets the data of a key in the order the engine emitted them
\* and none twice, through two awaited publish commands for each datum that
\* nobody waits for, and across restarts of service and subscribers; unless
\* the publishing connection drops.
InOrder == ~May("drop") => \A s \in Subscribers : ~sub[s].back

\* A key that a container wants is subscribed to in the end, whatever the
\* handlers of earlier requests for it are still waiting for; unless the
\* request or the engine was lost, or another container gave the key up.
AskedIsServed ==
    \A s \in Subscribers, k \in Keys :
        (/\ plan.trouble \cap {"crash", "stop", "early", "refused", "shared",
                               "fail"} = {}
         /\ k \in sub[s].filter)
        ~> (k \in subs \/ k \notin sub[s].filter)

(***************************************************************************)
(* What does not hold, see the README.                                     *)
(***************************************************************************)

\* A container that waits for the health check of the service, which asks for
\* the heartbeat, finds somebody who hears its requests.
HealthyListens == beat > 0 => Listening

\* With no request under way, a running service serves what is wanted.
WantedIsServed ==
    service = "serving" /\ asked = <<>> /\ opening = {} =>
        \A s \in Subscribers : sub[s].filter \subseteq subs

\* A subscriber that has found a running service alive again has told so.
OnlineAgain ==
    \A s \in Subscribers :
        Beating /\ steady > Expiry + CheckEvery /\ sub[s].alive
            => sub[s].told # "offline"

\* No datum comes twice or late, whatever the connection does.
ComesOnce == \A s \in Subscribers : ~sub[s].back
=============================================================================
