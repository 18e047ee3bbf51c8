----------------------- MODULE MarketDataEngine_proofs -----------------------
(***************************************************************************)
(* SubsOnWire for any number of starts, OneMain and PoolKeepsKeys for an   *)
(* engine that is started once; any exchanges, keys, sockets, failures and *)
(* changes.                                                                *)
(***************************************************************************)
EXTENDS MarketDataEngine, FiniteSetTheorems, SequenceTheorems, TLAPS

Channels == {ChannelTable(e, Spot)[k] : e \in Exchanges, k \in Keys}
Kinds == {"main", "pool"}
Makers == {"start", "timer", "call", "list"}
States == {"none", "connecting", "open", "closing", "closed", "failed"}
Main == [entry : Sockets \cup {None}, connected : BOOLEAN,
         reconnecting : BOOLEAN, attempt : 0..MaxAttempts]

\* A socket that has not been made is as new; the pool holds each of its sockets
\* once, and none that is still to open; without combined streams there is none.
Sound ==
  /\ \A s \in Sockets : s > made => sock[s] = Unmade
  /\ \A c \in InPool : sock[c].kind = "pool" /\ sock[c].state \in {"open", "closing"}
  /\ \A i, j \in DOMAIN pool : pool[i] = pool[j] => i = j
  /\ ~Combined => pool = <<>> /\ lists = {} /\ \A s \in Sockets : sock[s].kind = "main"
  /\ \A s \in Sockets : sock[s].kind = "main" /\ sock[s].state = "connecting"
       => sock[s].wire = {}

\* no two of the types that are subscribed share a channel of an exchange (the types
\* a builder throws on share "none")
Unshared ==
  \A e \in Exchanges : \A k, l \in Keys :
    ChannelTable(e, Spot)[k] = ChannelTable(e, Spot)[l]
      => k = l \/ ChannelTable(e, Spot)[k] = "none"

\* the first half of SubsOnWire
WireAgrees ==
  ~Combined /\ main.entry # None /\ sock[main.entry].state = "open"
    => sock[main.entry].wire = Streams(subs)

-----------------------------------------------------------------------------
(* Sockets *)

LEMMA SocketRecord ==
  Socket = [kind : Kinds, by : Makers, state : States, silent : BOOLEAN,
            wire : SUBSET Channels, keys : SUBSET Keys, rest : SUBSET Keys]
BY DEF Socket, Kinds, Makers, States, Channels

LEMMA StreamsTyped ==
  ASSUME ex \in Exchanges, NEW K \in SUBSET Keys
  PROVE  Streams(K) \subseteq Channels
BY DEF Streams, Channel, Channels

LEMMA StreamsUnion ==
  ASSUME NEW K, NEW L
  PROVE  Streams(K \cup L) = Streams(K) \cup Streams(L) /\ Streams({}) = {}
BY DEF Streams

LEMMA NewSocketTyped ==
  ASSUME ex \in Exchanges, NEW kind \in Kinds, NEW by \in Makers,
         NEW keys \in SUBSET Keys, NEW rest \in SUBSET Keys
  PROVE  LET n == NewSocket(kind, by, keys, rest)
         IN  /\ n \in Socket /\ n.kind = kind /\ n.by = by /\ n.state = "connecting"
             /\ n.keys = keys /\ n.rest = rest /\ (kind = "main" => n.wire = {})
<1>1. (IF kind = "pool" THEN Streams(keys) ELSE {}) \in SUBSET Channels
  BY StreamsTyped
<1> QED  BY <1>1 DEF NewSocket, Socket, Kinds, Makers, Channels

\* what the handlers change of a socket that goes on
LEMMA SocketChanges ==
  ASSUME NEW x \in Socket
  PROVE  /\ \A st \in States : LET n == [x EXCEPT !.state = st] IN
              /\ n \in Socket /\ n.kind = x.kind /\ n.by = x.by /\ n.state = st
              /\ n.wire = x.wire /\ n.keys = x.keys /\ n.rest = x.rest
         /\ \A w \in SUBSET Channels : LET n == [x EXCEPT !.wire = w] IN
              /\ n \in Socket /\ n.kind = x.kind /\ n.by = x.by /\ n.state = x.state
              /\ n.wire = w /\ n.keys = x.keys /\ n.rest = x.rest
<1>1. \A st \in States : LET n == [x EXCEPT !.state = st] IN
        /\ n \in Socket /\ n.kind = x.kind /\ n.by = x.by /\ n.state = st
        /\ n.wire = x.wire /\ n.keys = x.keys /\ n.rest = x.rest
  BY DEF Socket, States
<1>2. \A w \in SUBSET Channels : LET n == [x EXCEPT !.wire = w] IN
        /\ n \in Socket /\ n.kind = x.kind /\ n.by = x.by /\ n.state = x.state
        /\ n.wire = w /\ n.keys = x.keys /\ n.rest = x.rest
  BY DEF Socket, Channels
<1> QED  BY <1>1, <1>2

LEMMA Opened ==
  ASSUME NEW x \in Socket
  PROVE  LET n == [x EXCEPT !.state = "open", !.rest = {}] IN
           /\ n \in Socket /\ n.kind = x.kind /\ n.by = x.by /\ n.state = "open"
           /\ n.wire = x.wire /\ n.keys = x.keys
<1> DEFINE n == [x EXCEPT !.state = "open", !.rest = {}]
<1>1. n \in Socket
  BY SocketRecord DEF States
<1>2. n.kind = x.kind /\ n.by = x.by /\ n.state = "open"
  BY DEF Socket
<1>3. n.wire = x.wire /\ n.keys = x.keys
  BY DEF Socket
<1> QED  BY <1>1, <1>2, <1>3

LEMMA Silenced ==
  ASSUME NEW x \in Socket
  PROVE  LET n == [x EXCEPT !.silent = TRUE] IN
           /\ n \in Socket /\ n.kind = x.kind /\ n.by = x.by /\ n.state = x.state
           /\ n.wire = x.wire /\ n.keys = x.keys /\ n.rest = x.rest
<1> DEFINE n == [x EXCEPT !.silent = TRUE]
<1>1. n \in Socket
  BY SocketRecord DEF States
<1>2. n.kind = x.kind /\ n.by = x.by /\ n.state = x.state
  BY DEF Socket
<1>3. n.wire = x.wire /\ n.keys = x.keys /\ n.rest = x.rest
  BY DEF Socket
<1> QED  BY <1>1, <1>2, <1>3

LEMMA EndedTyped ==
  ASSUME ex \in Exchanges, NEW x \in Socket, NEW end \in {"closed", "failed"}
  PROVE  LET n == [Ended(x) EXCEPT !.state = end]
         IN  /\ n \in Socket /\ n.kind = x.kind /\ n.by = x.by /\ n.state = end
             /\ Ended(x) \in Socket /\ Ended(x).kind = x.kind /\ Ended(x).by = x.by
             /\ Ended(x).state = "closed"
<1>1. x.kind \in Kinds /\ x.by \in Makers
  BY DEF Socket, Kinds, Makers
<1>2. {} \in SUBSET Keys
  OBVIOUS
<1> DEFINE m == NewSocket(x.kind, x.by, {}, {})
<1>3. m \in Socket /\ m.kind = x.kind /\ m.by = x.by
  <2>1. \A k \in Kinds, b \in Makers :
          LET n == NewSocket(k, b, {}, {})
          IN  n \in Socket /\ n.kind = k /\ n.by = b
    BY <1>2, NewSocketTyped
  <2> QED  BY <1>1, <2>1
<1>4. Ended(x) = [m EXCEPT !.state = "closed"]
  BY DEF Ended
<1> HIDE DEF m
<1>5. ASSUME NEW y \in Socket, NEW st \in {"closed", "failed"}
      PROVE  LET n == [y EXCEPT !.state = st]
             IN  n \in Socket /\ n.kind = y.kind /\ n.by = y.by /\ n.state = st
  <2>1. st \in States
    BY DEF States
  <2> DEFINE n == [y EXCEPT !.state = st]
  <2>2. n \in Socket /\ n.kind = y.kind /\ n.by = y.by /\ n.state = st
    BY <2>1, SocketChanges
  <2> QED  BY <2>2
<1>6. /\ Ended(x) \in Socket /\ Ended(x).kind = x.kind /\ Ended(x).by = x.by
      /\ Ended(x).state = "closed"
  BY <1>3, <1>4, <1>5
<1> QED  BY <1>5, <1>6

LEMMA UnmadeTyped ==
  ASSUME ex \in Exchanges
  PROVE  /\ Unmade \in Socket /\ Unmade.kind = "main" /\ Unmade.state = "none"
         /\ Unmade.by = "start" /\ Unmade.keys = {} /\ Unmade.rest = {}
<1> DEFINE m == NewSocket("main", "start", {}, {})
<1>1. m \in Socket /\ m.kind = "main" /\ m.by = "start" /\ m.keys = {} /\ m.rest = {}
  <2>1. "main" \in Kinds /\ "start" \in Makers
    BY DEF Kinds, Makers
  <2>2. {} \in SUBSET Keys
    OBVIOUS
  <2> HIDE DEF m
  <2>3. LET n == NewSocket("main", "start", {}, {}) IN
        /\ n \in Socket /\ n.kind = "main" /\ n.by = "start" /\ n.keys = {} /\ n.rest = {}
    BY <2>1, <2>2, NewSocketTyped
  <2> QED  BY <2>3 DEF m
<1>2. Unmade = [m EXCEPT !.state = "none"]
  BY DEF Unmade
<1> HIDE DEF m
<1>3. "none" \in States
  BY DEF States
<1>4. LET n == [m EXCEPT !.state = "none"] IN
      /\ n \in Socket /\ n.kind = m.kind /\ n.by = m.by /\ n.state = "none"
      /\ n.keys = m.keys /\ n.rest = m.rest
  BY <1>1, <1>3, SocketChanges
<1> QED  BY <1>1, <1>2, <1>4

LEMMA Fields ==
  ASSUME NEW x \in Socket
  PROVE  /\ x.kind \in Kinds /\ x.by \in Makers /\ x.state \in States
         /\ x.wire \subseteq Channels /\ x.keys \subseteq Keys /\ x.rest \subseteq Keys
BY DEF Socket, Kinds, Makers, States, Channels

\* the pool as a set
LEMMA PoolTyped ==
  ASSUME TypeOK
  PROVE  /\ pool \in Seq(Sockets) /\ InPool \subseteq Sockets
         /\ Len(pool) \in Nat /\ DOMAIN pool = 1..Len(pool)
         /\ pool = <<>> => InPool = {}
BY DEF TypeOK, InPool

LEMMA PoolAppends ==
  ASSUME TypeOK, Sound, NEW s \in Sockets, s \notin InPool, pool' = Append(pool, s)
  PROVE  /\ pool' \in Seq(Sockets) /\ InPool' = InPool \cup {s}
         /\ \A i, j \in DOMAIN pool' : pool'[i] = pool'[j] => i = j
<1>1. /\ pool \in Seq(Sockets) /\ Len(pool) \in Nat /\ DOMAIN pool = 1..Len(pool)
      /\ InPool = {pool[i] : i \in DOMAIN pool}
      /\ \A i, j \in DOMAIN pool : pool[i] = pool[j] => i = j
  BY PoolTyped DEF Sound, InPool
<1>2. /\ pool' \in Seq(Sockets) /\ DOMAIN pool' = 1..(Len(pool) + 1)
      /\ \A i \in 1..Len(pool) : pool'[i] = pool[i]
      /\ pool'[Len(pool) + 1] = s
      /\ InPool' = {pool'[i] : i \in DOMAIN pool'}
  BY <1>1, AppendProperties DEF InPool
<1>3. \A i \in 1..(Len(pool) + 1) : i \in 1..Len(pool) \/ i = Len(pool) + 1
  BY <1>1
<1>4. \A i \in 1..Len(pool) : i \in 1..(Len(pool) + 1)
  BY <1>1
<1>5. Len(pool) + 1 \in 1..(Len(pool) + 1)
  BY <1>1
<1>6. InPool' = InPool \cup {s}
  <2>1. InPool' \subseteq InPool \cup {s}
    BY <1>1, <1>2, <1>3
  <2>2. InPool \cup {s} \subseteq InPool'
    BY <1>1, <1>2, <1>4, <1>5
  <2> QED  BY <2>1, <2>2
<1>7. ASSUME NEW i \in DOMAIN pool', NEW j \in DOMAIN pool', pool'[i] = pool'[j]
      PROVE  i = j
  <2>1. \A l \in 1..Len(pool) : pool[l] # s
    BY <1>1
  <2> QED  BY <1>1, <1>2, <1>3, <1>7, <2>1
<1> QED  BY <1>2, <1>6, <1>7

LEMMA PoolRemoves ==
  ASSUME TypeOK, Sound, NEW s \in Sockets, pool' = Without(s)
  PROVE  /\ pool' \in Seq(Sockets) /\ InPool' = InPool \ {s}
         /\ \A i, j \in DOMAIN pool' : pool'[i] = pool'[j] => i = j
<1>1. /\ pool \in Seq(Sockets) /\ Len(pool) \in Nat /\ DOMAIN pool = 1..Len(pool)
      /\ InPool = {pool[i] : i \in DOMAIN pool}
      /\ \A i, j \in DOMAIN pool : pool[i] = pool[j] => i = j
  BY PoolTyped DEF Sound, InPool
<1>2. CASE s \notin InPool
  BY <1>1, <1>2 DEF Without, InPool
<1>3. CASE s \in InPool
  <2> DEFINE n == CHOOSE i \in DOMAIN pool : pool[i] = s
             l == Len(pool)
  <2>1. n \in 1..l /\ pool[n] = s
    BY <1>1, <1>3
  <2>2. pool' = SubSeq(pool, 1, n - 1) \o SubSeq(pool, n + 1, l)
    BY <1>3 DEF Without, RemoveAt
  <2>3. l \in Nat /\ n \in Nat /\ 1 <= n /\ n <= l
    BY <1>1, <2>1
  <2> HIDE DEF n, l
  <2>4. /\ SubSeq(pool, 1, n - 1) \in Seq(Sockets)
        /\ Len(SubSeq(pool, 1, n - 1)) = n - 1
        /\ \A i \in 1..(n - 1) : SubSeq(pool, 1, n - 1)[i] = pool[i]
    <3>1. \A i \in 1..(n - 1) : pool[i] \in Sockets
      BY <1>1, <2>3 DEF l
    <3>2. \A i \in 1..(n - 1) : 1 + i - 1 = i
      BY <2>3
    <3>3. (IF 1 <= n - 1 THEN n - 1 - 1 + 1 ELSE 0) = n - 1 /\ n - 1 - 1 + 1 = n - 1
      BY <2>3
    <3>4. n - 1 \in Int
      BY <2>3
    <3> QED  BY <3>1, <3>2, <3>3, <3>4, SubSeqProperties
  <2>5. /\ SubSeq(pool, n + 1, l) \in Seq(Sockets)
        /\ Len(SubSeq(pool, n + 1, l)) = l - n
        /\ \A i \in 1..(l - n) : SubSeq(pool, n + 1, l)[i] = pool[n + i]
    <3>1. \A i \in (n + 1)..l : pool[i] \in Sockets
      BY <1>1, <2>3 DEF l
    <3>2. \A i \in 1..(l - n) : n + 1 + i - 1 = n + i
      BY <2>3
    <3>3. (IF n + 1 <= l THEN l - (n + 1) + 1 ELSE 0) = l - n /\ l - (n + 1) + 1 = l - n
      BY <2>3
    <3>4. n + 1 \in Int /\ l \in Int
      BY <2>3
    <3> QED  BY <3>1, <3>2, <3>3, <3>4, SubSeqProperties
  <2>6. /\ pool' \in Seq(Sockets) /\ DOMAIN pool' = 1..(l - 1)
        /\ \A i \in 1..(l - 1) : pool'[i] = IF i < n THEN pool[i] ELSE pool[i + 1]
    <3> DEFINE a == SubSeq(pool, 1, n - 1)
               b == SubSeq(pool, n + 1, l)
    <3>1. /\ a \in Seq(Sockets) /\ b \in Seq(Sockets) /\ pool' = a \o b
          /\ Len(a) = n - 1 /\ Len(b) = l - n
          /\ \A i \in 1..(n - 1) : a[i] = pool[i]
          /\ \A i \in 1..(l - n) : b[i] = pool[n + i]
      BY <2>2, <2>4, <2>5
    <3> HIDE DEF a, b
    <3>2. /\ pool' \in Seq(Sockets) /\ Len(pool') = l - 1
          /\ \A i \in 1..(l - 1) : pool'[i] = IF i <= n - 1 THEN a[i] ELSE b[i - (n - 1)]
      <4>1. (n - 1) + (l - n) = l - 1
        BY <2>3
      <4>2. /\ a \o b \in Seq(Sockets) /\ Len(a \o b) = Len(a) + Len(b)
            /\ \A i \in 1..(Len(a) + Len(b)) :
                 (a \o b)[i] = IF i <= Len(a) THEN a[i] ELSE b[i - Len(a)]
        BY <3>1, ConcatProperties
      <4> QED  BY <3>1, <4>1, <4>2
    <3>3. ASSUME NEW i \in 1..(l - 1)
          PROVE  pool'[i] = IF i < n THEN pool[i] ELSE pool[i + 1]
      <4>1. CASE i < n
        <5>1. i \in 1..(n - 1) /\ i <= n - 1
          BY <2>3, <4>1
        <5> QED  BY <3>1, <3>2, <4>1, <5>1
      <4>2. CASE ~(i < n)
        <5>1. i - (n - 1) \in 1..(l - n) /\ ~(i <= n - 1) /\ n + (i - (n - 1)) = i + 1
          BY <2>3, <4>2
        <5> QED  BY <3>1, <3>2, <4>2, <5>1
      <4> QED  BY <4>1, <4>2
    <3>4. DOMAIN pool' = 1..(l - 1)
      BY <3>2
    <3> QED  BY <3>2, <3>3, <3>4
  <2>7. \A i \in 1..(l - 1) : i \in 1..l /\ i + 1 \in 1..l
    BY <2>3
  <2>8. DOMAIN pool = 1..l
    BY <1>1 DEF l
  <2>9. InPool' \subseteq InPool \ {s}
    <3>1. ASSUME NEW i \in 1..(l - 1) PROVE pool'[i] \in InPool /\ pool'[i] # s
      <4>1. CASE i < n
        <5>1. i # n  BY <2>3, <4>1
        <5> QED  BY <1>1, <2>1, <2>6, <2>7, <2>8, <4>1, <5>1
      <4>2. CASE ~(i < n)
        <5>1. i + 1 # n  BY <2>3, <4>2
        <5> QED  BY <1>1, <2>1, <2>6, <2>7, <2>8, <4>2, <5>1
      <4> QED  BY <4>1, <4>2
    <3> QED  BY <2>6, <3>1 DEF InPool
  <2>10. InPool \ {s} \subseteq InPool'
    <3> SUFFICES ASSUME NEW j \in 1..l, pool[j] # s PROVE \E i \in 1..(l - 1) : pool'[i] = pool[j]
      BY <2>6, <2>8 DEF InPool
    <3>1. j # n  BY <2>1
    <3>2. CASE j < n
      <4>1. j \in 1..(l - 1)  BY <2>3, <3>2
      <4> QED  BY <2>6, <3>2, <4>1
    <3>3. CASE ~(j < n)
      <4>1. j - 1 \in 1..(l - 1) /\ ~(j - 1 < n) /\ (j - 1) + 1 = j
        BY <2>3, <3>1, <3>3
      <4> QED  BY <2>6, <4>1
    <3> QED  BY <3>2, <3>3
  <2>11. ASSUME NEW i \in DOMAIN pool', NEW j \in DOMAIN pool', pool'[i] = pool'[j]
         PROVE  i = j
    <3> DEFINE at(x) == IF x < n THEN x ELSE x + 1
    <3>1. i \in 1..(l - 1) /\ j \in 1..(l - 1)
      BY <2>6
    <3>2. pool'[i] = pool[at(i)] /\ pool'[j] = pool[at(j)]
          /\ at(i) \in 1..l /\ at(j) \in 1..l
      BY <2>6, <2>7, <3>1
    <3>3. at(i) = at(j)
      BY <1>1, <2>8, <2>11, <3>2
    <3> QED  BY <2>3, <3>1, <3>3
  <2> QED  BY <2>6, <2>9, <2>10, <2>11
<1> QED  BY <1>2, <1>3

-----------------------------------------------------------------------------
(* What a step does to the sockets *)

LEMMA SameExchange ==
  ASSUME ex' = ex
  PROVE  /\ Unmade' = Unmade /\ Combined' = Combined
         /\ \A K : Streams(K)' = Streams(K)
BY DEF Unmade, NewSocket, Streams, Channel, Combined

LEMMA MadeFirst ==
  ASSUME TypeOK, Sound, NEW s \in Sockets, sock[s].state # "none"
  PROVE  s <= made
<1>1. s \in Nat /\ made \in Nat
  BY MarketDataEngineAssumption DEF TypeOK, Sockets
<1>2. Unmade.state = "none"
  BY UnmadeTyped DEF TypeOK
<1> QED  BY <1>1, <1>2 DEF Sound

\* the numbers and the socket a handler of a made socket works with
LEMMA Numbered ==
  ASSUME TypeOK, Sound, NEW s \in Sockets, sock[s].state # "none"
  PROVE  /\ s \in Nat /\ made \in Nat /\ MaxSockets \in Nat
         /\ s <= made /\ made <= MaxSockets /\ sock[s] \in Socket
<1>1. s <= made
  BY MadeFirst
<1>2. s \in Nat /\ MaxSockets \in Nat
  BY MarketDataEngineAssumption DEF Sockets
<1>3. made \in 0..MaxSockets
  BY DEF TypeOK
<1>4. made \in Nat /\ made <= MaxSockets
  BY <1>2, <1>3
<1>5. sock[s] \in Socket
  BY DEF TypeOK
<1> QED  BY <1>1, <1>2, <1>4, <1>5

LEMMA SoundStep ==
  ASSUME TypeOK, Sound, ex' = ex, made' \in made..MaxSockets,
         \A i, j \in DOMAIN pool' : pool'[i] = pool'[j] => i = j,
         \A c \in InPool' : sock'[c].kind = "pool" /\ sock'[c].state \in {"open", "closing"},
         ~Combined => pool' = <<>> /\ lists' = {},
         \A s \in Sockets : s \in (made + 1)..made' =>
           \/ sock'[s].kind = "main" /\ sock'[s].wire = {}
           \/ sock'[s].kind = "pool" /\ Combined,
         \A s \in Sockets : s \notin (made + 1)..made' =>
           \/ sock'[s] = sock[s]
           \/ s <= made /\ sock'[s].kind = sock[s].kind /\ sock'[s].state # "connecting"
  PROVE  Sound'
<1>1. made \in Nat /\ made' \in Nat /\ made <= made' /\ \A s \in Sockets : s \in Nat
  BY MarketDataEngineAssumption DEF TypeOK, Sockets
<1>2. \A s \in Sockets : s > made' => sock'[s] = Unmade'
  <2> SUFFICES ASSUME NEW s \in Sockets, s > made' PROVE sock'[s] = Unmade'
    OBVIOUS
  <2>1. s > made /\ s \notin (made + 1)..made' /\ ~(s <= made)
    BY <1>1
  <2>2. sock'[s] = sock[s] /\ sock[s] = Unmade
    BY <2>1 DEF Sound
  <2> QED  BY <2>2, SameExchange
<1>3. ~Combined => \A s \in Sockets : sock'[s].kind = "main"
  BY DEF Sound
<1>4. ASSUME NEW s \in Sockets, sock'[s].kind = "main", sock'[s].state = "connecting"
      PROVE  sock'[s].wire = {}
  <2>1. CASE s \in (made + 1)..made'
    BY <1>4, <2>1
  <2>2. CASE s \notin (made + 1)..made'
    <3>1. sock'[s] = sock[s]
      BY <1>4, <2>2
    <3> QED  BY <1>4, <3>1 DEF Sound
  <2> QED  BY <2>1, <2>2
<1> QED  BY <1>2, <1>3, <1>4, SameExchange DEF Sound

LEMMA WireKept ==
  ASSUME WireAgrees, ex' = ex,
         ~Combined => \/ main'.entry = None
                      \/ /\ main'.entry = main.entry /\ subs' = subs
                         /\ sock'[main.entry].wire = sock[main.entry].wire
                         /\ sock'[main.entry].state = "open"
                              => sock[main.entry].state = "open"
  PROVE  WireAgrees'
<1>1. Combined' = Combined /\ Streams(subs)' = Streams(subs')
  BY SameExchange DEF Streams, Channel
<1>2. subs' = subs => Streams(subs)' = Streams(subs)
  BY DEF Streams, Channel
<1> QED  BY <1>1, <1>2 DEF WireAgrees

\* the ways a subscription is served
Nowhere(N, S, sk, e) ==
  /\ subs' = S /\ sock' = sk /\ UNCHANGED <<made, psubs, route>>
  /\ N = {} \/ Combined \/ e = None \/ sk[e].state # "open"

OverMain(N, S, sk, e) ==
  /\ ~Combined /\ e # None /\ sk[e].state = "open"
  /\ subs' = S \cup N /\ UNCHANGED <<made, psubs, route>>
  /\ sock' = [sk EXCEPT ![e].wire = @ \cup Streams(N)]

OverPool(c, N, S, sk) ==
  /\ Combined /\ c \in InPool /\ sk[c].state = "open"
  /\ subs' = S \cup N /\ made' = made
  /\ psubs' = [psubs EXCEPT ![c] = @ \cup N]
  /\ route' = [k \in Keys |-> IF k \in N THEN c ELSE route[k]]
  /\ sock' = [sk EXCEPT ![c].wire = @ \cup Streams(N)]

OverNew(S, sk) ==
  /\ Combined /\ subs' = S /\ UNCHANGED <<psubs, route>>
  /\ made' \in made..MaxSockets
  /\ sock' \in [Sockets -> Socket]
  /\ \A s \in Sockets : s \notin (made + 1)..made' => sock'[s] = sk[s]
  /\ \A s \in Sockets : s \in (made + 1)..made' =>
       sock'[s].kind = "pool" /\ sock'[s].state = "connecting"

LEMMA KeysFinite ==
  ASSUME NEW K \in SUBSET Keys
  PROVE  IsFiniteSet(K) /\ Cardinality(K) \in Nat
         /\ \E q \in [1..Cardinality(K) -> K] : \A k \in K : \E i \in DOMAIN q : q[i] = k
<1>1. IsFiniteSet(DataTypes)
  <2>1. DataTypes = (((({} \cup {"ticker"}) \cup {"depth"}) \cup {"trade"})
                      \cup {"fundingRate"}) \cup {"kline"}
    BY DEF DataTypes
  <2>2. IsFiniteSet({}) /\ \A S, x : IsFiniteSet(S) => IsFiniteSet(S \cup {x})
    BY FS_EmptySet, FS_AddElement
  <2> QED  BY <2>1, <2>2
<1>2. IsFiniteSet(K)
  BY <1>1, FS_Subset, MarketDataEngineAssumption
<1>3. Cardinality(K) \in Nat /\ ExistsBijection(1..Cardinality(K), K)
  BY <1>2, FS_CardinalityType
<1>4. \E q \in [1..Cardinality(K) -> K] : \A k \in K : \E i \in DOMAIN q : q[i] = k
  <2>1. PICK q \in Bijection(1..Cardinality(K), K) : TRUE
    BY <1>3 DEF ExistsBijection
  <2>2. q \in [1..Cardinality(K) -> K] /\ \A k \in K : \E i \in 1..Cardinality(K) : q[i] = k
    BY DEF Bijection, Surjection
  <2> QED  BY <2>2
<1> QED  BY <1>2, <1>3, <1>4

LEMMA CreatesForEach ==
  ASSUME TypeOK, NEW K \in SUBSET Keys, NEW S, NEW sk \in [Sockets -> Socket],
         Combined, CreateForEach(K, S, sk)
  PROVE  OverNew(S, sk)
<1> DEFINE order == CHOOSE q \in [1..Cardinality(K) -> K] :
                      \A k \in K : \E i \in DOMAIN q : q[i] = k
           n == Cardinality(K)
<1>1. n \in Nat /\ order \in [1..n -> K]
  BY KeysFinite
<1>2. /\ made + n <= MaxSockets /\ made' = made + n /\ subs' = S
      /\ UNCHANGED <<psubs, route>>
      /\ sock' = [s \in Sockets |->
                    IF s \in made+1..made' THEN NewSocket("pool", "call", {order[s - made]}, {})
                                          ELSE sk[s]]
  BY DEF CreateForEach, RoomForPool
<1>3. made \in Nat /\ MaxSockets \in Nat /\ \A s \in Sockets : s \in Nat
  BY MarketDataEngineAssumption DEF TypeOK, Sockets
<1> HIDE DEF order, n
<1>4. ASSUME NEW s \in Sockets, s \in made+1..made'
      PROVE  LET x == NewSocket("pool", "call", {order[s - made]}, {})
             IN  x \in Socket /\ x.kind = "pool" /\ x.state = "connecting"
  <2>1. s - made \in 1..n
    BY <1>1, <1>2, <1>3, <1>4
  <2>2. {order[s - made]} \in SUBSET Keys /\ {} \in SUBSET Keys
    BY <1>1, <2>1
  <2>3. \A L \in SUBSET Keys, R \in SUBSET Keys :
          LET x == NewSocket("pool", "call", L, R)
          IN  x \in Socket /\ x.kind = "pool" /\ x.state = "connecting"
    BY NewSocketTyped DEF TypeOK, Kinds, Makers
  <2> QED  BY <2>2, <2>3
<1>5. \A s \in Sockets :
        /\ s \in made+1..made' => /\ sock'[s] \in Socket /\ sock'[s].kind = "pool"
                                  /\ sock'[s].state = "connecting"
        /\ s \notin made+1..made' => sock'[s] = sk[s]
  BY <1>2, <1>4
<1>6. sock' \in [Sockets -> Socket]
  <2>1. \A s \in Sockets : sock'[s] \in Socket
    BY <1>5
  <2>2. sock' = [s \in Sockets |-> sock'[s]]
    BY <1>2
  <2> QED  BY <2>1, <2>2
<1>7. made' \in made..MaxSockets
  BY <1>1, <1>2, <1>3
<1> QED  BY <1>2, <1>5, <1>6, <1>7 DEF OverNew

LEMMA SubscribeCases ==
  ASSUME TypeOK, NEW K \in SUBSET Keys, NEW S, NEW sk \in [Sockets -> Socket],
         NEW e, SubscribeAll(K, S, sk, e)
  PROVE  \/ Nowhere(K \ S, S, sk, e)
         \/ OverMain(K \ S, S, sk, e)
         \/ \E c \in InPool : OverPool(c, K \ S, S, sk)
         \/ OverNew(S, sk)
<1> DEFINE N == K \ S
<1>1. CASE N = {}
  BY <1>1 DEF SubscribeAll, Nowhere
<1>2. CASE N # {} /\ Combined /\ Roomy # {}
  <2>1. PICK i \in Roomy : AddToConnection(pool[i], N, S, sk)
    BY <1>2 DEF SubscribeAll
  <2>2. pool[i] \in InPool
    BY DEF Roomy, InPool
  <2>3. CASE sk[pool[i]].state = "open"
    <3>1. OverPool(pool[i], N, S, sk)
      BY <1>2, <2>1, <2>2, <2>3 DEF AddToConnection, OverPool
    <3> QED  BY <2>2, <3>1
  <2>4. CASE sk[pool[i]].state # "open"
    BY <1>2, <2>1, <2>4 DEF AddToConnection, Nowhere
  <2> QED  BY <2>3, <2>4
<1>3. CASE N # {} /\ Combined /\ Roomy = {}
  <2>1. CreateForEach(N, S, sk)
    BY <1>3 DEF SubscribeAll
  <2> QED  BY <1>3, <2>1, CreatesForEach
<1>4. CASE N # {} /\ ~Combined
  BY <1>4 DEF SubscribeAll, OverMain, Nowhere
<1> QED  BY <1>1, <1>2, <1>3, <1>4

-----------------------------------------------------------------------------
(* The status of the main socket *)

LEMMA MainFields ==
  ASSUME TypeOK
  PROVE  /\ main \in Main /\ main.entry \in Sockets \cup {None}
         /\ main.connected \in BOOLEAN /\ main.reconnecting \in BOOLEAN
         /\ main.attempt \in Nat /\ main.attempt <= MaxAttempts
         /\ timers \in Nat /\ None \notin Sockets
BY MarketDataEngineAssumption DEF TypeOK, Main, Sockets, None

LEMMA MainBuilt ==
  ASSUME NEW e \in Sockets \cup {None}, NEW b \in BOOLEAN, NEW r \in BOOLEAN,
         NEW n \in 0..MaxAttempts
  PROVE  [entry |-> e, connected |-> b, reconnecting |-> r, attempt |-> n] \in Main
BY DEF Main

LEMMA MainLosesEntry ==
  ASSUME NEW m \in Main
  PROVE  LET q == [m EXCEPT !.connected = FALSE, !.entry = None] IN
           /\ q \in Main /\ q.entry = None /\ q.attempt = m.attempt
           /\ ~q.connected /\ q.reconnecting = m.reconnecting
<1> DEFINE q == [m EXCEPT !.connected = FALSE, !.entry = None]
<1>1. q \in Main
  BY DEF Main
<1>2. q.entry = None /\ q.attempt = m.attempt
  BY DEF Main
<1>3. ~q.connected
  BY DEF Main
<1>4. q.reconnecting = m.reconnecting
  BY DEF Main
<1> QED  BY <1>1, <1>2, <1>3, <1>4

LEMMA MainSettles ==
  ASSUME NEW m \in Main, NEW b \in BOOLEAN
  PROVE  /\ LET q == [m EXCEPT !.reconnecting = b] IN
              /\ q \in Main /\ q.entry = m.entry /\ q.attempt = m.attempt
              /\ q.reconnecting = b
         /\ LET q == [m EXCEPT !.connected = b] IN
              /\ q \in Main /\ q.entry = m.entry /\ q.attempt = m.attempt
              /\ q.reconnecting = m.reconnecting
<1>1. [m EXCEPT !.reconnecting = b] \in Main /\ [m EXCEPT !.connected = b] \in Main
  BY DEF Main
<1>2. LET q == [m EXCEPT !.reconnecting = b] IN q.entry = m.entry /\ q.attempt = m.attempt
  BY DEF Main
<1>3. LET q == [m EXCEPT !.connected = b] IN q.entry = m.entry /\ q.attempt = m.attempt
  BY DEF Main
<1>4. [m EXCEPT !.reconnecting = b].reconnecting = b
  BY DEF Main
<1>5. [m EXCEPT !.connected = b].reconnecting = m.reconnecting
  BY DEF Main
<1> QED  BY <1>1, <1>2, <1>3, <1>4, <1>5

\* at most one more timer, and the flag is up then
LEMMA Attempting ==
  ASSUME NEW m \in Main, NEW n \in Nat, NEW st, st = [main |-> m, timers |-> n]
  PROVE  LET a == AttemptReconnect(st) IN
           /\ a.main \in Main /\ a.timers \in Nat /\ a.main.entry = m.entry
           /\ \/ a.timers = n /\ a.main.reconnecting = m.reconnecting
              \/ a.timers = n + 1 /\ ~m.reconnecting /\ a.main.reconnecting
<1>1. CASE st.main.reconnecting \/ st.main.attempt >= MaxAttempts
  <2>1. AttemptReconnect(st) = st
    BY <1>1 DEF AttemptReconnect
  <2> QED  BY <2>1
<1>2. CASE ~(st.main.reconnecting \/ st.main.attempt >= MaxAttempts)
  <2> DEFINE q == [m EXCEPT !.reconnecting = TRUE, !.attempt = m.attempt + 1]
  <2>1. AttemptReconnect(st) = [main |-> q, timers |-> n + 1]
    BY <1>2 DEF AttemptReconnect
  <2>2. m.attempt + 1 \in 0..MaxAttempts
    BY <1>2, MarketDataEngineAssumption DEF Main
  <2>3. q \in Main
    BY <2>2 DEF Main
  <2>4. q.entry = m.entry
    BY DEF Main
  <2>5. q.reconnecting
    BY DEF Main
  <2> HIDE DEF q
  <2>6. AttemptReconnect(st).main = q /\ AttemptReconnect(st).timers = n + 1
    BY <2>1
  <2>7. ~m.reconnecting
    BY <1>2
  <2> QED  BY <2>3, <2>4, <2>5, <2>6, <2>7
<1> QED  BY <1>1, <1>2

LEMMA Closing ==
  ASSUME TypeOK
  PROVE  /\ AfterClose = [main |-> AfterClose.main, timers |-> AfterClose.timers]
         /\ AfterClose.main \in Main /\ AfterClose.timers \in Nat
         /\ AfterClose.main.entry = None
         /\ \/ /\ AfterClose.timers = timers
               /\ AfterClose.main.reconnecting = main.reconnecting
            \/ /\ running /\ AfterClose.timers = timers + 1
               /\ ~main.reconnecting /\ AfterClose.main.reconnecting
<1> DEFINE m == [main EXCEPT !.connected = FALSE, !.entry = None]
           st == [main |-> m, timers |-> timers]
<1>1. main \in Main /\ timers \in Nat
  BY MainFields
<1>2. m \in Main /\ m.entry = None /\ m.reconnecting = main.reconnecting
  BY <1>1, MainLosesEntry
<1>3. AfterClose = IF running THEN AttemptReconnect(st) ELSE st
  BY DEF AfterClose
<1> HIDE DEF m
<1>4. st.main = m /\ st.timers = timers
  OBVIOUS
<1>5. LET a == AttemptReconnect(st) IN
        /\ a.main \in Main /\ a.timers \in Nat /\ a.main.entry = m.entry
        /\ \/ a.timers = timers /\ a.main.reconnecting = m.reconnecting
           \/ a.timers = timers + 1 /\ ~m.reconnecting /\ a.main.reconnecting
  BY <1>1, <1>2, Attempting
<1>6. AttemptReconnect(st) = [main |-> AttemptReconnect(st).main,
                              timers |-> AttemptReconnect(st).timers]
  BY DEF AttemptReconnect
<1> HIDE DEF st
<1>7. st = [main |-> st.main, timers |-> st.timers]
  BY DEF st
<1>8. CASE running
  BY <1>2, <1>3, <1>5, <1>6, <1>8
<1>9. CASE ~running
  BY <1>1, <1>2, <1>3, <1>4, <1>7, <1>9
<1> QED  BY <1>8, <1>9

LEMMA Rejected ==
  ASSUME TypeOK
  PROVE  /\ AfterRejection.main \in Main /\ AfterRejection.timers \in Nat
         /\ AfterRejection.main.entry = None
         /\ ~running \/ main.reconnecting =>
              \/ AfterRejection.timers = timers
              \/ AfterRejection.timers = timers + 1 /\ AfterRejection.main.reconnecting
<1> DEFINE c == AfterClose
           m == [c.main EXCEPT !.reconnecting = FALSE]
           st == [main |-> m, timers |-> c.timers]
<1>1. /\ c = [main |-> c.main, timers |-> c.timers]
      /\ c.main \in Main /\ c.timers \in Nat /\ c.main.entry = None
      /\ ~running \/ main.reconnecting => c.timers = timers
  BY Closing
<1>2. m \in Main /\ m.entry = None
  BY <1>1, MainSettles
<1>3. [c EXCEPT !.main.reconnecting = FALSE] = st
  <2>1. ASSUME NEW x, NEW y
        PROVE  [[main |-> x, timers |-> y] EXCEPT !.main.reconnecting = FALSE]
                  = [main |-> [x EXCEPT !.reconnecting = FALSE], timers |-> y]
    <3>1. \A q : [[main |-> x, timers |-> y] EXCEPT !.main = q] = [main |-> q, timers |-> y]
      OBVIOUS
    <3>2. [[main |-> x, timers |-> y] EXCEPT !.main.reconnecting = FALSE]
            = [[main |-> x, timers |-> y] EXCEPT !.main = [x EXCEPT !.reconnecting = FALSE]]
      OBVIOUS
    <3> QED  BY <3>1, <3>2
  <2>2. [[main |-> c.main, timers |-> c.timers] EXCEPT !.main.reconnecting = FALSE] = st
    BY <2>1
  <2> HIDE DEF c, m, st
  <2> QED  BY <1>1, <2>2
<1>4. AfterRejection = AttemptReconnect(st)
  BY <1>3 DEF AfterRejection
<1> HIDE DEF m, c
<1>5. LET a == AttemptReconnect(st) IN
        /\ a.main \in Main /\ a.timers \in Nat /\ a.main.entry = m.entry
        /\ \/ a.timers = c.timers
           \/ a.timers = c.timers + 1 /\ a.main.reconnecting
  BY <1>1, <1>2, Attempting
<1> QED  BY <1>1, <1>2, <1>4, <1>5

-----------------------------------------------------------------------------
(* Types, soundness and the main socket's subscriptions, action by action *)

Base == TypeOK /\ Sound /\ (Unshared => WireAgrees)

\* a socket whose subscriptions change stays what it is
Alike(x, y) ==
  y.kind = x.kind /\ y.by = x.by /\ y.state = x.state /\ y.keys = x.keys /\ y.rest = x.rest

LEMMA Rewired ==
  ASSUME ex \in Exchanges, NEW sk \in [Sockets -> Socket], NEW c \in Sockets,
         NEW N \in SUBSET Keys, sock' = [sk EXCEPT ![c].wire = @ \cup Streams(N)]
  PROVE  /\ sock' \in [Sockets -> Socket]
         /\ \A t \in Sockets : t # c => sock'[t] = sk[t]
         /\ Alike(sk[c], sock'[c]) /\ sock'[c].wire = sk[c].wire \cup Streams(N)
<1> DEFINE w == sk[c].wire \cup Streams(N)
           n == [sk[c] EXCEPT !.wire = w]
<1>1. w \in SUBSET Channels
  BY StreamsTyped, Fields
<1>2. /\ n \in Socket /\ n.kind = sk[c].kind /\ n.by = sk[c].by
      /\ n.state = sk[c].state /\ n.wire = w
      /\ n.keys = sk[c].keys /\ n.rest = sk[c].rest
  <2> HIDE DEF w
  <2> QED  BY <1>1, SocketChanges
<1>3. sock' = [sk EXCEPT ![c] = n]
  OBVIOUS
<1> HIDE DEF n
<1> QED  BY <1>2, <1>3 DEF Alike

LEMMA SubscribeFrame ==
  ASSUME TypeOK, NEW K \in SUBSET Keys, NEW S \in SUBSET Keys,
         NEW sk \in [Sockets -> Socket], NEW e \in Sockets \cup {None},
         SubscribeAll(K, S, sk, e)
  PROVE  /\ subs' \in SUBSET Keys /\ made' \in made..MaxSockets
         /\ sock' \in [Sockets -> Socket]
         /\ psubs' \in [Sockets -> SUBSET Keys]
         /\ route' \in [Keys -> Sockets \cup {None}]
         /\ \A t \in Sockets : t \in (made + 1)..made' =>
              sock'[t].kind = "pool" /\ sock'[t].state = "connecting" /\ Combined
         /\ \A t \in Sockets : t \notin (made + 1)..made' =>
              \/ sock'[t] = sk[t]
              \/ sk[t].state = "open" /\ Alike(sk[t], sock'[t])
<1> DEFINE N == K \ S
<1>1. N \in SUBSET Keys /\ ex \in Exchanges /\ made \in Nat /\ MaxSockets \in Nat
      /\ made <= MaxSockets
  BY MarketDataEngineAssumption DEF TypeOK
<1>2. made \in made..MaxSockets /\ \A t \in Sockets : t \notin (made + 1)..made
  BY <1>1 DEF Sockets
<1>3. CASE Nowhere(N, S, sk, e)
  BY <1>2, <1>3 DEF Nowhere, TypeOK
<1>4. CASE OverMain(N, S, sk, e)
  <2>1. e \in Sockets /\ sk[e].state = "open"
        /\ sock' = [sk EXCEPT ![e].wire = @ \cup Streams(N)]
    BY <1>4 DEF OverMain
  <2>2. /\ sock' \in [Sockets -> Socket]
        /\ \A t \in Sockets : t # e => sock'[t] = sk[t]
        /\ Alike(sk[e], sock'[e])
    BY <1>1, <2>1, Rewired
  <2>3. subs' \in SUBSET Keys /\ UNCHANGED <<made, psubs, route>>
    BY <1>1, <1>4 DEF OverMain
  <2> QED  BY <1>2, <2>1, <2>2, <2>3 DEF TypeOK
<1>5. ASSUME NEW c \in InPool, OverPool(c, N, S, sk)
      PROVE  /\ subs' \in SUBSET Keys /\ made' = made
             /\ sock' \in [Sockets -> Socket]
             /\ psubs' \in [Sockets -> SUBSET Keys]
             /\ route' \in [Keys -> Sockets \cup {None}]
             /\ \A t \in Sockets :
                  \/ sock'[t] = sk[t]
                  \/ sk[t].state = "open" /\ Alike(sk[t], sock'[t])
  <2>1. c \in Sockets /\ sk[c].state = "open"
        /\ sock' = [sk EXCEPT ![c].wire = @ \cup Streams(N)]
    BY <1>5, PoolTyped DEF OverPool
  <2>2. /\ sock' \in [Sockets -> Socket]
        /\ \A t \in Sockets : t # c => sock'[t] = sk[t]
        /\ Alike(sk[c], sock'[c])
    BY <1>1, <2>1, Rewired
  <2>3. subs' \in SUBSET Keys /\ made' = made
    BY <1>1, <1>5 DEF OverPool
  <2>4. psubs' \in [Sockets -> SUBSET Keys]
    BY <1>1, <1>5, <2>1 DEF OverPool, TypeOK
  <2>5. route' \in [Keys -> Sockets \cup {None}]
    BY <1>1, <1>5, <2>1 DEF OverPool, TypeOK
  <2> QED  BY <2>1, <2>2, <2>3, <2>4, <2>5
<1>6. CASE OverNew(S, sk)
  BY <1>6 DEF OverNew, TypeOK
<1>7. \/ Nowhere(N, S, sk, e) \/ OverMain(N, S, sk, e)
      \/ \E c \in InPool : OverPool(c, N, S, sk)
      \/ OverNew(S, sk)
  BY SubscribeCases
<1>8. CASE \E c \in InPool : OverPool(c, N, S, sk)
  <2> HIDE DEF N
  <2> QED  BY <1>2, <1>5, <1>8
<1> HIDE DEF N
<1> QED  BY <1>3, <1>4, <1>6, <1>7, <1>8

LEMMA SubscribeBase ==
  ASSUME Base, NEW K \in SUBSET Keys, Subscribe(K)
  PROVE  Base'
<1> DEFINE e == main.entry
<1>1. /\ ex' = ex /\ SubscribeAll(K, subs, sock, e) /\ e \in Sockets
      /\ pool' = pool /\ lists' = lists /\ main' = main
  BY MainFields DEF Subscribe, Base
<1>2. subs \in SUBSET Keys /\ sock \in [Sockets -> Socket] /\ TypeOK /\ Sound
  BY DEF Base, TypeOK
<1>3. /\ subs' \in SUBSET Keys /\ made' \in made..MaxSockets
      /\ sock' \in [Sockets -> Socket]
      /\ psubs' \in [Sockets -> SUBSET Keys]
      /\ route' \in [Keys -> Sockets \cup {None}]
      /\ \A t \in Sockets : t \in (made + 1)..made' =>
           sock'[t].kind = "pool" /\ sock'[t].state = "connecting" /\ Combined
      /\ \A t \in Sockets : t \notin (made + 1)..made' =>
           \/ sock'[t] = sock[t]
           \/ sock[t].state = "open" /\ Alike(sock[t], sock'[t])
  <2> HIDE DEF e
  <2> QED  BY <1>1, <1>2, SubscribeFrame
<1>4. TypeOK'
  <2>1. made' \in 0..MaxSockets
    BY <1>2, <1>3, MarketDataEngineAssumption DEF TypeOK
  <2>2. {faults, changes, starts}' \subseteq Nat
    BY <1>2 DEF Subscribe, TypeOK
  <2> QED  BY <1>2, <1>3, <2>1, <2>2 DEF Subscribe, TypeOK
<1>5. Sound'
  <2>1. \A c \in InPool : /\ sock'[c].kind = "pool"
                          /\ sock'[c].state \in {"open", "closing"}
    <3> SUFFICES ASSUME NEW c \in InPool
                 PROVE  sock'[c].kind = "pool" /\ sock'[c].state \in {"open", "closing"}
      OBVIOUS
    <3>1. c \in Sockets /\ sock[c].kind = "pool" /\ sock[c].state \in {"open", "closing"}
      BY <1>2, PoolTyped DEF Sound
    <3>2. c <= made /\ c \in Nat /\ made \in Nat
      BY <1>2, <3>1, Numbered
    <3>3. c \notin (made + 1)..made'
      BY <3>2
    <3> QED  BY <1>3, <3>1, <3>3 DEF Alike
  <2>2. InPool' = InPool
    BY <1>1 DEF InPool
  <2>3. \A t \in Sockets : t \notin (made + 1)..made' =>
          \/ sock'[t] = sock[t]
          \/ t <= made /\ sock'[t].kind = sock[t].kind /\ sock'[t].state # "connecting"
    BY <1>2, <1>3, MadeFirst DEF Alike
  <2>4. ~Combined => pool' = <<>> /\ lists' = {}
    BY <1>1, <1>2 DEF Sound
  <2>5. \A i, j \in DOMAIN pool' : pool'[i] = pool'[j] => i = j
    BY <1>1, <1>2 DEF Sound
  <2> QED  BY <1>1, <1>2, <1>3, <2>1, <2>2, <2>3, <2>4, <2>5, SoundStep
<1>6. ASSUME Unshared PROVE WireAgrees'
  <2>1. CASE Combined
    BY <1>1, <2>1, SameExchange DEF WireAgrees
  <2>2. CASE Nowhere(K \ subs, subs, sock, e)
    BY <1>1, <1>6, <2>2, WireKept DEF Nowhere, Base
  <2>3. CASE OverMain(K \ subs, subs, sock, e)
    <3>1. /\ sock'[e].wire = sock[e].wire \cup Streams(K \ subs)
          /\ subs' = subs \cup (K \ subs) /\ sock[e].state = "open" /\ ~Combined
      BY <1>1, <1>2, <2>3, Rewired DEF OverMain, TypeOK
    <3>2. sock[e].wire = Streams(subs)
      BY <1>1, <1>6, <3>1 DEF Base, WireAgrees, None, Sockets
    <3>3. sock'[e].wire = Streams(subs')
      BY <3>1, <3>2, StreamsUnion
    <3>4. Streams(subs)' = Streams(subs')
      BY <1>1 DEF Streams, Channel
    <3> QED  BY <1>1, <3>3, <3>4 DEF WireAgrees
  <2>4. \/ Combined \/ Nowhere(K \ subs, subs, sock, e) \/ OverMain(K \ subs, subs, sock, e)
    BY <1>1, <1>2, SubscribeCases DEF OverPool, OverNew
  <2> QED  BY <2>1, <2>2, <2>3, <2>4
<1> QED  BY <1>4, <1>5, <1>6 DEF Base

LEMMA Unwired ==
  ASSUME ex \in Exchanges, sock \in [Sockets -> Socket], NEW c \in Sockets,
         NEW k \in Keys,
         sock' = IF sock[c].state = "open"
                 THEN [sock EXCEPT ![c].wire = @ \ Streams({k})] ELSE sock
  PROVE  /\ sock' \in [Sockets -> Socket]
         /\ \A t \in Sockets : t # c => sock'[t] = sock[t]
         /\ \/ sock'[c] = sock[c] /\ sock[c].state # "open"
            \/ /\ sock[c].state = "open" /\ Alike(sock[c], sock'[c])
               /\ sock'[c].wire = sock[c].wire \ Streams({k})
<1>1. CASE sock[c].state # "open"
  BY <1>1
<1>2. CASE sock[c].state = "open"
  <2> DEFINE w == sock[c].wire \ Streams({k})
             n == [sock[c] EXCEPT !.wire = w]
  <2>1. w \in SUBSET Channels
    BY Fields
  <2>2. /\ n \in Socket /\ n.kind = sock[c].kind /\ n.by = sock[c].by
        /\ n.state = sock[c].state /\ n.wire = w
        /\ n.keys = sock[c].keys /\ n.rest = sock[c].rest
    <3> HIDE DEF w
    <3> QED  BY <2>1, SocketChanges
  <2>3. sock' = [sock EXCEPT ![c] = n]
    BY <1>2
  <2> HIDE DEF n
  <2> QED  BY <1>2, <2>2, <2>3 DEF Alike
<1> QED  BY <1>1, <1>2

LEMMA StreamsMinus ==
  ASSUME ex \in Exchanges, Unshared, NEW k \in Keys, NEW K \in SUBSET Keys
  PROVE  Streams(K \ {k}) = Streams(K) \ Streams({k})
<1>1. ASSUME NEW l \in Keys, Channel[k] = Channel[l]
      PROVE  k = l \/ Channel[k] = "none"
  BY <1>1 DEF Unshared, Channel
<1> QED  BY <1>1 DEF Streams

LEMMA UnsubscribeBase ==
  ASSUME Base, NEW k \in Keys, Unsubscribe(k)
  PROVE  Base'
<1>1. /\ ex' = ex /\ made' = made /\ main' = main /\ main.entry \in Sockets
      /\ pool' = pool /\ lists' = lists /\ subs' = subs \ {k}
      /\ TypeOK /\ Sound
  BY MainFields DEF Unsubscribe, Base
<1>2. sock \in [Sockets -> Socket] /\ ex \in Exchanges /\ made \in Nat
      /\ made \in made..MaxSockets
      /\ psubs \in [Sockets -> SUBSET Keys] /\ route \in [Keys -> Sockets \cup {None}]
  BY <1>1, MarketDataEngineAssumption DEF TypeOK
<1>3. ASSUME Combined
      PROVE  /\ sock' \in [Sockets -> Socket]
             /\ psubs' \in [Sockets -> SUBSET Keys] /\ route' \in [Keys -> Sockets \cup {None}]
             /\ \A t \in Sockets : \/ sock'[t] = sock[t]
                                   \/ sock[t].state = "open" /\ Alike(sock[t], sock'[t])
  <2> DEFINE c == route[k]
  <2>1. RemoveFromConnection(k)
    BY <1>3 DEF Unsubscribe
  <2>2. route' \in [Keys -> Sockets \cup {None}]
    BY <1>2, <2>1 DEF RemoveFromConnection
  <2>3. CASE c \in InPool
    <3>1. c \in Sockets
      BY <1>1, <2>3, PoolTyped
    <3>2. sock' = IF sock[c].state = "open"
                  THEN [sock EXCEPT ![c].wire = @ \ Streams({k})] ELSE sock
      BY <2>1, <2>3 DEF RemoveFromConnection
    <3>3. psubs' \in [Sockets -> SUBSET Keys]
      BY <1>2, <2>1, <2>3 DEF RemoveFromConnection
    <3> HIDE DEF c
    <3>4. /\ sock' \in [Sockets -> Socket]
          /\ \A t \in Sockets : t # c => sock'[t] = sock[t]
          /\ \/ sock'[c] = sock[c]
             \/ sock[c].state = "open" /\ Alike(sock[c], sock'[c])
      BY <1>2, <3>1, <3>2, Unwired
    <3> QED  BY <2>2, <3>3, <3>4
  <2>4. CASE c \notin InPool
    BY <1>2, <2>1, <2>2, <2>4 DEF RemoveFromConnection
  <2> QED  BY <2>3, <2>4
<1>4. ASSUME ~Combined
      PROVE  /\ sock' \in [Sockets -> Socket] /\ psubs' = psubs /\ route' = route
             /\ \A t \in Sockets : t # main.entry => sock'[t] = sock[t]
             /\ \/ sock'[main.entry] = sock[main.entry] /\ sock[main.entry].state # "open"
                \/ /\ sock[main.entry].state = "open"
                   /\ Alike(sock[main.entry], sock'[main.entry])
                   /\ sock'[main.entry].wire = sock[main.entry].wire \ Streams({k})
  <2>1. RemoveFromMain(k)
    BY <1>4 DEF Unsubscribe
  <2> QED  BY <1>1, <1>2, <2>1, Unwired DEF RemoveFromMain
<1>5. /\ sock' \in [Sockets -> Socket]
      /\ psubs' \in [Sockets -> SUBSET Keys] /\ route' \in [Keys -> Sockets \cup {None}]
      /\ \A t \in Sockets : \/ sock'[t] = sock[t]
                            \/ sock[t].state = "open" /\ Alike(sock[t], sock'[t])
  BY <1>2, <1>3, <1>4
<1>6. TypeOK'
  <2>1. {faults, changes, starts}' \subseteq Nat
    BY <1>1 DEF Unsubscribe, TypeOK
  <2> QED  BY <1>1, <1>5, <2>1 DEF Unsubscribe, TypeOK
<1>7. Sound'
  <2>1. InPool' = InPool
    BY <1>1 DEF InPool
  <2>2. \A c \in InPool : sock'[c].kind = "pool" /\ sock'[c].state \in {"open", "closing"}
    BY <1>1, <1>5, PoolTyped DEF Sound, Alike
  <2>3. \A t \in Sockets : t \notin (made + 1)..made'
    BY <1>1, <1>2 DEF Sockets
  <2>4. \A t \in Sockets :
          \/ sock'[t] = sock[t]
          \/ t <= made /\ sock'[t].kind = sock[t].kind /\ sock'[t].state # "connecting"
    BY <1>1, <1>5, MadeFirst DEF Alike
  <2>5. ~Combined => pool' = <<>> /\ lists' = {}
    BY <1>1 DEF Sound
  <2>6. \A i, j \in DOMAIN pool' : pool'[i] = pool'[j] => i = j
    BY <1>1 DEF Sound
  <2> QED  BY <1>1, <1>2, <2>1, <2>2, <2>3, <2>4, <2>5, <2>6, SoundStep
<1>8. ASSUME Unshared PROVE WireAgrees'
  <2>1. CASE Combined
    BY <1>1, <2>1, SameExchange DEF WireAgrees
  <2>2. CASE ~Combined /\ sock[main.entry].state # "open"
    <3>1. sock'[main.entry].state # "open"
      BY <1>4, <2>2
    <3> QED  BY <1>1, <3>1 DEF WireAgrees
  <2>3. CASE ~Combined /\ sock[main.entry].state = "open"
    <3>1. sock'[main.entry].wire = Streams(subs) \ Streams({k})
      <4>1. main.entry # None
        BY <1>1, MainFields
      <4>2. sock[main.entry].wire = Streams(subs)
        BY <1>8, <2>3, <4>1 DEF Base, WireAgrees
      <4> QED  BY <1>4, <2>3, <4>2
    <3>2. Streams(subs \ {k}) = Streams(subs) \ Streams({k})
      BY <1>1, <1>2, <1>8, StreamsMinus DEF TypeOK
    <3>3. Streams(subs)' = Streams(subs')
      BY <1>1 DEF Streams, Channel
    <3> QED  BY <1>1, <3>1, <3>2, <3>3 DEF WireAgrees
  <2> QED  BY <2>1, <2>2, <2>3
<1> QED  BY <1>6, <1>7, <1>8 DEF Base

\* a new socket
LEMMA OneMore ==
  ASSUME TypeOK, Sound, made + 1 <= MaxSockets, made' = made + 1,
         NEW x \in Socket, sock' = [sock EXCEPT ![made + 1] = x]
  PROVE  /\ made \in Nat /\ made + 1 \in Sockets /\ made' \in made..MaxSockets
         /\ made' \in 0..MaxSockets
         /\ sock' \in [Sockets -> Socket] /\ sock'[made + 1] = x
         /\ sock[made + 1] = Unmade
         /\ \A t \in Sockets : t # made + 1 => sock'[t] = sock[t]
         /\ \A t \in Sockets : t \in (made + 1)..made' <=> t = made + 1
         /\ made + 1 \notin InPool
<1>1. /\ made \in Nat /\ made + 1 \in Sockets /\ made' \in made..MaxSockets
      /\ made' \in 0..MaxSockets /\ made + 1 > made /\ MaxSockets \in Nat
  BY MarketDataEngineAssumption DEF TypeOK, Sockets
<1>2. \A t \in Sockets : t \in (made + 1)..made' <=> t = made + 1
  BY <1>1 DEF Sockets
<1>3. sock[made + 1] = Unmade
  BY <1>1 DEF Sound
<1>4. made + 1 \notin InPool
  BY <1>3, UnmadeTyped DEF Sound, TypeOK
<1> QED  BY <1>1, <1>2, <1>3, <1>4 DEF TypeOK

LEMMA StartBase ==
  ASSUME Base, Start \/ TimerFires
  PROVE  Base'
<1>1. TypeOK /\ Sound
  BY DEF Base
<1>2. CASE TimerFires /\ ~running
  <2>1. /\ UNCHANGED <<ex, sock, made, subs, pool, lists>> /\ main'.entry = main.entry
        /\ main' \in Main
    <3>1. main' = [main EXCEPT !.reconnecting = FALSE]
      BY <1>2 DEF TimerFires
    <3> QED  BY <1>1, <1>2, <3>1, MainFields, MainSettles DEF TimerFires
  <2>2. TypeOK'
    BY <1>1, <1>2, <2>1 DEF TimerFires, TypeOK, bounds, Main
  <2>3. Sound'
    BY <1>1, <2>1, SameExchange DEF Sound, InPool
  <2>4. Unshared => WireAgrees'
    BY <2>1, WireKept DEF Base
  <2> QED  BY <2>2, <2>3, <2>4 DEF Base
<1>3. CASE Start \/ (TimerFires /\ running)
  <2>1. PICK by \in {"start", "timer"} : Connect(by)
    BY <1>3 DEF Start, TimerFires
  <2> DEFINE x == NewSocket("main", by, {}, {})
  <2>2. /\ x \in Socket /\ x.kind = "main" /\ x.by = by /\ x.state = "connecting" /\ x.wire = {}
    <3>1. by \in Makers /\ {} \in SUBSET Keys /\ "main" \in Kinds
      BY DEF Makers, Kinds
    <3> QED  BY <1>1, <3>1, NewSocketTyped DEF TypeOK
  <2>3. /\ made + 1 <= MaxSockets /\ made' = made + 1
        /\ sock' = [sock EXCEPT ![made + 1] = x]
    BY <1>1, <2>1, MarketDataEngineAssumption DEF Connect, TypeOK
  <2> HIDE DEF x
  <2>4. /\ made \in Nat /\ made + 1 \in Sockets /\ made' \in made..MaxSockets
        /\ made' \in 0..MaxSockets
        /\ sock' \in [Sockets -> Socket] /\ sock'[made + 1] = x
        /\ \A t \in Sockets : t # made + 1 => sock'[t] = sock[t]
        /\ \A t \in Sockets : t \in (made + 1)..made' <=> t = made + 1
        /\ made + 1 \notin InPool
    BY <1>1, <2>2, <2>3, OneMore
  <2>5. UNCHANGED <<ex, main, subs, pool, lists, psubs, route, watch, running, up>>
    BY <1>3 DEF Start, TimerFires
  <2>6. TypeOK'
    <3>1. starting' \in {"no", "connecting", "settled"} /\ timers' \in Nat
      BY <1>1, <1>3 DEF Start, TimerFires, TypeOK
    <3>2. {faults, changes, starts}' \subseteq Nat
      BY <1>1, <1>3 DEF Start, TimerFires, TypeOK, bounds
    <3> QED  BY <1>1, <2>4, <2>5, <3>1, <3>2 DEF TypeOK
  <2>7. Sound'
    <3>1. InPool' = InPool
      BY <2>5 DEF InPool
    <3>2. \A c \in InPool : sock'[c].kind = "pool" /\ sock'[c].state \in {"open", "closing"}
      BY <1>1, <2>4, PoolTyped DEF Sound
    <3>3. ~Combined => pool' = <<>> /\ lists' = {}
      BY <1>1, <2>5 DEF Sound
    <3>4. \A i, j \in DOMAIN pool' : pool'[i] = pool'[j] => i = j
      BY <1>1, <2>5 DEF Sound
    <3> QED  BY <1>1, <2>2, <2>4, <2>5, <3>1, <3>2, <3>3, <3>4, SoundStep
  <2>8. Unshared => WireAgrees'
    <3>1. CASE main.entry = None \/ main.entry = made + 1
      <4>1. main'.entry = None \/ sock'[main'.entry].state # "open"
        BY <2>2, <2>4, <2>5, <3>1
      <4> QED  BY <4>1 DEF WireAgrees
    <3>2. CASE main.entry # None /\ main.entry # made + 1
      <4>1. sock'[main.entry] = sock[main.entry]
        BY <1>1, <2>4, <3>2, MainFields
      <4> QED  BY <2>5, <4>1, WireKept DEF Base
    <3> QED  BY <3>1, <3>2
  <2> QED  BY <2>6, <2>7, <2>8 DEF Base
<1> QED  BY <1>2, <1>3

LEMMA StartReturnsBase ==
  ASSUME Base, StartReturns
  PROVE  Base'
<1>1. TypeOK /\ Sound
  BY DEF Base
<1>2. UNCHANGED <<ex, main, timers, sock, made, subs, pool, psubs, route, lists, watch, bounds>>
  BY DEF StartReturns
<1>3. TypeOK'
  BY <1>1, <1>2 DEF StartReturns, TypeOK, InPool, bounds
<1>4. Sound'
  BY <1>1, <1>2, SameExchange DEF Sound, InPool
<1>5. Unshared => WireAgrees'
  BY <1>2, WireKept DEF Base
<1> QED  BY <1>3, <1>4, <1>5 DEF Base

\* an open socket falls silent or begins to close
LEMMA OneWeakens ==
  ASSUME Base, NEW s \in Sockets, NEW x \in Socket, sock' = [sock EXCEPT ![s] = x],
         sock[s].state = "open", x.kind = sock[s].kind, x.wire = sock[s].wire,
         x.state \in {"open", "closing"},
         UNCHANGED <<ex, made, subs, pool, lists, main>>
  PROVE  sock' \in [Sockets -> Socket] /\ Sound' /\ (Unshared => WireAgrees')
<1>1. TypeOK /\ Sound /\ made \in Nat /\ made \in made..MaxSockets /\ InPool' = InPool
  BY MarketDataEngineAssumption DEF Base, TypeOK, InPool
<1>2. /\ sock' \in [Sockets -> Socket] /\ sock'[s] = x
      /\ \A t \in Sockets : t # s => sock'[t] = sock[t]
  BY <1>1 DEF TypeOK
<1>3. Sound'
  <2>1. \A c \in InPool : sock'[c].kind = "pool" /\ sock'[c].state \in {"open", "closing"}
    BY <1>1, <1>2, PoolTyped DEF Sound
  <2>2. \A t \in Sockets : t \notin (made + 1)..made'
    BY <1>1 DEF Sockets
  <2>3. s <= made
    BY <1>1, MadeFirst
  <2>4. \A t \in Sockets :
          \/ sock'[t] = sock[t]
          \/ t <= made /\ sock'[t].kind = sock[t].kind /\ sock'[t].state # "connecting"
    BY <1>2, <2>3
  <2>5. ~Combined => pool' = <<>> /\ lists' = {}
    BY <1>1 DEF Sound
  <2>6. \A i, j \in DOMAIN pool' : pool'[i] = pool'[j] => i = j
    BY <1>1 DEF Sound
  <2> QED  BY <1>1, <2>1, <2>2, <2>4, <2>5, <2>6, SoundStep
<1>4. main.entry # None =>
        /\ sock'[main.entry].wire = sock[main.entry].wire
        /\ sock'[main.entry].state = "open" => sock[main.entry].state = "open"
  BY <1>1, <1>2, MainFields
<1>5. Unshared => WireAgrees'
  BY <1>4, WireKept DEF Base
<1> QED  BY <1>2, <1>3, <1>5

LEMMA SilenceBase ==
  ASSUME Base, NEW s \in Sockets, FallsSilent(s)
  PROVE  Base'
<1> DEFINE x == [sock[s] EXCEPT !.silent = TRUE]
<1>1. TypeOK /\ sock[s] \in Socket
  BY DEF Base, TypeOK
<1>2. /\ x \in Socket /\ x.kind = sock[s].kind /\ x.state = sock[s].state
      /\ x.wire = sock[s].wire
  BY <1>1, Silenced
<1>3. sock[s].state = "open" /\ sock' = [sock EXCEPT ![s] = x]
      /\ UNCHANGED <<ex, made, subs, pool, lists, main>>
  BY DEF FallsSilent
<1> HIDE DEF x
<1>4. sock' \in [Sockets -> Socket] /\ Sound' /\ (Unshared => WireAgrees')
  BY <1>2, <1>3, OneWeakens
<1>5. TypeOK'
  <2>1. {faults, changes, starts}' \subseteq Nat
    BY <1>1 DEF FallsSilent, May, TypeOK
  <2> QED  BY <1>1, <1>4, <2>1 DEF FallsSilent, TypeOK
<1> QED  BY <1>4, <1>5 DEF Base

LEMMA TimeoutBase ==
  ASSUME Base, NEW w \in watch, DataTimeout(w)
  PROVE  Base'
<1> DEFINE s == IF w = 0 THEN main.entry ELSE w
           x == [sock[s] EXCEPT !.state = "closing"]
<1>1. TypeOK /\ s \in Sockets /\ sock[s] \in Socket
  <2>1. s \in Sockets
    BY MainFields DEF DataTimeout, Base, TypeOK
  <2> QED  BY <2>1 DEF Base, TypeOK
<1>2. sock[s].state = "open" /\ sock' = [sock EXCEPT ![s].state = "closing"]
      /\ UNCHANGED <<ex, made, subs, pool, lists, main>>
  BY DEF DataTimeout
<1> HIDE DEF s
<1>3. "closing" \in States
  BY DEF States
<1>4. /\ x \in Socket /\ x.kind = sock[s].kind /\ x.state = "closing"
      /\ x.wire = sock[s].wire
  BY <1>1, <1>3, SocketChanges
<1>5. sock' = [sock EXCEPT ![s] = x]
  BY <1>2
<1> HIDE DEF x
<1>6. sock' \in [Sockets -> Socket] /\ Sound' /\ (Unshared => WireAgrees')
  BY <1>1, <1>2, <1>4, <1>5, OneWeakens
<1>7. TypeOK'
  BY <1>1, <1>6 DEF DataTimeout, TypeOK, bounds
<1> QED  BY <1>6, <1>7 DEF Base

LEMMA StopBase ==
  ASSUME Base, Stop
  PROVE  Base'
<1>1. TypeOK /\ Sound /\ made \in Nat /\ made \in made..MaxSockets
      /\ UNCHANGED <<ex, made, subs, lists>> /\ pool' = <<>>
  BY MarketDataEngineAssumption DEF Base, TypeOK, Stop
<1>2. ASSUME NEW t \in Sockets
      PROVE  /\ sock'[t] \in Socket
             /\ \/ sock'[t] = sock[t]
                \/ /\ sock[t].state = "open"
                   /\ sock'[t].kind = sock[t].kind /\ sock'[t].state = "closing"
  <2> DEFINE x == [sock[t] EXCEPT !.state = "closing"]
  <2>1. sock[t] \in Socket /\ "closing" \in States
    BY <1>1 DEF TypeOK, States
  <2>2. x \in Socket /\ x.kind = sock[t].kind /\ x.state = "closing"
    BY <2>1, SocketChanges
  <2>3. sock'[t] = sock[t] \/ (sock[t].state = "open" /\ sock'[t] = x)
    BY DEF Stop
  <2> HIDE DEF x
  <2> QED  BY <2>1, <2>2, <2>3
<1>3. sock' \in [Sockets -> Socket]
  BY <1>2 DEF Stop
<1>4. main' \in Main /\ main'.entry = None
  <2> DEFINE a == [main EXCEPT !.entry = None, !.connected = FALSE, !.reconnecting = FALSE]
  <2>1. main \in Main
    BY <1>1, MainFields
  <2>2. a \in Main
    BY <2>1 DEF Main
  <2>3. a.entry = None
    BY <2>1 DEF Main
  <2>4. main' = IF main.entry = None THEN main ELSE a
    BY DEF Stop
  <2> HIDE DEF a
  <2> QED  BY <2>1, <2>2, <2>3, <2>4
<1>5. TypeOK'
  <2>1. psubs' \in [Sockets -> SUBSET Keys] /\ pool' \in Seq(Sockets) /\ watch' = {}
    BY DEF Stop
  <2>2. running' = FALSE /\ up' = FALSE
        /\ UNCHANGED <<starting, timers, route, faults, changes, starts>>
    BY DEF Stop, bounds
  <2> QED  BY <1>1, <1>3, <1>4, <2>1, <2>2 DEF TypeOK, Main
<1>6. Sound'
  <2>1. InPool' = {} /\ DOMAIN pool' = {}
    BY <1>1 DEF InPool
  <2>2. \A t \in Sockets : t \notin (made + 1)..made'
    BY <1>1 DEF Sockets
  <2>3. \A t \in Sockets :
          \/ sock'[t] = sock[t]
          \/ t <= made /\ sock'[t].kind = sock[t].kind /\ sock'[t].state # "connecting"
    BY <1>1, <1>2, MadeFirst
  <2>4. ~Combined => pool' = <<>> /\ lists' = {}
    BY <1>1 DEF Sound
  <2> QED  BY <1>1, <2>1, <2>2, <2>3, <2>4, SoundStep
<1>7. WireAgrees'
  BY <1>4 DEF WireAgrees
<1> QED  BY <1>5, <1>6, <1>7 DEF Base

\* the end of a main socket, open or not
LEMMA MainEndsBase ==
  ASSUME Base, NEW s \in Sockets, sock[s].kind = "main", sock[s].state # "none",
         sock' = [sock EXCEPT ![s] = Ended(@)],
         main' \in Main, main'.entry = None, timers' \in Nat, watch' = {},
         starting' \in {"no", "connecting", "settled"}, faults' \in Nat,
         UNCHANGED <<ex, running, up, made, subs, pool, psubs, route, lists, changes, starts>>
  PROVE  Base'
<1>1. TypeOK /\ Sound /\ made \in Nat /\ made \in made..MaxSockets /\ InPool' = InPool
  BY MarketDataEngineAssumption DEF Base, TypeOK, InPool
<1>2. /\ sock' \in [Sockets -> Socket] /\ sock'[s] = Ended(sock[s])
      /\ Ended(sock[s]).kind = "main" /\ Ended(sock[s]).state = "closed"
      /\ \A t \in Sockets : t # s => sock'[t] = sock[t]
  BY <1>1, EndedTyped DEF TypeOK
<1>3. TypeOK'
  BY <1>1, <1>2 DEF TypeOK, Main
<1>4. Sound'
  <2>1. \A c \in InPool : sock'[c].kind = "pool" /\ sock'[c].state \in {"open", "closing"}
    BY <1>1, <1>2, PoolTyped DEF Sound
  <2>2. \A t \in Sockets : t \notin (made + 1)..made'
    BY <1>1 DEF Sockets
  <2>3. s <= made
    BY <1>1, MadeFirst
  <2>4. \A t \in Sockets :
          \/ sock'[t] = sock[t]
          \/ t <= made /\ sock'[t].kind = sock[t].kind /\ sock'[t].state # "connecting"
    BY <1>2, <2>3
  <2>5. ~Combined => pool' = <<>> /\ lists' = {}
    BY <1>1 DEF Sound
  <2>6. \A i, j \in DOMAIN pool' : pool'[i] = pool'[j] => i = j
    BY <1>1 DEF Sound
  <2> QED  BY <1>1, <2>1, <2>2, <2>4, <2>5, <2>6, SoundStep
<1>5. WireAgrees'
  BY DEF WireAgrees
<1> QED  BY <1>3, <1>4, <1>5 DEF Base

LEMMA MainClosesBase ==
  ASSUME Base, NEW s \in Sockets, sock[s].kind = "main", sock[s].state # "none",
         MainCloses(s), faults' \in Nat
  PROVE  Base'
<1>1. /\ main' \in Main /\ main'.entry = None /\ timers' \in Nat /\ watch' = {}
      /\ sock' = [sock EXCEPT ![s] = Ended(@)]
      /\ starting' \in {"no", "connecting", "settled"}
      /\ UNCHANGED <<ex, running, up, made, subs, pool, psubs, route, lists, changes, starts>>
  BY Closing DEF MainCloses, Base, TypeOK
<1> QED  BY <1>1, MainEndsBase

LEMMA MainConnectFailsBase ==
  ASSUME Base, NEW s \in Sockets, MainConnectFails(s)
  PROVE  Base'
<1>1. /\ main' \in Main /\ main'.entry = None /\ timers' \in Nat
  BY Closing, Rejected DEF MainConnectFails, Base
<1>2. starting' \in {"no", "connecting", "settled"} /\ faults' \in Nat
  BY DEF MainConnectFails, Settles, Base, TypeOK, May
<1>3. /\ watch' = {} /\ sock' = [sock EXCEPT ![s] = Ended(@)]
      /\ sock[s].kind = "main" /\ sock[s].state # "none"
      /\ UNCHANGED <<ex, running, up, made, subs, pool, psubs, route, lists, changes, starts>>
  BY DEF MainConnectFails
<1> QED  BY <1>1, <1>2, <1>3, MainEndsBase

LEMMA OpenedMain ==
  ASSUME TypeOK, NEW s \in Sockets
  PROVE  LET sk == [sock EXCEPT ![s].state = "open"] IN
           /\ sk \in [Sockets -> Socket]
           /\ \A t \in Sockets : t # s => sk[t] = sock[t]
           /\ sk[s].state = "open" /\ sk[s].kind = sock[s].kind /\ sk[s].by = sock[s].by
           /\ sk[s].wire = sock[s].wire /\ sk[s].keys = sock[s].keys
           /\ sk[s].rest = sock[s].rest
<1> DEFINE x == [sock[s] EXCEPT !.state = "open"]
<1>1. sock \in [Sockets -> Socket] /\ "open" \in States
  BY DEF TypeOK, States
<1>2. /\ x \in Socket /\ x.kind = sock[s].kind /\ x.by = sock[s].by /\ x.state = "open"
      /\ x.wire = sock[s].wire /\ x.keys = sock[s].keys /\ x.rest = sock[s].rest
  BY <1>1, SocketChanges
<1>3. [sock EXCEPT ![s].state = "open"] = [sock EXCEPT ![s] = x]
  OBVIOUS
<1> HIDE DEF x
<1> QED  BY <1>1, <1>2, <1>3

LEMMA MainOpensBase ==
  ASSUME Base, NEW s \in Sockets, MainOpens(s)
  PROVE  Base'
<1> DEFINE sk == [sock EXCEPT ![s].state = "open"]
<1>1. TypeOK /\ Sound /\ ex' = ex /\ pool' = pool /\ lists' = lists
      /\ sock[s].kind = "main" /\ sock[s].state = "connecting"
      /\ main' = [entry |-> s, connected |-> TRUE, reconnecting |-> FALSE, attempt |-> 0]
      /\ SubscribeAll(subs, {}, sk, s)
  BY DEF Base, MainOpens, Resubscribe
<1>2. /\ subs \in SUBSET Keys /\ {} \in SUBSET Keys /\ made \in Nat /\ ex \in Exchanges
      /\ sock \in [Sockets -> Socket]
  BY <1>1, MarketDataEngineAssumption DEF TypeOK
<1>3. /\ sk \in [Sockets -> Socket]
      /\ \A t \in Sockets : t # s => sk[t] = sock[t]
      /\ sk[s].state = "open" /\ sk[s].kind = "main" /\ sk[s].wire = sock[s].wire
  BY <1>1, OpenedMain
<1> HIDE DEF sk
<1>4. /\ subs' \in SUBSET Keys /\ made' \in made..MaxSockets
      /\ sock' \in [Sockets -> Socket]
      /\ psubs' \in [Sockets -> SUBSET Keys]
      /\ route' \in [Keys -> Sockets \cup {None}]
      /\ \A t \in Sockets : t \in (made + 1)..made' =>
           sock'[t].kind = "pool" /\ sock'[t].state = "connecting" /\ Combined
      /\ \A t \in Sockets : t \notin (made + 1)..made' =>
           \/ sock'[t] = sk[t]
           \/ sk[t].state = "open" /\ Alike(sk[t], sock'[t])
  BY <1>1, <1>2, <1>3, SubscribeFrame
<1>5. TypeOK'
  <2>1. made' \in 0..MaxSockets
    BY <1>2, <1>4, MarketDataEngineAssumption
  <2>2. main' \in Main
    <3>1. s \in Sockets \cup {None} /\ TRUE \in BOOLEAN /\ FALSE \in BOOLEAN
          /\ 0 \in 0..MaxAttempts
      BY MarketDataEngineAssumption
    <3>2. [entry |-> s, connected |-> TRUE, reconnecting |-> FALSE, attempt |-> 0] \in Main
      BY <3>1, MainBuilt
    <3> QED  BY <1>1, <3>2
  <2>3. starting' \in {"no", "connecting", "settled"}
    BY <1>1 DEF MainOpens, Settles, TypeOK
  <2>4. watch' \subseteq Sockets \cup {0}
    BY <1>1 DEF MainOpens, TypeOK
  <2>5. UNCHANGED <<ex, running, up, timers, pool, lists, faults, changes, starts>>
    BY DEF MainOpens, bounds
  <2> QED  BY <1>1, <1>4, <2>1, <2>2, <2>3, <2>4, <2>5 DEF TypeOK, Main
<1>6. Sound'
  <2>1. \A c \in InPool : sock'[c].kind = "pool" /\ sock'[c].state \in {"open", "closing"}
    <3> SUFFICES ASSUME NEW c \in InPool
                 PROVE  sock'[c].kind = "pool" /\ sock'[c].state \in {"open", "closing"}
      OBVIOUS
    <3>1. /\ c \in Sockets /\ c # s
          /\ sock[c].kind = "pool" /\ sock[c].state \in {"open", "closing"}
      BY <1>1, PoolTyped DEF Sound
    <3>2. c <= made /\ c \in Nat
      BY <1>1, <3>1, MadeFirst DEF Sockets
    <3>3. c \notin (made + 1)..made'
      BY <1>2, <3>2
    <3> QED  BY <1>3, <1>4, <3>1, <3>3 DEF Alike
  <2>2. InPool' = InPool
    BY <1>1 DEF InPool
  <2>3. ASSUME NEW t \in Sockets, t \notin (made + 1)..made'
        PROVE  \/ sock'[t] = sock[t]
               \/ t <= made /\ sock'[t].kind = sock[t].kind /\ sock'[t].state # "connecting"
    <3>1. CASE t = s
      <4>1. t <= made
        BY <1>1, <3>1, MadeFirst
      <4> QED  BY <1>1, <1>3, <1>4, <2>3, <3>1, <4>1 DEF Alike
    <3>2. CASE t # s
      <4>1. sk[t] = sock[t]
        BY <1>3, <3>2
      <4>2. sock[t].state = "open" => t <= made
        BY <1>1, MadeFirst
      <4> QED  BY <1>4, <2>3, <4>1, <4>2 DEF Alike
    <3> QED  BY <3>1, <3>2
  <2>4. ~Combined => pool' = <<>> /\ lists' = {}
    BY <1>1 DEF Sound
  <2>5. \A i, j \in DOMAIN pool' : pool'[i] = pool'[j] => i = j
    BY <1>1 DEF Sound
  <2> QED  BY <1>1, <1>4, <2>1, <2>2, <2>3, <2>4, <2>5, SoundStep
<1>7. WireAgrees'
  <2> DEFINE N == subs \ {}
  <2>1. sock[s].wire = {} /\ main'.entry = s /\ Streams(subs)' = Streams(subs')
    BY <1>1 DEF Sound, Streams, Channel
  <2>2. CASE Combined
    BY <1>1, <2>2, SameExchange DEF WireAgrees
  <2>3. CASE ~Combined /\ Nowhere(N, {}, sk, s)
    <3>1. subs' = {} /\ sock' = sk
      BY <2>3 DEF Nowhere
    <3>2. sock'[s].wire = Streams(subs')
      BY <1>3, <2>1, <3>1, StreamsUnion
    <3> QED  BY <2>1, <3>2 DEF WireAgrees
  <2>4. CASE OverMain(N, {}, sk, s)
    <3>1. sock'[s].wire = sk[s].wire \cup Streams(N) /\ subs' = {} \cup N
      BY <1>2, <1>3, <2>4, Rewired DEF OverMain
    <3>2. sock'[s].wire = Streams(subs')
      BY <1>3, <2>1, <3>1
    <3> QED  BY <2>1, <3>2 DEF WireAgrees
  <2>5. Combined \/ Nowhere(N, {}, sk, s) \/ OverMain(N, {}, sk, s)
    BY <1>1, <1>2, <1>3, SubscribeCases DEF OverPool, OverNew
  <2> QED  BY <2>2, <2>3, <2>4, <2>5
<1> QED  BY <1>5, <1>6, <1>7 DEF Base

\* what a connection of the pool leaves in memory when it opens
LEMMA PoolOpening ==
  ASSUME TypeOK, Sound, NEW s \in Sockets, PoolOpens(s)
  PROVE  /\ Combined /\ s \notin InPool
         /\ made' \in made..MaxSockets /\ sock' \in [Sockets -> Socket]
         /\ sock'[s].state = "open" /\ sock'[s].kind = "pool" /\ sock'[s].by = sock[s].by
         /\ s \notin (made + 1)..made'
         /\ \A t \in Sockets \ {s} : t \notin (made + 1)..made' => sock'[t] = sock[t]
         /\ \A t \in Sockets : t \in (made + 1)..made' =>
              /\ sock'[t].kind = "pool" /\ sock'[t].state = "connecting"
              /\ sock'[t].keys = sock[s].rest
         /\ sock[s].rest # {} => made + 1 \in Sockets /\ made + 1 \in (made + 1)..made'
<1>1. sock[s].kind = "pool" /\ sock[s].state = "connecting"
  BY DEF PoolOpens
<1>2. Combined /\ s \notin InPool
  BY <1>1 DEF Sound
<1>3. s <= made /\ s \in Nat /\ made \in Nat /\ made <= MaxSockets /\ sock[s] \in Socket
      /\ MaxSockets \in Nat
  BY <1>1, Numbered
<1>4. CASE sock[s].rest = {}
  <2> DEFINE x == [sock[s] EXCEPT !.state = "open"]
  <2>1. "open" \in States
    BY DEF States
  <2>2. x \in Socket /\ x.kind = sock[s].kind /\ x.by = sock[s].by /\ x.state = "open"
    BY <1>3, <2>1, SocketChanges
  <2>3. made' = made /\ sock' = [sock EXCEPT ![s] = x]
    BY <1>4 DEF PoolOpens
  <2> HIDE DEF x
  <2>4. \A t \in Sockets : t \notin (made + 1)..made'
    BY <1>3, <2>3 DEF Sockets
  <2>5. made' \in made..MaxSockets
    BY <1>3, <2>3
  <2>6. sock \in [Sockets -> Socket]
    BY DEF TypeOK
  <2>7. /\ sock' \in [Sockets -> Socket] /\ sock'[s] = x
        /\ \A t \in Sockets : t # s => sock'[t] = sock[t]
    BY <2>2, <2>3, <2>6
  <2>8. \A t \in Sockets \ {s} : sock'[t] = sock[t]
    BY <2>7
  <2>9. sock'[s].state = "open" /\ sock'[s].kind = "pool" /\ sock'[s].by = sock[s].by
    BY <1>1, <2>2, <2>7
  <2>10. s \notin (made + 1)..made'
    BY <2>4
  <2> HIDE DEF x
  <2> QED  BY <1>2, <1>4, <2>4, <2>5, <2>7, <2>8, <2>9, <2>10
<1>5. CASE sock[s].rest # {}
  <2> DEFINE x == [sock[s] EXCEPT !.state = "open", !.rest = {}]
             n == NewSocket("pool", "list", sock[s].rest, {})
  <2>1. x \in Socket /\ x.kind = sock[s].kind /\ x.by = sock[s].by /\ x.state = "open"
    BY <1>3, Opened
  <2>2. /\ n \in Socket /\ n.kind = "pool" /\ n.state = "connecting"
        /\ n.keys = sock[s].rest
    <3>1. "pool" \in Kinds /\ "list" \in Makers /\ {} \in SUBSET Keys
          /\ sock[s].rest \in SUBSET Keys /\ ex \in Exchanges
      BY <1>3, Fields DEF Kinds, Makers, TypeOK
    <3>2. \A L \in SUBSET Keys, R \in SUBSET Keys :
            LET y == NewSocket("pool", "list", L, R)
            IN  y \in Socket /\ y.kind = "pool" /\ y.state = "connecting" /\ y.keys = L
      BY NewSocketTyped DEF TypeOK, Kinds, Makers
    <3> QED  BY <3>1, <3>2
  <2>3. made' = made + 1 /\ made + 1 <= MaxSockets
        /\ sock' = [sock EXCEPT ![s].state = "open", ![s].rest = {}, ![made + 1] = n]
    BY <1>5 DEF PoolOpens, RoomForPool
  <2>4. s # made + 1 /\ made + 1 \in Sockets /\ made' \in made..MaxSockets
        /\ s \notin (made + 1)..made' /\ made + 1 \in (made + 1)..made'
        /\ \A t \in Sockets : t \in (made + 1)..made' => t = made + 1
    BY <1>3, <2>3 DEF Sockets
  <2>5. sock' = [[sock EXCEPT ![s] = x] EXCEPT ![made + 1] = n]
    <3> HIDE DEF n
    <3>1. sock \in [Sockets -> Socket]
      BY DEF TypeOK
    <3>2. [sock EXCEPT ![s].state = "open", ![s].rest = {}] = [sock EXCEPT ![s] = x]
      BY <3>1
    <3> QED  BY <2>3, <3>2
  <2> HIDE DEF x, n
  <2>6. /\ sock' \in [Sockets -> Socket] /\ sock'[s] = x /\ sock'[made + 1] = n
        /\ \A t \in Sockets : t # s /\ t # made + 1 => sock'[t] = sock[t]
    BY <2>1, <2>2, <2>4, <2>5 DEF TypeOK
  <2> QED  BY <1>1, <1>2, <2>1, <2>2, <2>4, <2>6
<1> QED  BY <1>4, <1>5

LEMMA PoolOpensBase ==
  ASSUME Base, NEW s \in Sockets, PoolOpens(s)
  PROVE  Base'
<1>1. TypeOK /\ Sound /\ ex' = ex /\ lists' = lists /\ pool' = Append(pool, s)
  BY DEF Base, PoolOpens
<1>2. /\ Combined /\ s \notin InPool
      /\ made' \in made..MaxSockets /\ sock' \in [Sockets -> Socket]
      /\ sock'[s].state = "open" /\ sock'[s].kind = "pool"
      /\ s \notin (made + 1)..made'
      /\ \A t \in Sockets \ {s} : t \notin (made + 1)..made' => sock'[t] = sock[t]
      /\ \A t \in Sockets : t \in (made + 1)..made' => sock'[t].kind = "pool"
  BY <1>1, PoolOpening
<1>3. /\ pool' \in Seq(Sockets) /\ InPool' = InPool \cup {s}
      /\ \A i, j \in DOMAIN pool' : pool'[i] = pool'[j] => i = j
  BY <1>1, <1>2, PoolAppends
<1>4. made \in Nat /\ sock[s] \in Socket /\ sock[s].kind = "pool"
      /\ sock[s].state = "connecting"
  BY <1>1, MarketDataEngineAssumption DEF TypeOK, PoolOpens
<1>5. sock[s].keys \in SUBSET Keys
  BY <1>4, Fields
<1>6. TypeOK'
  <2>1. made' \in 0..MaxSockets
    BY <1>2, <1>4, MarketDataEngineAssumption
  <2>2. main' \in Main
    <3> DEFINE m == [main EXCEPT !.connected = TRUE, !.reconnecting = FALSE, !.attempt = 0]
    <3>1. main \in Main /\ 0 \in 0..MaxAttempts
      BY <1>1, MainFields, MarketDataEngineAssumption
    <3>2. m \in Main
      BY <3>1 DEF Main
    <3> QED  BY <3>2 DEF PoolOpens
  <2>3. psubs' \in [Sockets -> SUBSET Keys] /\ route' \in [Keys -> Sockets \cup {None}]
        /\ subs' \subseteq Keys
    BY <1>1, <1>5 DEF PoolOpens, TypeOK
  <2>4. watch' \subseteq Sockets \cup {0}
    BY <1>1 DEF PoolOpens, TypeOK
  <2>5. UNCHANGED <<ex, running, starting, up, timers, lists, faults, changes, starts>>
    BY DEF PoolOpens, bounds
  <2> QED  BY <1>1, <1>2, <1>3, <2>1, <2>2, <2>3, <2>4, <2>5 DEF TypeOK, Main
<1>7. Sound'
  <2>1. \A c \in InPool' : sock'[c].kind = "pool" /\ sock'[c].state \in {"open", "closing"}
    <3> SUFFICES ASSUME NEW c \in InPool, c # s
                 PROVE  sock'[c].kind = "pool" /\ sock'[c].state \in {"open", "closing"}
      BY <1>2, <1>3
    <3>1. c \in Sockets /\ sock[c].kind = "pool" /\ sock[c].state \in {"open", "closing"}
      BY <1>1, PoolTyped DEF Sound
    <3>2. c <= made /\ c \in Nat
      BY <1>1, <3>1, MadeFirst DEF Sockets
    <3>3. c \notin (made + 1)..made'
      BY <1>4, <3>2
    <3> QED  BY <1>2, <3>1, <3>3
  <2>2. s <= made
    BY <1>1, <1>4, MadeFirst
  <2>3. \A t \in Sockets : t \notin (made + 1)..made' =>
          \/ sock'[t] = sock[t]
          \/ t <= made /\ sock'[t].kind = sock[t].kind /\ sock'[t].state # "connecting"
    BY <1>2, <1>4, <2>2
  <2> QED  BY <1>1, <1>2, <1>3, <2>1, <2>3, SoundStep
<1>8. WireAgrees'
  BY <1>1, <1>2, SameExchange DEF WireAgrees
<1> QED  BY <1>6, <1>7, <1>8 DEF Base

\* a connection of the pool, open or not, is gone
LEMMA PoolClosesBase ==
  ASSUME Base, NEW s \in Sockets, sock[s].kind = "pool", sock[s].state # "none",
         NEW end \in {"closed", "failed"}, PoolCloses(s, end), faults' \in Nat
  PROVE  Base'
<1>1. TypeOK /\ Sound /\ ex' = ex /\ made' = made /\ pool' = Without(s)
  BY DEF Base, PoolCloses
<1>2. made \in Nat /\ made \in made..MaxSockets /\ sock \in [Sockets -> Socket]
      /\ ex \in Exchanges
  BY <1>1, MarketDataEngineAssumption DEF TypeOK
<1>3. Combined
  BY <1>1 DEF Sound
<1>4. /\ pool' \in Seq(Sockets) /\ InPool' = InPool \ {s}
      /\ \A i, j \in DOMAIN pool' : pool'[i] = pool'[j] => i = j
  BY <1>1, PoolRemoves
<1>5. /\ sock' \in [Sockets -> Socket]
      /\ sock'[s].kind = "pool" /\ sock'[s].state = end
      /\ \A t \in Sockets : t # s => sock'[t] = sock[t]
  <2> DEFINE x == [Ended(sock[s]) EXCEPT !.state = end]
  <2>1. x \in Socket /\ x.kind = "pool" /\ x.state = end
    BY <1>2, EndedTyped
  <2>2. sock' = [sock EXCEPT ![s] = x]
    BY DEF PoolCloses
  <2> HIDE DEF x
  <2> QED  BY <1>2, <2>1, <2>2
<1>6. TypeOK'
  <2>1. main' \in Main
    <3>1. main \in Main /\ (main.connected /\ pool' # <<>>) \in BOOLEAN
      BY <1>1, MainFields
    <3>2. main' = [main EXCEPT !.connected = main.connected /\ pool' # <<>>]
      BY DEF PoolCloses
    <3>3. \A b \in BOOLEAN : [main EXCEPT !.connected = b] \in Main
      BY <3>1, MainSettles
    <3> QED  BY <3>1, <3>2, <3>3
  <2>2. /\ psubs' \in [Sockets -> SUBSET Keys] /\ route' \in [Keys -> Sockets \cup {None}]
        /\ lists' \subseteq [keys : SUBSET Keys, from : Sockets]
    <3>1. psubs[s] \in SUBSET Keys
      BY <1>1 DEF TypeOK
    <3>2. [keys |-> psubs[s], from |-> s] \in [keys : SUBSET Keys, from : Sockets]
      BY <3>1
    <3>3. psubs' \in [Sockets -> SUBSET Keys]
      BY <1>1 DEF PoolCloses, TypeOK
    <3>4. route' \in [Keys -> Sockets \cup {None}]
      BY <1>1 DEF PoolCloses, TypeOK
    <3>5. lists' \subseteq lists \cup {[keys |-> psubs[s], from |-> s]}
      BY DEF PoolCloses
    <3> QED  BY <1>1, <3>2, <3>3, <3>4, <3>5 DEF TypeOK
  <2>3. watch' \subseteq Sockets \cup {0}
    BY <1>1 DEF PoolCloses, TypeOK
  <2>4. UNCHANGED <<ex, running, starting, up, timers, made, subs, changes, starts>>
    BY DEF PoolCloses
  <2> QED  BY <1>1, <1>4, <1>5, <2>1, <2>2, <2>3, <2>4 DEF TypeOK, Main
<1>7. Sound'
  <2>1. \A c \in InPool' : sock'[c].kind = "pool" /\ sock'[c].state \in {"open", "closing"}
    BY <1>1, <1>4, <1>5, PoolTyped DEF Sound
  <2>2. \A t \in Sockets : t \notin (made + 1)..made'
    BY <1>1, <1>2 DEF Sockets
  <2>3. s <= made
    BY <1>1, MadeFirst
  <2>4. \A t \in Sockets :
          \/ sock'[t] = sock[t]
          \/ t <= made /\ sock'[t].kind = sock[t].kind /\ sock'[t].state # "connecting"
    BY <1>5, <2>3
  <2> QED  BY <1>1, <1>2, <1>3, <1>4, <2>1, <2>2, <2>4, SoundStep
<1>8. WireAgrees'
  BY <1>1, <1>3, SameExchange DEF WireAgrees
<1> QED  BY <1>6, <1>7, <1>8 DEF Base

\* the timer of a list: a connection for the first chunk, the rest behind it
LEMMA ListOpening ==
  ASSUME TypeOK, Sound, NEW l \in lists, ListTimer(l), running
  PROVE  \E chunk \in SUBSET l.keys :
           LET x == NewSocket("pool", "list", chunk, l.keys \ chunk) IN
             /\ x \in Socket /\ x.kind = "pool" /\ x.state = "connecting"
             /\ x.keys = chunk /\ x.rest = l.keys \ chunk
             /\ made + 1 <= MaxSockets /\ made' = made + 1
             /\ sock' = [sock EXCEPT ![made + 1] = x]
<1>1. l.keys \in SUBSET Keys
  BY DEF TypeOK
<1>2. PICK chunk \in SUBSET l.keys :
        /\ made + 1 <= MaxSockets /\ made' = made + 1
        /\ sock' = [sock EXCEPT ![made + 1] = NewSocket("pool", "list", chunk, l.keys \ chunk)]
  BY DEF ListTimer, RoomForPool
<1> DEFINE x == NewSocket("pool", "list", chunk, l.keys \ chunk)
<1>3. /\ x \in Socket /\ x.kind = "pool" /\ x.state = "connecting"
      /\ x.keys = chunk /\ x.rest = l.keys \ chunk
  <2>1. chunk \in SUBSET Keys /\ l.keys \ chunk \in SUBSET Keys
    BY <1>1
  <2>2. \A L \in SUBSET Keys, R \in SUBSET Keys :
          LET y == NewSocket("pool", "list", L, R)
          IN  /\ y \in Socket /\ y.kind = "pool" /\ y.state = "connecting"
              /\ y.keys = L /\ y.rest = R
    BY NewSocketTyped DEF TypeOK, Kinds, Makers
  <2> QED  BY <2>1, <2>2
<1> QED  BY <1>2, <1>3

LEMMA ListTimerBase ==
  ASSUME Base, NEW l \in lists, ListTimer(l)
  PROVE  Base'
<1>1. TypeOK /\ Sound /\ made \in Nat /\ made \in made..MaxSockets
  BY MarketDataEngineAssumption DEF Base, TypeOK
<1>2. Combined
  BY <1>1 DEF Sound
<1>3. /\ UNCHANGED <<ex, running, starting, up, main, timers, subs, pool, psubs, route, watch>>
      /\ UNCHANGED <<faults, changes, starts>> /\ lists' = lists \ {l}
  BY DEF ListTimer, bounds
<1>4. WireAgrees'
  BY <1>2, <1>3, SameExchange DEF WireAgrees
<1>5. CASE ~running
  <2>1. UNCHANGED <<sock, made>>
    BY <1>5 DEF ListTimer
  <2>2. TypeOK'
    BY <1>1, <1>3, <2>1 DEF TypeOK
  <2>3. Sound'
    BY <1>1, <1>2, <1>3, <2>1, SameExchange DEF Sound, InPool
  <2> QED  BY <1>4, <2>2, <2>3 DEF Base
<1>6. CASE running
  <2>1. PICK x \in Socket : /\ x.kind = "pool" /\ x.state = "connecting"
                            /\ made + 1 <= MaxSockets /\ made' = made + 1
                            /\ sock' = [sock EXCEPT ![made + 1] = x]
    BY <1>1, <1>6, ListOpening
  <2>2. /\ made + 1 \in Sockets /\ made' \in made..MaxSockets /\ made' \in 0..MaxSockets
        /\ sock' \in [Sockets -> Socket] /\ sock'[made + 1] = x
        /\ \A t \in Sockets : t # made + 1 => sock'[t] = sock[t]
        /\ \A t \in Sockets : t \in (made + 1)..made' <=> t = made + 1
        /\ made + 1 \notin InPool
    BY <1>1, <2>1, OneMore
  <2>3. TypeOK'
    BY <1>1, <1>3, <2>2 DEF TypeOK
  <2>4. Sound'
    <3>1. InPool' = InPool
      BY <1>3 DEF InPool
    <3>2. \A c \in InPool : sock'[c].kind = "pool" /\ sock'[c].state \in {"open", "closing"}
      BY <1>1, <2>2, PoolTyped DEF Sound
    <3>3. \A i, j \in DOMAIN pool' : pool'[i] = pool'[j] => i = j
      BY <1>1, <1>3 DEF Sound
    <3> QED  BY <1>1, <1>2, <1>3, <2>1, <2>2, <3>1, <3>2, <3>3, SoundStep
  <2> QED  BY <1>4, <2>3, <2>4 DEF Base
<1> QED  BY <1>5, <1>6

LEMMA SocketsCloseBase ==
  ASSUME Base, NEW s \in Sockets, Drops(s) \/ CloseArrives(s)
  PROVE  Base'
<1>1. sock[s].state # "none" /\ Closes(s) /\ faults' \in Nat
  BY DEF Drops, CloseArrives, May, Base, TypeOK
<1>2. CASE sock[s].kind = "main"
  BY <1>1, <1>2, MainClosesBase DEF Closes
<1>3. CASE sock[s].kind # "main"
  <2>1. sock[s].kind = "pool" /\ "closed" \in {"closed", "failed"}
    BY <1>3 DEF Base, TypeOK, Socket
  <2> QED  BY <1>1, <1>3, <2>1, PoolClosesBase DEF Closes
<1> QED  BY <1>2, <1>3

LEMMA PoolConnectFailsBase ==
  ASSUME Base, NEW s \in Sockets, PoolConnectFails(s)
  PROVE  Base'
<1>1. /\ sock[s].kind = "pool" /\ sock[s].state # "none" /\ PoolCloses(s, "failed")
      /\ "failed" \in {"closed", "failed"} /\ faults' \in Nat
  BY DEF PoolConnectFails, May, Base, TypeOK
<1> QED  BY <1>1, PoolClosesBase

LEMMA StutterBase ==
  ASSUME Base, UNCHANGED vars
  PROVE  Base'
<1>1. TypeOK'
  BY DEF Base, vars, bounds, TypeOK
<1>2. Sound'
  BY SameExchange DEF Base, vars, Sound, InPool
<1>3. Unshared => WireAgrees'
  BY WireKept DEF Base, vars
<1> QED  BY <1>1, <1>2, <1>3 DEF Base

LEMMA InitBase ==
  Init => Base
<1> SUFFICES ASSUME Init PROVE Base
  OBVIOUS
<1>1. ex \in Exchanges /\ Unmade \in Socket
  BY UnmadeTyped DEF Init
<1>2. TypeOK
  <2>1. main \in Main
    <3>1. None \in Sockets \cup {None} /\ FALSE \in BOOLEAN /\ 0 \in 0..MaxAttempts
      BY MarketDataEngineAssumption
    <3>2. [entry |-> None, connected |-> FALSE, reconnecting |-> FALSE, attempt |-> 0] \in Main
      BY <3>1, MainBuilt
    <3> QED  BY <3>2 DEF Init
  <2>2. sock \in [Sockets -> Socket] /\ made \in 0..MaxSockets
    BY <1>1, MarketDataEngineAssumption DEF Init
  <2>3. pool \in Seq(Sockets)
    BY DEF Init
  <2>4. /\ psubs \in [Sockets -> SUBSET Keys] /\ route \in [Keys -> Sockets \cup {None}]
        /\ subs \subseteq Keys /\ watch \subseteq Sockets \cup {0}
        /\ lists \subseteq [keys : SUBSET Keys, from : Sockets]
    BY DEF Init
  <2>5. /\ running \in BOOLEAN /\ up \in BOOLEAN
        /\ starting \in {"no", "connecting", "settled"}
    BY DEF Init
  <2>6. timers \in Nat /\ {faults, changes, starts} \subseteq Nat
    BY DEF Init
  <2> QED  BY <1>1, <2>1, <2>2, <2>3, <2>4, <2>5, <2>6 DEF TypeOK, Main
<1>3. Sound
  <2>1. InPool = {} /\ DOMAIN pool = {}
    BY DEF Init, InPool
  <2>2. \A s \in Sockets : sock[s] = Unmade /\ Unmade.kind = "main" /\ Unmade.state = "none"
    BY <1>1, UnmadeTyped DEF Init
  <2> QED  BY <2>1, <2>2 DEF Init, Sound
<1>4. WireAgrees
  BY DEF Init, WireAgrees
<1> QED  BY <1>2, <1>3, <1>4 DEF Base

LEMMA NextBase ==
  ASSUME Base, [Next]_vars
  PROVE  Base'
<1>1. CASE Start \/ StartReturns \/ Stop \/ TimerFires
  BY <1>1, StartBase, StartReturnsBase, StopBase
<1>2. CASE \E K \in SUBSET Keys \ {{}} : Subscribe(K)
  BY <1>2, SubscribeBase
<1>3. CASE \E k \in Keys : Unsubscribe(k)
  BY <1>3, UnsubscribeBase
<1>4. ASSUME NEW s \in Sockets,
             Opens(s) \/ ConnectFails(s) \/ Drops(s) \/ CloseArrives(s) \/ FallsSilent(s)
      PROVE  Base'
  <2>1. CASE Opens(s)
    BY <2>1, MainOpensBase, PoolOpensBase DEF Opens
  <2>2. CASE ConnectFails(s)
    BY <2>2, MainConnectFailsBase, PoolConnectFailsBase DEF ConnectFails
  <2>3. CASE Drops(s) \/ CloseArrives(s)
    BY <2>3, SocketsCloseBase
  <2>4. CASE FallsSilent(s)
    BY <2>4, SilenceBase
  <2> QED  BY <1>4, <2>1, <2>2, <2>3, <2>4
<1>5. CASE \E l \in lists : ListTimer(l)
  BY <1>5, ListTimerBase
<1>6. CASE \E w \in watch : DataTimeout(w)
  BY <1>6, TimeoutBase
<1>7. CASE UNCHANGED vars
  BY <1>7, StutterBase
<1> QED  BY <1>1, <1>2, <1>3, <1>4, <1>5, <1>6, <1>7 DEF Next

\* The types of every variable: the status of the main socket keeps its attempts within
\* the configured limit, and the pool and the routes name sockets that exist.
THEOREM Typing == Spec => []TypeOK
<1>1. Init => Base
  BY InitBase
<1>2. Base /\ [Next]_vars => Base'
  BY NextBase
<1>3. Base => TypeOK
  BY DEF Base
<1> QED  BY <1>1, <1>2, <1>3, PTL DEF Spec

LEMMA Sounding == Spec => [](Base /\ ex \in Exchanges)
<1>1. Init => Base
  BY InitBase
<1>2. Base /\ [Next]_vars => Base'
  BY NextBase
<1>3. Base => ex \in Exchanges
  BY DEF Base, TypeOK
<1> QED  BY <1>1, <1>2, <1>3, PTL DEF Spec

\* What the exchange sends over the open main socket is what is subscribed: through
\* every reconnection, resubscription and change, whatever fails, when no two of the types
\* share a channel of an exchange and the handler of each exchange takes a type for what
\* it was subscribed for.
THEOREM WireIsWhatIsSubscribed ==
  ASSUME Unshared,
         \A e \in Exchanges : \A k \in Keys : k \in Serves(e, ChannelTable(e, Spot)[k], Spot)
  PROVE  Spec => []SubsOnWire
<1>1. Base /\ ex \in Exchanges => SubsOnWire
  <2> SUFFICES ASSUME Base, ex \in Exchanges PROVE SubsOnWire
    OBVIOUS
  <2>1. \A k \in subs : k \in Serves(ex, Channel[k], Spot)
    BY DEF Channel, Base, TypeOK
  <2> QED  BY <2>1 DEF Base, WireAgrees, SubsOnWire
<1> QED  BY <1>1, Sounding, PTL

-----------------------------------------------------------------------------
(* The tables for which the hypotheses hold *)

Distinct(t) == \A k, l \in DataTypes : t[k] = t[l] => k = l

\* the channels of the perpetual markets of these exchanges, one for each type, which
\* their handlers take for that type
LEMMA BinanceTable ==
  LET t == ChannelTable("binance", FALSE) IN
    Distinct(t) /\ \A k \in DataTypes : k \in Serves("binance", t[k], FALSE)
<1>1. ChannelTable("binance", FALSE) = BinanceChannel(FALSE)
  BY DEF ChannelTable
<1>2. \A ch : Serves("binance", ch, FALSE) = BinanceServes(ch, FALSE)
  BY DEF Serves
<1>3. Distinct(BinanceChannel(FALSE))
  BY DEF Distinct, BinanceChannel, Table, DataTypes
<1>4. \A k \in DataTypes : k \in BinanceServes(BinanceChannel(FALSE)[k], FALSE)
  BY DEF BinanceChannel, BinanceServes, Dispatched, Table, DataTypes
<1> QED  BY <1>1, <1>2, <1>3, <1>4

LEMMA OKXTable ==
  LET t == ChannelTable("okx", FALSE) IN
    Distinct(t) /\ \A k \in DataTypes : k \in Serves("okx", t[k], FALSE)
<1>1. ChannelTable("okx", FALSE) = OKXChannel(FALSE)
  BY DEF ChannelTable
<1>2. \A ch : Serves("okx", ch, FALSE) = OKXServes(ch, FALSE)
  BY DEF Serves
<1>3. Distinct(OKXChannel(FALSE))
  BY DEF Distinct, OKXChannel, Table, DataTypes
<1>4. \A k \in DataTypes : k \in OKXServes(OKXChannel(FALSE)[k], FALSE)
  BY DEF OKXChannel, OKXServes, Dispatched, Table, DataTypes
<1> QED  BY <1>1, <1>2, <1>3, <1>4

LEMMA DeribitTable ==
  LET t == ChannelTable("deribit", FALSE) IN
    Distinct(t) /\ \A k \in DataTypes : k \in Serves("deribit", t[k], FALSE)
<1>1. ChannelTable("deribit", FALSE) = DeribitChannel(TRUE)
  BY DEF ChannelTable
<1>2. \A ch : Serves("deribit", ch, FALSE) = DeribitServes(ch, FALSE)
  BY DEF Serves
<1>3. Distinct(DeribitChannel(TRUE))
  BY DEF Distinct, DeribitChannel, Table, DataTypes
<1>4. \A k \in DataTypes : k \in DeribitServes(DeribitChannel(TRUE)[k], FALSE)
  BY DEF DeribitChannel, DeribitServes, Dispatched, Table, DataTypes
<1> QED  BY <1>1, <1>2, <1>3, <1>4

LEMMA KuCoinTable ==
  LET t == ChannelTable("kucoin", FALSE) IN
    Distinct(t) /\ \A k \in DataTypes : k \in Serves("kucoin", t[k], FALSE)
<1>1. ChannelTable("kucoin", FALSE) = KuCoinChannel(FALSE)
  BY DEF ChannelTable
<1>2. \A ch : Serves("kucoin", ch, FALSE) = KuCoinServes(ch, FALSE)
  BY DEF Serves
<1>3. Distinct(KuCoinChannel(FALSE))
  BY DEF Distinct, KuCoinChannel, Table, DataTypes
<1>4. \A k \in DataTypes : k \in KuCoinServes(KuCoinChannel(FALSE)[k], FALSE)
  BY DEF KuCoinChannel, KuCoinServes, Dispatched, Table, DataTypes
<1> QED  BY <1>1, <1>2, <1>3, <1>4

\* On the perpetual markets of these four exchanges the hypotheses hold, whatever the
\* types: what they send is what is subscribed.
THEOREM PerpetualWire ==
  ASSUME Exchanges \subseteq {"binance", "okx", "deribit", "kucoin"}, Spot = FALSE
  PROVE  Spec => []SubsOnWire
<1>1. \A e \in Exchanges :
        LET t == ChannelTable(e, Spot) IN
          Distinct(t) /\ \A k \in DataTypes : k \in Serves(e, t[k], Spot)
  BY BinanceTable, OKXTable, DeribitTable, KuCoinTable
<1>2. Unshared
  BY <1>1, MarketDataEngineAssumption DEF Unshared, Distinct
<1>3. \A e \in Exchanges : \A k \in Keys : k \in Serves(e, ChannelTable(e, Spot)[k], Spot)
  BY <1>1, MarketDataEngineAssumption
<1> QED  BY <1>2, <1>3, WireIsWhatIsSubscribed

-----------------------------------------------------------------------------
(* How a socket ages *)

LiveStates == {"connecting", "open", "closing"}

\* A socket keeps its kind and its maker, does not come back to life, and while it is
\* connecting nothing about it changes; one that failed stays failed.
Steady(t) ==
  /\ sock'[t].kind = sock[t].kind /\ sock'[t].by = sock[t].by
  /\ sock'[t].state \in LiveStates => sock[t].state \in LiveStates
  /\ sock'[t].state = "connecting" => sock'[t] = sock[t]
  /\ sock[t].state = "failed" => sock'[t].state = "failed"

\* a socket made in this step
Born(t) ==
  /\ t \in (made + 1)..made' /\ sock'[t].state = "connecting"
  /\ \/ sock'[t].kind = "pool"
     \/ /\ sock'[t].kind = "main" /\ t = made + 1
        /\ \/ Start /\ sock'[t].by = "start"
           \/ TimerFires /\ running /\ sock'[t].by = "timer"

LEMMA SameSocketAges ==
  ASSUME NEW t \in Sockets, sock'[t] = sock[t]
  PROVE  Steady(t)
BY DEF Steady

\* one live socket is replaced by what it has become
LEMMA OneAges ==
  ASSUME TypeOK, NEW s \in Sockets, NEW x \in Socket, sock' = [sock EXCEPT ![s] = x],
         sock[s].state \in LiveStates, x.kind = sock[s].kind, x.by = sock[s].by,
         x.state # "connecting"
  PROVE  \A t \in Sockets : Steady(t)
<1>1. sock' \in [Sockets -> Socket] /\ sock'[s] = x
      /\ \A t \in Sockets : t # s => sock'[t] = sock[t]
  BY DEF TypeOK
<1>2. Steady(s)
  BY <1>1 DEF Steady, LiveStates
<1> QED  BY <1>1, <1>2, SameSocketAges

LEMMA EndAges ==
  ASSUME TypeOK, NEW s \in Sockets, sock[s].state \in LiveStates,
         \/ sock' = [sock EXCEPT ![s] = Ended(@)]
         \/ \E end \in {"closed", "failed"} :
              sock' = [sock EXCEPT ![s] = [Ended(@) EXCEPT !.state = end]]
  PROVE  \A t \in Sockets : Steady(t)
<1>1. PICK x \in Socket : /\ sock' = [sock EXCEPT ![s] = x]
                          /\ x.kind = sock[s].kind /\ x.by = sock[s].by
                          /\ x.state \in {"closed", "failed"}
  <2>1. ex \in Exchanges /\ sock[s] \in Socket
    BY DEF TypeOK
  <2>2. /\ Ended(sock[s]) \in Socket /\ Ended(sock[s]).kind = sock[s].kind
        /\ Ended(sock[s]).by = sock[s].by /\ Ended(sock[s]).state = "closed"
        /\ \A end \in {"closed", "failed"} :
             LET n == [Ended(sock[s]) EXCEPT !.state = end]
             IN  /\ n \in Socket /\ n.kind = sock[s].kind /\ n.by = sock[s].by
                 /\ n.state = end
    BY <2>1, EndedTyped
  <2>3. CASE sock' = [sock EXCEPT ![s] = Ended(@)]
    BY <2>2, <2>3
  <2>4. CASE \E end \in {"closed", "failed"} :
               sock' = [sock EXCEPT ![s] = [Ended(@) EXCEPT !.state = end]]
    BY <2>2, <2>4
  <2> QED  BY <2>3, <2>4
<1> QED  BY <1>1, OneAges

LEMMA SubscribeAges ==
  ASSUME TypeOK, NEW K \in SUBSET Keys, NEW S \in SUBSET Keys,
         NEW sk \in [Sockets -> Socket], NEW e \in Sockets \cup {None},
         SubscribeAll(K, S, sk, e), NEW t \in Sockets, sk[t] = sock[t]
  PROVE  Steady(t) \/ Born(t)
<1>1. /\ t \in (made + 1)..made' => sock'[t].kind = "pool" /\ sock'[t].state = "connecting"
      /\ t \notin (made + 1)..made' =>
           \/ sock'[t] = sk[t]
           \/ sk[t].state = "open" /\ Alike(sk[t], sock'[t])
  BY SubscribeFrame
<1> QED  BY <1>1 DEF Steady, Born, Alike, LiveStates

\* the sockets after any step
LEMMA SocketsAge ==
  ASSUME Base, [Next]_vars
  PROVE  \A t \in Sockets : Steady(t) \/ Born(t)
<1>1. TypeOK /\ Sound /\ sock \in [Sockets -> Socket] /\ made \in Nat
  BY MarketDataEngineAssumption DEF Base, TypeOK
<1>2. CASE UNCHANGED sock
  BY <1>2, SameSocketAges
<1>3. CASE Start \/ (TimerFires /\ running)
  <2>1. PICK by \in {"start", "timer"} :
          Connect(by) /\ IF by = "start" THEN Start ELSE TimerFires /\ running
    BY <1>3 DEF Start, TimerFires
  <2> DEFINE x == NewSocket("main", by, {}, {})
  <2>2. made' = made + 1 /\ sock' = [sock EXCEPT ![made + 1] = x]
    BY <2>1 DEF Connect
  <2>3. x.state = "connecting" /\ x.kind = "main" /\ x.by = by
    BY DEF NewSocket
  <2> HIDE DEF x
  <2>4. ASSUME NEW t \in Sockets PROVE Steady(t) \/ Born(t)
    <3>1. CASE t = made + 1
      <4>1. sock'[t] = x
        BY <1>1, <2>2, <3>1
      <4>2. t \in (made + 1)..made'
        BY <1>1, <2>2, <3>1
      <4>3. (Start /\ by = "start") \/ (TimerFires /\ running /\ by = "timer")
        BY <2>1
      <4> QED  BY <2>3, <3>1, <4>1, <4>2, <4>3 DEF Born
    <3>2. CASE t # made + 1
      BY <1>1, <2>2, <3>2, SameSocketAges
    <3> QED  BY <3>1, <3>2
  <2> QED  BY <2>4
<1>4. ASSUME NEW K \in SUBSET Keys, Subscribe(K)
      PROVE  \A t \in Sockets : Steady(t) \/ Born(t)
  <2>1. subs \in SUBSET Keys /\ SubscribeAll(K, subs, sock, main.entry)
        /\ main.entry \in Sockets \cup {None}
    BY <1>1, <1>4, MainFields DEF TypeOK, Subscribe
  <2> QED  BY <1>1, <2>1, SubscribeAges
<1>5. ASSUME NEW k \in Keys, Unsubscribe(k)
      PROVE  \A t \in Sockets : Steady(t) \/ Born(t)
  <2>1. \/ sock' = sock
        \/ \E c \in Sockets : sock' = IF sock[c].state = "open"
                                      THEN [sock EXCEPT ![c].wire = @ \ Streams({k})] ELSE sock
    <3>1. CASE Combined
      BY <1>1, <1>5, <3>1, PoolTyped DEF Unsubscribe, RemoveFromConnection
    <3>2. CASE ~Combined
      BY <1>1, <1>5, <3>2, MainFields DEF Unsubscribe, RemoveFromMain
    <3> QED  BY <3>1, <3>2
  <2>2. ASSUME NEW c \in Sockets,
               sock' = IF sock[c].state = "open"
                       THEN [sock EXCEPT ![c].wire = @ \ Streams({k})] ELSE sock
        PROVE  \A t \in Sockets : Steady(t)
    <3>1. ex \in Exchanges
      BY <1>1 DEF TypeOK
    <3>2. /\ \A t \in Sockets : t # c => sock'[t] = sock[t]
          /\ \/ sock'[c] = sock[c]
             \/ sock[c].state = "open" /\ Alike(sock[c], sock'[c])
      BY <1>1, <2>2, <3>1, Unwired
    <3> QED  BY <3>2 DEF Steady, Alike, LiveStates
  <2> QED  BY <2>1, <2>2, SameSocketAges
<1>6. ASSUME NEW s \in Sockets, MainOpens(s)
      PROVE  \A t \in Sockets : Steady(t) \/ Born(t)
  <2> DEFINE sk == [sock EXCEPT ![s].state = "open"]
  <2>1. /\ sk \in [Sockets -> Socket]
        /\ \A t \in Sockets : t # s => sk[t] = sock[t]
        /\ sk[s].state = "open" /\ sk[s].kind = sock[s].kind /\ sk[s].by = sock[s].by
    BY <1>1, OpenedMain
  <2>2. subs \in SUBSET Keys /\ {} \in SUBSET Keys /\ SubscribeAll(subs, {}, sk, s)
        /\ sock[s].state = "connecting"
    BY <1>1, <1>6 DEF TypeOK, MainOpens, Resubscribe
  <2> HIDE DEF sk
  <2>3. ASSUME NEW t \in Sockets, t # s PROVE Steady(t) \/ Born(t)
    BY <1>1, <2>1, <2>2, <2>3, SubscribeAges
  <2>4. Steady(s)
    <3>1. s <= made
      BY <1>1, <2>2, MadeFirst
    <3>2. s \notin (made + 1)..made'
      BY <1>1, <3>1 DEF Sockets
    <3>3. sock'[s] = sk[s] \/ Alike(sk[s], sock'[s])
      BY <1>1, <2>1, <2>2, <3>2, SubscribeFrame
    <3> QED  BY <2>1, <2>2, <3>3 DEF Steady, Alike, LiveStates
  <2> QED  BY <2>3, <2>4
<1>7. ASSUME NEW s \in Sockets, PoolOpens(s)
      PROVE  \A t \in Sockets : Steady(t) \/ Born(t)
  <2>1. /\ sock'[s].state = "open" /\ sock'[s].kind = "pool"
        /\ \A t \in Sockets \ {s} : t \notin (made + 1)..made' => sock'[t] = sock[t]
        /\ \A t \in Sockets : t \in (made + 1)..made' =>
             sock'[t].kind = "pool" /\ sock'[t].state = "connecting"
    BY <1>1, <1>7, PoolOpening
  <2>2. sock'[s].by = sock[s].by
    BY <1>1, <1>7, PoolOpening
  <2>3. Steady(s)
    BY <1>7, <2>1, <2>2 DEF Steady, PoolOpens, LiveStates
  <2> QED  BY <2>1, <2>3, SameSocketAges DEF Born
<1>8. ASSUME NEW s \in Sockets, MainConnectFails(s) \/ PoolConnectFails(s)
                                \/ Drops(s) \/ CloseArrives(s)
      PROVE  \A t \in Sockets : Steady(t) \/ Born(t)
  <2>1. sock[s].state \in LiveStates
    BY <1>8 DEF MainConnectFails, PoolConnectFails, Drops, CloseArrives, LiveStates
  <2>2. \/ sock' = [sock EXCEPT ![s] = Ended(@)]
        \/ \E end \in {"closed", "failed"} :
             sock' = [sock EXCEPT ![s] = [Ended(@) EXCEPT !.state = end]]
    BY <1>8 DEF MainConnectFails, PoolConnectFails, Drops, CloseArrives, Closes,
                MainCloses, PoolCloses
  <2> QED  BY <1>1, <2>1, <2>2, EndAges
<1>9. ASSUME NEW s \in Sockets, FallsSilent(s)
      PROVE  \A t \in Sockets : Steady(t) \/ Born(t)
  <2> DEFINE x == [sock[s] EXCEPT !.silent = TRUE]
  <2>1. x \in Socket /\ x.kind = sock[s].kind /\ x.by = sock[s].by /\ x.state = sock[s].state
    BY <1>1, Silenced
  <2>2. sock[s].state = "open" /\ sock' = [sock EXCEPT ![s] = x]
    BY <1>9 DEF FallsSilent
  <2> HIDE DEF x
  <2> QED  BY <1>1, <2>1, <2>2, OneAges DEF LiveStates
<1>10. ASSUME NEW w \in watch, DataTimeout(w)
       PROVE  \A t \in Sockets : Steady(t) \/ Born(t)
  <2> DEFINE s == IF w = 0 THEN main.entry ELSE w
             x == [sock[s] EXCEPT !.state = "closing"]
  <2>1. s \in Sockets /\ sock[s].state = "open" /\ sock' = [sock EXCEPT ![s].state = "closing"]
    BY <1>1, <1>10, MainFields DEF DataTimeout, TypeOK
  <2> HIDE DEF s
  <2>2. "closing" \in States /\ sock[s] \in Socket
    BY <1>1, <2>1 DEF States
  <2>3. x \in Socket /\ x.kind = sock[s].kind /\ x.by = sock[s].by /\ x.state = "closing"
    BY <2>2, SocketChanges
  <2>4. sock' = [sock EXCEPT ![s] = x]
    BY <2>1
  <2> HIDE DEF x
  <2> QED  BY <1>1, <2>1, <2>3, <2>4, OneAges DEF LiveStates
<1>11. ASSUME Stop
       PROVE  \A t \in Sockets : Steady(t) \/ Born(t)
  <2> SUFFICES ASSUME NEW t \in Sockets PROVE Steady(t)
    OBVIOUS
  <2> DEFINE x == [sock[t] EXCEPT !.state = "closing"]
  <2>1. sock[t] \in Socket /\ "closing" \in States
    BY <1>1 DEF States
  <2>2. x.kind = sock[t].kind /\ x.by = sock[t].by /\ x.state = "closing"
    BY <2>1, SocketChanges
  <2>3. sock'[t] = sock[t] \/ (sock[t].state = "open" /\ sock'[t] = x)
    BY <1>11 DEF Stop
  <2> HIDE DEF x
  <2> QED  BY <2>2, <2>3 DEF Steady, LiveStates
<1>12. ASSUME NEW l \in lists, ListTimer(l)
       PROVE  \A t \in Sockets : Steady(t) \/ Born(t)
  <2>1. CASE ~running
    BY <1>12, <2>1, SameSocketAges DEF ListTimer
  <2>2. CASE running
    <3>1. PICK x \in Socket : /\ x.state = "connecting" /\ x.kind = "pool"
                              /\ made + 1 <= MaxSockets /\ made' = made + 1
                              /\ sock' = [sock EXCEPT ![made + 1] = x]
      BY <1>1, <1>12, <2>2, ListOpening
    <3>2. /\ sock'[made + 1] = x
          /\ \A t \in Sockets : t # made + 1 => sock'[t] = sock[t]
          /\ \A t \in Sockets : t \in (made + 1)..made' <=> t = made + 1
      BY <1>1, <3>1, OneMore
    <3> QED  BY <3>1, <3>2, SameSocketAges DEF Born
  <2> QED  BY <2>1, <2>2
<1>13. CASE StartReturns \/ (TimerFires /\ ~running) \/ UNCHANGED vars
  <2>1. UNCHANGED sock
    BY <1>13 DEF StartReturns, TimerFires, vars
  <2> QED  BY <1>2, <2>1
<1> QED  BY <1>3, <1>4, <1>5, <1>6, <1>7, <1>8, <1>9, <1>10, <1>11, <1>12, <1>13
         DEF Next, Opens, ConnectFails

-----------------------------------------------------------------------------
(* An engine that is started once *)

Starting(s) ==
  sock[s].kind = "main" /\ sock[s].by = "start" /\ sock[s].state = "connecting"

\* Until start() has returned nothing runs but its own connection, and no one connects for
\* start() again afterwards.
Life ==
  /\ starts \in {0, 1}
  /\ starts = 0 => made = 0 /\ starting = "no" /\ main.entry = None
  /\ starts = 0 \/ starting # "no" =>
       /\ ~running /\ timers = 0 /\ subs = {} /\ pool = <<>> /\ lists = {}
       /\ \A k \in Keys : route[k] = None
       /\ \A s \in Sockets : sock[s].kind = "main" /\ sock[s].by = "start"
  /\ \A s \in Sockets : Starting(s) =>
       starting = "connecting" /\ \A t \in Sockets : Starting(t) => s = t

LEMMA NoneYet ==
  ASSUME Base, Life, starts = 0
  PROVE  /\ \A s \in Sockets : sock[s].state = "none" /\ sock[s] = Unmade
         /\ InPool = {} /\ main.entry = None
<1>1. \A s \in Sockets : s > made
  BY MarketDataEngineAssumption DEF Life, Sockets
<1>2. \A s \in Sockets : sock[s] = Unmade
  BY <1>1 DEF Base, Sound
<1>3. Unmade.state = "none"
  BY UnmadeTyped DEF Base, TypeOK
<1>4. InPool = {}
  BY PoolTyped DEF Base, Life
<1> QED  BY <1>2, <1>3, <1>4 DEF Life

\* an engine that was never started can only be started
LEMMA Begun ==
  ASSUME Base, Life, Next, ~Start
  PROVE  starts # 0
<1> SUFFICES ASSUME starts = 0 PROVE FALSE
  OBVIOUS
<1>1. /\ \A s \in Sockets : sock[s].state = "none"
      /\ main.entry = None /\ ~running /\ timers = 0 /\ lists = {} /\ starting = "no"
  BY NoneYet DEF Life
<1>2. ~StartReturns /\ ~Stop /\ ~TimerFires
  BY <1>1 DEF StartReturns, Stop, TimerFires
<1>3. \A K : ~Subscribe(K)
  BY <1>1 DEF Subscribe
<1>4. \A k : ~Unsubscribe(k)
  BY <1>1 DEF Unsubscribe
<1>5. \A s \in Sockets : ~Opens(s)
  BY <1>1 DEF Opens, MainOpens, PoolOpens
<1>6. \A s \in Sockets : ~ConnectFails(s) /\ ~Drops(s) /\ ~CloseArrives(s) /\ ~FallsSilent(s)
  BY <1>1 DEF ConnectFails, MainConnectFails, PoolConnectFails, Drops, CloseArrives,
              FallsSilent
<1>7. \A w \in watch : ~DataTimeout(w)
  <2> SUFFICES ASSUME NEW w \in watch, DataTimeout(w) PROVE FALSE
    OBVIOUS
  <2>1. w \in Sockets
    BY <1>1 DEF DataTimeout, Base, TypeOK
  <2>2. w # 0
    BY <2>1 DEF Sockets
  <2> QED  BY <1>1, <2>1, <2>2 DEF DataTimeout
<1> QED  BY <1>1, <1>2, <1>3, <1>4, <1>5, <1>6, <1>7 DEF Next

\* while start() is in progress
LEMMA Waiting ==
  ASSUME Base, Life, [Next]_vars, ~Start, ~StartReturns, starting # "no"
  PROVE  ~running' /\ UNCHANGED <<timers, subs, pool, lists, route, made>>
<1>1. /\ ~running /\ timers = 0 /\ subs = {} /\ pool = <<>> /\ lists = {}
      /\ \A s \in Sockets : sock[s].kind = "main" /\ sock[s].by = "start"
  BY DEF Life
<1>2. AfterClose.timers = timers
  BY <1>1, Closing DEF Base
<1>3. ~Stop /\ ~TimerFires /\ (\A K : ~Subscribe(K)) /\ (\A k : ~Unsubscribe(k))
      /\ \A l \in lists : ~ListTimer(l)
  BY <1>1 DEF Stop, TimerFires, Subscribe, Unsubscribe
<1>4. ASSUME NEW s \in Sockets, MainOpens(s)
      PROVE  ~running' /\ UNCHANGED <<timers, subs, pool, lists, route, made>>
  <2>1. SubscribeAll({}, {}, [sock EXCEPT ![s].state = "open"], s)
    BY <1>1, <1>4 DEF MainOpens, Resubscribe
  <2>2. subs' = {} /\ UNCHANGED <<made, psubs, route>>
    BY <2>1 DEF SubscribeAll
  <2> QED  BY <1>1, <1>4, <2>2 DEF MainOpens
<1>5. ASSUME NEW s \in Sockets, MainConnectFails(s)
      PROVE  ~running' /\ UNCHANGED <<timers, subs, pool, lists, route, made>>
  <2>1. sock[s].by # "timer"
    BY <1>1
  <2> QED  BY <1>1, <1>2, <1>5, <2>1 DEF MainConnectFails
<1>6. ASSUME NEW s \in Sockets, Drops(s) \/ CloseArrives(s)
      PROVE  ~running' /\ UNCHANGED <<timers, subs, pool, lists, route, made>>
  <2>1. MainCloses(s)
    BY <1>1, <1>6 DEF Drops, CloseArrives, Closes
  <2> QED  BY <1>1, <1>2, <2>1 DEF MainCloses
<1>7. \A s \in Sockets : ~PoolOpens(s) /\ ~PoolConnectFails(s)
  BY <1>1 DEF PoolOpens, PoolConnectFails
<1>8. ASSUME NEW s \in Sockets, FallsSilent(s)
      PROVE  ~running' /\ UNCHANGED <<timers, subs, pool, lists, route, made>>
  BY <1>1, <1>8 DEF FallsSilent
<1>9. ASSUME NEW w \in watch, DataTimeout(w)
      PROVE  ~running' /\ UNCHANGED <<timers, subs, pool, lists, route, made>>
  BY <1>1, <1>9 DEF DataTimeout
<1>10. CASE UNCHANGED vars
  BY <1>1, <1>10 DEF vars
<1> QED  BY <1>3, <1>4, <1>5, <1>6, <1>7, <1>8, <1>9, <1>10 DEF Next, Opens, ConnectFails

LEMMA MainIsOpen ==
  ASSUME Base, NEW s \in Sockets, MainOpens(s)
  PROVE  sock'[s].state = "open"
<1> DEFINE sk == [sock EXCEPT ![s].state = "open"]
<1>1. /\ sk \in [Sockets -> Socket] /\ sk[s].state = "open"
      /\ SubscribeAll(subs, {}, sk, s) /\ subs \in SUBSET Keys /\ {} \in SUBSET Keys
      /\ s \in Sockets \cup {None} /\ sock[s].state = "connecting" /\ TypeOK /\ Sound
  BY OpenedMain DEF MainOpens, Resubscribe, TypeOK, Base
<1> HIDE DEF sk
<1>2. s \notin (made + 1)..made'
  <2>1. s <= made /\ s \in Nat /\ made \in Nat
    BY <1>1, Numbered
  <2> QED  BY <2>1
<1>3. sock'[s] = sk[s] \/ Alike(sk[s], sock'[s])
  BY <1>1, <1>2, SubscribeFrame
<1> QED  BY <1>1, <1>3 DEF Alike

\* start() goes on when its connection has opened or failed
LEMMA Settling ==
  ASSUME Base, [Next]_vars, ~Start, ~StartReturns
  PROVE  /\ starts' = starts
         /\ \/ starting' = starting
            \/ \E s \in Sockets : /\ Starting(s) /\ starting' = "settled"
                                  /\ sock'[s].state # "connecting"
<1>1. sock \in [Sockets -> Socket] /\ ex \in Exchanges /\ TypeOK
  BY DEF Base, TypeOK
<1>2. ASSUME NEW s \in Sockets, MainOpens(s)
      PROVE  starts' = starts /\ (starting' = starting \/ (Starting(s) /\ starting' = "settled"))
  BY <1>2 DEF MainOpens, Settles, Starting, bounds
<1>3. ASSUME NEW s \in Sockets, MainConnectFails(s)
      PROVE  starts' = starts /\ (starting' = starting \/ (Starting(s) /\ starting' = "settled"))
  BY <1>3 DEF MainConnectFails, Settles, Starting
<1>4. ASSUME NEW s \in Sockets, MainConnectFails(s)
      PROVE  sock'[s].state # "connecting"
  BY <1>1, <1>4, EndedTyped DEF MainConnectFails
<1>5. ASSUME NEW s \in Sockets, MainOpens(s)
      PROVE  sock'[s].state # "connecting"
  BY <1>5, MainIsOpen
<1>6. ASSUME NEW s \in Sockets,
             PoolOpens(s) \/ PoolConnectFails(s) \/ Drops(s) \/ CloseArrives(s) \/ FallsSilent(s)
      PROVE  starts' = starts /\ starting' = starting
  BY <1>6 DEF PoolOpens, PoolConnectFails, Drops, CloseArrives, Closes, MainCloses,
              PoolCloses, FallsSilent, bounds
<1>7. ASSUME \/ Stop \/ TimerFires \/ UNCHANGED vars \/ \E K \in SUBSET Keys \ {{}} : Subscribe(K)
             \/ \E k \in Keys : Unsubscribe(k)
             \/ \E l \in lists : ListTimer(l)
             \/ \E w \in watch : DataTimeout(w)
      PROVE  starts' = starts /\ starting' = starting
  BY <1>7 DEF Stop, TimerFires, Subscribe, Unsubscribe, ListTimer, DataTimeout, vars, bounds
<1> QED  BY <1>2, <1>3, <1>4, <1>5, <1>6, <1>7 DEF Next, Opens, ConnectFails

LEMMA InitLife ==
  Init => Life
BY UnmadeTyped DEF Init, Life, Starting, None

LEMMA StartLife ==
  ASSUME Base, Life, Start, MaxStarts <= 1
  PROVE  Life'
<1>1. /\ starts = 0 /\ starts' = 1 /\ starting' = "connecting" /\ made = 0 /\ made' = 1
      /\ UNCHANGED <<ex, running, main, timers, subs, pool, lists, route>>
  BY MarketDataEngineAssumption DEF Start, Connect, Life
<1> DEFINE x == NewSocket("main", "start", {}, {})
<1>2. x.kind = "main" /\ x.by = "start"
  BY DEF NewSocket
<1>3. sock' = [sock EXCEPT ![1] = x] /\ sock \in [Sockets -> Socket]
  BY <1>1 DEF Start, Connect, Base, TypeOK
<1> HIDE DEF x
<1>4. \A s \in Sockets : /\ sock[s].state = "none"
                         /\ sock[s].kind = "main" /\ sock[s].by = "start"
  BY <1>1, NoneYet DEF Life
<1>5. \A s \in Sockets : sock'[s].kind = "main" /\ sock'[s].by = "start"
  BY <1>2, <1>3, <1>4
<1>6. \A s \in Sockets : Starting(s)' => s = 1
  BY <1>3, <1>4 DEF Starting
<1> QED  BY <1>1, <1>5, <1>6 DEF Life

LEMMA LifeStep ==
  ASSUME Base, Life, [Next]_vars, MaxStarts <= 1
  PROVE  Life'
<1>1. CASE Start
  BY <1>1, StartLife
<1>2. CASE UNCHANGED vars
  BY <1>2 DEF vars, bounds, Life, Starting
<1>3. CASE StartReturns
  <2>1. starts # 0 /\ starts' = starts /\ starting = "settled" /\ starting' = "no" /\ sock' = sock
    BY <1>3 DEF StartReturns, Life, bounds
  <2>2. \A s \in Sockets : ~Starting(s)
    BY <2>1 DEF Life
  <2>3. \A s \in Sockets : ~Starting(s)'
    BY <2>1, <2>2 DEF Starting
  <2> QED  BY <2>1, <2>3 DEF Life
<1>4. CASE Next /\ ~Start /\ ~StartReturns
  <2>1. starts # 0 /\ starts' = starts
    BY <1>4, Begun, Settling
  <2>2. \/ starting' = starting
        \/ \E s \in Sockets : /\ Starting(s) /\ starting' = "settled"
                              /\ sock'[s].state # "connecting"
    BY <1>4, Settling
  <2>3. \A s \in Sockets : Steady(s) \/ Born(s)
    BY SocketsAge
  <2>4. ASSUME NEW s \in Sockets, Starting(s)' PROVE Starting(s)
    <3>1. Steady(s)
      BY <1>4, <2>3, <2>4 DEF Starting, Born
    <3> QED  BY <2>4, <3>1 DEF Starting, Steady
  <2>5. ASSUME starting' # "no"
        PROVE  /\ ~running' /\ timers' = 0 /\ subs' = {} /\ pool' = <<>> /\ lists' = {}
               /\ \A k \in Keys : route'[k] = None
               /\ \A s \in Sockets : sock'[s].kind = "main" /\ sock'[s].by = "start"
    <3>1. starting # "no"
      BY <2>2, <2>5 DEF Life
    <3>2. ~running' /\ UNCHANGED <<timers, subs, pool, lists, route, made>>
      BY <1>4, <3>1, Waiting
    <3>3. \A s \in Sockets : s \notin (made + 1)..made'
      BY <3>2, MarketDataEngineAssumption DEF Base, TypeOK, Sockets
    <3>4. \A s \in Sockets : Steady(s)
      BY <2>3, <3>3 DEF Born
    <3> QED  BY <3>1, <3>2, <3>4 DEF Life, Steady
  <2>6. ASSUME NEW s \in Sockets, Starting(s)'
        PROVE  starting' = "connecting" /\ \A t \in Sockets : Starting(t)' => s = t
    <3>1. Starting(s) /\ \A t \in Sockets : Starting(t)' => Starting(t)
      BY <2>4, <2>6
    <3>2. starting = "connecting" /\ \A t \in Sockets : Starting(t) => s = t
      BY <3>1 DEF Life
    <3>3. sock'[s].state = "connecting"
      BY <2>6 DEF Starting
    <3> QED  BY <2>2, <3>1, <3>2, <3>3
  <2> QED  BY <2>1, <2>5, <2>6 DEF Life
<1> QED  BY <1>1, <1>2, <1>3, <1>4

-----------------------------------------------------------------------------
(* One main socket *)

\* Without combined streams at most one socket lives, and none while a timer is pending;
\* while the engine runs, the flag is up as long as a reconnection is under way.
Alone ==
  ~Combined =>
    /\ timers <= 1
    /\ \A s, t \in Sockets : Live(s) /\ Live(t) => s = t
    /\ \A s \in Sockets : Live(s) => timers = 0
    /\ running /\ timers > 0 => main.reconnecting
    /\ \A s \in Sockets : running /\ sock[s].state = "connecting" /\ sock[s].by = "timer"
         => main.reconnecting

\* a step that makes no socket and leaves timers and flag alone, or ends the only one
LEMMA AloneKept ==
  ASSUME Base, Alone, ~Combined, ex' = ex, \A t \in Sockets : Steady(t),
         running' => running, timers' = timers,
         running' /\ main.reconnecting => main'.reconnecting
  PROVE  Alone'
<1>1. Combined' = Combined /\ timers \in Nat
  BY SameExchange DEF Base, TypeOK
<1>2. \A s \in Sockets : Live(s)' => Live(s)
  BY DEF Live, Steady, LiveStates
<1>3. \A s \in Sockets : sock'[s].state = "connecting" => sock'[s] = sock[s]
  BY DEF Steady
<1> QED  BY <1>1, <1>2, <1>3 DEF Alone

LEMMA AloneEnds ==
  ASSUME Base, Alone, ~Combined, ex' = ex, \A t \in Sockets : Steady(t), running' = running,
         NEW s \in Sockets, Live(s), ~Live(s)',
         \/ timers' = 0
         \/ timers' = 1 /\ (running => main'.reconnecting)
  PROVE  Alone'
<1>1. Combined' = Combined
  BY SameExchange
<1>2. \A t \in Sockets : Live(t)' => Live(t)
  BY DEF Live, Steady, LiveStates
<1>3. \A t \in Sockets : ~Live(t)'
  BY <1>2 DEF Alone
<1>4. \A t \in Sockets : sock'[t].state # "connecting"
  BY <1>3 DEF Live
<1> QED  BY <1>1, <1>3, <1>4 DEF Alone

LEMMA EndedIsNotLive ==
  ASSUME Base, NEW s \in Sockets, sock' = [sock EXCEPT ![s] = Ended(@)]
  PROVE  ~Live(s)'
<1>1. sock'[s] = Ended(sock[s]) /\ sock[s] \in Socket /\ ex \in Exchanges
  BY DEF Base, TypeOK
<1>2. Ended(sock[s]).state = "closed"
  BY <1>1, EndedTyped
<1> QED  BY <1>1, <1>2 DEF Live

LEMMA ExchangeStays ==
  [Next]_vars => ex' = ex
<1>1. CASE UNCHANGED vars
  BY <1>1 DEF vars
<1>2. CASE Next
  <2>1. \A s \in Sockets : MainOpens(s) \/ PoolOpens(s) => ex' = ex
    BY DEF MainOpens, PoolOpens
  <2>2. \A s \in Sockets : MainConnectFails(s) \/ PoolConnectFails(s) => ex' = ex
    BY DEF MainConnectFails, PoolConnectFails, PoolCloses
  <2>3. \A s \in Sockets : Drops(s) \/ CloseArrives(s) \/ FallsSilent(s) => ex' = ex
    BY DEF Drops, CloseArrives, FallsSilent, Closes, MainCloses, PoolCloses
  <2>4. Start \/ StartReturns \/ Stop \/ TimerFires => ex' = ex
    BY DEF Start, StartReturns, Stop, TimerFires
  <2>5. /\ \A K : Subscribe(K) => ex' = ex
        /\ \A k : Unsubscribe(k) => ex' = ex
        /\ \A l : ListTimer(l) => ex' = ex
        /\ \A w : DataTimeout(w) => ex' = ex
    BY DEF Subscribe, Unsubscribe, ListTimer, DataTimeout
  <2> QED  BY <1>2, <2>1, <2>2, <2>3, <2>4, <2>5 DEF Next, Opens, ConnectFails
<1> QED  BY <1>1, <1>2

\* without combined streams only start() and its timer make a socket
LEMMA NoneBorn ==
  ASSUME Base, [Next]_vars, ~Combined, ~Start, ~(TimerFires /\ running)
  PROVE  \A t \in Sockets : Steady(t)
<1>1. Base'
  BY NextBase
<1>2. ex' = ex
  BY ExchangeStays
<1>3. \A t \in Sockets : sock'[t].kind = "main"
  BY <1>1, <1>2, SameExchange DEF Base, Sound
<1> QED  BY <1>3, SocketsAge DEF Born

LEMMA StartAlone ==
  ASSUME Base, Life, Alone, ~Combined, Start, MaxStarts <= 1
  PROVE  Alone'
<1>1. /\ starts = 0 /\ ~running /\ timers = 0 /\ made = 0
      /\ UNCHANGED <<ex, running, timers>>
  BY MarketDataEngineAssumption DEF Start, Life
<1>2. \A s \in Sockets : s # 1 => sock'[s] = sock[s] /\ sock[s].state = "none"
  BY <1>1, NoneYet DEF Start, Connect, Base, TypeOK
<1>3. \A s \in Sockets : Live(s)' => s = 1
  BY <1>2 DEF Live
<1> QED  BY <1>1, <1>3, SameExchange DEF Alone

LEMMA StartReturnsAlone ==
  ASSUME Base, Life, Alone, StartReturns
  PROVE  Alone'
<1>1. /\ timers = 0 /\ \A s \in Sockets : sock[s].by = "start"
      /\ UNCHANGED <<ex, sock, timers, main>>
  BY DEF StartReturns, Life
<1>2. \A s \in Sockets : sock'[s] = sock[s]
  BY <1>1
<1> QED  BY <1>1, <1>2, SameExchange DEF Alone, Live

LEMMA TimerAlone ==
  ASSUME Base, Alone, ~Combined, TimerFires, running
  PROVE  Alone'
<1>1. /\ timers \in Nat /\ timers > 0 /\ timers' = 0 /\ made' = made + 1
      /\ UNCHANGED <<ex, running, main>> /\ main.reconnecting
  BY DEF TimerFires, Connect, Base, TypeOK, Alone
<1>2. \A s \in Sockets : ~Live(s)
  BY <1>1 DEF Alone
<1>3. \A s \in Sockets : s # made + 1 => sock'[s] = sock[s]
  BY DEF TimerFires, Connect, Base, TypeOK
<1>4. \A s \in Sockets : Live(s)' => s = made + 1
  BY <1>2, <1>3 DEF Live
<1> QED  BY <1>1, <1>4, SameExchange DEF Alone

LEMMA MainOpensAlone ==
  ASSUME Base, Alone, ~Combined, NEW s \in Sockets, MainOpens(s),
         \A t \in Sockets : Steady(t)
  PROVE  Alone'
<1>1. /\ sock[s].state = "connecting" /\ ~main'.reconnecting
      /\ UNCHANGED <<ex, running, timers>>
  BY DEF MainOpens
<1>2. Live(s) /\ timers = 0 /\ timers' = 0
  BY <1>1 DEF Live, Alone
<1>3. sock'[s].state = "open"
  BY MainIsOpen
<1>4. \A t \in Sockets : Live(t)' => Live(t)
  BY DEF Live, Steady, LiveStates
<1>5. \A t \in Sockets : Live(t) => t = s
  BY <1>2 DEF Alone
<1>6. \A t \in Sockets : sock'[t].state # "connecting"
  BY <1>3, <1>4, <1>5 DEF Live
<1> QED  BY <1>1, <1>2, <1>4, <1>6, SameExchange DEF Alone

LEMMA MainClosesAlone ==
  ASSUME Base, Alone, ~Combined, NEW s \in Sockets, MainCloses(s), Live(s),
         \A t \in Sockets : Steady(t)
  PROVE  Alone'
<1>1. /\ UNCHANGED <<ex, running>> /\ ~Live(s)'
      /\ main' = AfterClose.main /\ timers' = AfterClose.timers
  BY EndedIsNotLive DEF MainCloses
<1>2. timers = 0
  BY DEF Alone
<1>3. \/ timers' = 0
      \/ timers' = 1 /\ main'.reconnecting
  BY <1>1, <1>2, Closing DEF Base
<1> QED  BY <1>1, <1>3, AloneEnds

LEMMA MainConnectFailsAlone ==
  ASSUME Base, Alone, ~Combined, NEW s \in Sockets, MainConnectFails(s),
         \A t \in Sockets : Steady(t)
  PROVE  Alone'
<1>1. /\ UNCHANGED <<ex, running>> /\ ~Live(s)' /\ Live(s) /\ sock[s].state = "connecting"
  BY EndedIsNotLive DEF MainConnectFails, Live
<1>2. timers = 0
  BY <1>1 DEF Alone
<1>3. \/ main' = AfterClose.main /\ timers' = AfterClose.timers
      \/ /\ sock[s].by = "timer"
         /\ main' = AfterRejection.main /\ timers' = AfterRejection.timers
  BY DEF MainConnectFails
<1>4. sock[s].by = "timer" => ~running \/ main.reconnecting
  BY <1>1 DEF Alone
<1>5. \/ timers' = 0
      \/ timers' = 1 /\ main'.reconnecting
  BY <1>2, <1>3, <1>4, Closing, Rejected DEF Base
<1> QED  BY <1>1, <1>5, AloneEnds

LEMMA AloneStep ==
  ASSUME Base, Life, Alone, [Next]_vars, MaxStarts <= 1
  PROVE  Alone'
<1>1. ex' = ex
  BY ExchangeStays
<1>2. CASE Combined
  BY <1>1, <1>2, SameExchange DEF Alone
<1>3. CASE Start
  BY <1>2, <1>3, StartAlone
<1>4. CASE StartReturns
  BY <1>4, StartReturnsAlone
<1>5. CASE TimerFires /\ running
  BY <1>2, <1>5, TimerAlone
<1>6. CASE ~Combined /\ ~Start /\ ~StartReturns /\ ~(TimerFires /\ running)
  <2>1. \A t \in Sockets : Steady(t)
    BY <1>6, NoneBorn
  <2>2. TypeOK /\ Sound /\ \A s \in Sockets : sock[s].kind = "main"
    BY <1>6 DEF Base, Sound
  <2>3. CASE Stop
    <3>1. ~running' /\ timers' = timers
      BY <2>3 DEF Stop
    <3> QED  BY <1>1, <1>6, <2>1, <3>1, AloneKept
  <2>4. CASE TimerFires /\ ~running
    <3>1. /\ ~running' /\ timers \in Nat /\ timers > 0 /\ timers' = timers - 1
          /\ UNCHANGED sock
      BY <2>2, <2>4 DEF TimerFires, TypeOK
    <3>2. \A s \in Sockets : Live(s)' => Live(s)
      BY <3>1 DEF Live
    <3> QED  BY <1>1, <1>6, <3>1, <3>2, SameExchange DEF Alone
  <2>5. ASSUME NEW K \in SUBSET Keys, Subscribe(K) PROVE Alone'
    <3>1. UNCHANGED <<running, timers, main>>
      BY <2>5 DEF Subscribe
    <3> QED  BY <1>1, <1>6, <2>1, <3>1, AloneKept
  <2>6. ASSUME NEW k \in Keys, Unsubscribe(k) PROVE Alone'
    <3>1. UNCHANGED <<running, timers, main>>
      BY <2>6 DEF Unsubscribe
    <3> QED  BY <1>1, <1>6, <2>1, <3>1, AloneKept
  <2>7. ASSUME NEW s \in Sockets, Opens(s) PROVE Alone'
    <3>1. MainOpens(s)
      BY <2>2, <2>7 DEF Opens, PoolOpens
    <3> QED  BY <1>6, <2>1, <3>1, MainOpensAlone
  <2>8. ASSUME NEW s \in Sockets, ConnectFails(s) PROVE Alone'
    <3>1. MainConnectFails(s)
      BY <2>2, <2>8 DEF ConnectFails, PoolConnectFails
    <3> QED  BY <1>6, <2>1, <3>1, MainConnectFailsAlone
  <2>9. ASSUME NEW s \in Sockets, Drops(s) \/ CloseArrives(s) PROVE Alone'
    <3>1. MainCloses(s) /\ Live(s)
      BY <2>2, <2>9 DEF Drops, CloseArrives, Closes, Live
    <3> QED  BY <1>6, <2>1, <3>1, MainClosesAlone
  <2>10. ASSUME NEW s \in Sockets, FallsSilent(s) PROVE Alone'
    <3>1. UNCHANGED <<running, timers, main>>
      BY <2>10 DEF FallsSilent
    <3> QED  BY <1>1, <1>6, <2>1, <3>1, AloneKept
  <2>11. ASSUME NEW l \in lists, ListTimer(l) PROVE Alone'
    BY <1>6, <2>2, <2>11 DEF Sound
  <2>12. ASSUME NEW w \in watch, DataTimeout(w) PROVE Alone'
    <3>1. UNCHANGED <<running, timers, main>>
      BY <2>12 DEF DataTimeout
    <3> QED  BY <1>1, <1>6, <2>1, <3>1, AloneKept
  <2>13. CASE UNCHANGED vars
    <3>1. UNCHANGED <<running, timers, main>>
      BY <2>13 DEF vars
    <3> QED  BY <1>1, <1>6, <2>1, <3>1, AloneKept
  <2> QED  BY <1>6, <2>3, <2>4, <2>5, <2>6, <2>7, <2>8, <2>9, <2>10, <2>11, <2>12, <2>13
           DEF Next
<1> QED  BY <1>2, <1>3, <1>4, <1>5, <1>6

LEMMA InitAlone ==
  Init => Alone
<1> SUFFICES ASSUME Init PROVE Alone
  OBVIOUS
<1>1. \A s \in Sockets : sock[s].state = "none"
  BY UnmadeTyped DEF Init
<1> QED  BY <1>1 DEF Init, Alone, Live

\* An exchange without combined streams never has two main sockets at a time, for an
\* engine that is started once, whatever fails and however often it reconnects.
THEOREM OneMainSocket ==
  ASSUME MaxStarts <= 1
  PROVE  Spec => []OneMain
<1>1. Init => Base /\ Life /\ Alone
  BY InitBase, InitLife, InitAlone
<1>2. Base /\ Life /\ Alone /\ [Next]_vars => (Base /\ Life /\ Alone)'
  BY NextBase, LifeStep, AloneStep
<1>3. Alone => OneMain
  BY DEF Alone, OneMain
<1> QED  BY <1>1, <1>2, <1>3, PTL DEF Spec

-----------------------------------------------------------------------------
(* The keys of the pool *)

NoneFailed == \A s \in Sockets : sock[s].state # "failed"
Opening(s) == sock[s].kind = "pool" /\ sock[s].state = "connecting"

LEMMA FailedStays ==
  ASSUME Base, [Next]_vars, NoneFailed'
  PROVE  NoneFailed
<1>1. Unmade.state = "none" /\ made \in Nat /\ \A s \in Sockets : s \in Nat
  BY UnmadeTyped, MarketDataEngineAssumption DEF Base, TypeOK, Sockets
<1>2. ASSUME NEW s \in Sockets, Born(s) PROVE sock[s].state # "failed"
  <2>1. s > made
    BY <1>1, <1>2 DEF Born
  <2> QED  BY <1>1, <2>1 DEF Base, Sound
<1>3. ASSUME NEW s \in Sockets, Steady(s) PROVE sock[s].state # "failed"
  BY <1>3 DEF Steady, NoneFailed
<1> QED  BY <1>2, <1>3, SocketsAge DEF NoneFailed

LEMMA AttendedWays ==
  ASSUME NEW k, Attended(k)
  PROVE  \/ \E c \in InPool : k \in psubs[c]
         \/ \E l \in lists : k \in l.keys
         \/ \E s \in Sockets : Opening(s) /\ k \in sock[s].keys \cup sock[s].rest
BY DEF Attended, Opening

LEMMA Idle ==
  ASSUME ~running'
  PROVE  PoolKeepsKeys'
BY DEF PoolKeepsKeys, AllAttended, RoutesAgree

\* a step that leaves the pool, the lists and the connections being opened alone
LEMMA PoolKept ==
  ASSUME Base, PoolKeepsKeys, NoneFailed' => NoneFailed, ex' = ex, running' => running,
         UNCHANGED <<pool, psubs, route, lists>>, subs' \subseteq subs,
         \A s \in Sockets : Opening(s) => sock'[s] = sock[s]
  PROVE  PoolKeepsKeys'
<1>1. InPool' = InPool /\ Combined' = Combined
  BY SameExchange DEF InPool
<1>2. RoutesAgree'
  BY <1>1 DEF PoolKeepsKeys, RoutesAgree
<1>3. ASSUME NEW k, Attended(k) PROVE Attended(k)'
  <2>1. CASE \E s \in Sockets : Opening(s) /\ k \in sock[s].keys \cup sock[s].rest
    BY <2>1 DEF Attended, Opening
  <2>2. CASE (\E c \in InPool : k \in psubs[c]) \/ (\E l \in lists : k \in l.keys)
    BY <1>1, <2>2 DEF Attended
  <2> QED  BY <1>3, <2>1, <2>2, AttendedWays
<1>4. NoneFailed' => AllAttended'
  BY <1>1, <1>3 DEF PoolKeepsKeys, AllAttended, NoneFailed
<1> QED  BY <1>2, <1>4 DEF PoolKeepsKeys, NoneFailed

\* a connection being opened is one that was made before
LEMMA OpeningIsOld ==
  ASSUME Base, NEW s \in Sockets, Opening(s)
  PROVE  s \notin (made + 1)..made' /\ s \notin InPool
<1>1. s <= made /\ s \in Nat /\ made \in Nat
  BY Numbered DEF Base, Opening
<1>2. s \notin InPool
  BY DEF Base, Sound, Opening
<1> QED  BY <1>1, <1>2

LEMMA SubscribeKeeps ==
  ASSUME Base, PoolKeepsKeys, NoneFailed' => NoneFailed, UNCHANGED <<ex, running, pool, lists>>,
         NEW K \in SUBSET Keys, NEW S \in SUBSET subs, NEW sk \in [Sockets -> Socket],
         NEW e \in Sockets \cup {None}, SubscribeAll(K, S, sk, e),
         \A s \in Sockets : Opening(s) => sk[s] = sock[s]
  PROVE  PoolKeepsKeys'
<1> DEFINE N == K \ S
<1>1. InPool' = InPool /\ Combined' = Combined /\ TypeOK
  BY SameExchange DEF InPool, Base
<1>2. S \in SUBSET Keys /\ N \in SUBSET Keys
  BY <1>1 DEF TypeOK
<1>3. \A s \in Sockets : Opening(s) => sock'[s] = sock[s]
  <2> SUFFICES ASSUME NEW s \in Sockets, Opening(s) PROVE sock'[s] = sock[s]
    OBVIOUS
  <2>1. s \notin (made + 1)..made' /\ sk[s] = sock[s]
    BY OpeningIsOld
  <2>2. \A t \in Sockets : t \notin (made + 1)..made' =>
          sock'[t] = sk[t] \/ (sk[t].state = "open" /\ Alike(sk[t], sock'[t]))
    <3> HIDE DEF N
    <3> QED  BY <1>1, <1>2, SubscribeFrame
  <2> QED  BY <2>1, <2>2 DEF Opening
<1>4. CASE Nowhere(N, S, sk, e)
  BY <1>3, <1>4, PoolKept DEF Nowhere
<1>5. CASE OverNew(S, sk)
  BY <1>3, <1>5, PoolKept DEF OverNew
<1>6. CASE OverMain(N, S, sk, e)
  <2>1. UNCHANGED <<psubs, route>> /\ ~Combined
    BY <1>6 DEF OverMain
  <2>2. RoutesAgree'
    BY <1>1, <2>1 DEF PoolKeepsKeys, RoutesAgree
  <2> QED  BY <1>1, <2>1, <2>2 DEF PoolKeepsKeys, AllAttended
<1>7. ASSUME NEW c \in InPool, OverPool(c, N, S, sk) PROVE PoolKeepsKeys'
  <2>1. /\ c \in Sockets /\ subs' = S \cup N
        /\ psubs \in [Sockets -> SUBSET Keys]
        /\ psubs' = [psubs EXCEPT ![c] = @ \cup N]
        /\ route' = [k \in Keys |-> IF k \in N THEN c ELSE route[k]]
    BY <1>1, <1>7, PoolTyped DEF OverPool, TypeOK
  <2>2. N \subseteq psubs'[c] /\ \A d \in Sockets : psubs[d] \subseteq psubs'[d]
    BY <2>1
  <2>3. InPool \subseteq Sockets
    BY <1>1, PoolTyped
  <2> HIDE DEF N
  <2>4. RoutesAgree'
    BY <1>1, <2>1, <2>2, <2>3 DEF PoolKeepsKeys, RoutesAgree
  <2>5. ASSUME NEW k, Attended(k) PROVE Attended(k)'
    <3>1. CASE \E s \in Sockets : Opening(s) /\ k \in sock[s].keys \cup sock[s].rest
      BY <1>3, <3>1 DEF Attended, Opening
    <3>2. CASE (\E d \in InPool : k \in psubs[d]) \/ (\E l \in lists : k \in l.keys)
      BY <1>1, <2>2, <2>3, <3>2 DEF Attended
    <3> QED  BY <2>5, <3>1, <3>2, AttendedWays
  <2>6. \A k \in N : Attended(k)'
    BY <1>1, <2>2 DEF Attended
  <2>7. NoneFailed' => AllAttended'
    BY <1>1, <2>1, <2>5, <2>6 DEF PoolKeepsKeys, AllAttended, NoneFailed
  <2> QED  BY <2>4, <2>7 DEF PoolKeepsKeys, NoneFailed
<1>8. \/ Nowhere(N, S, sk, e) \/ OverMain(N, S, sk, e)
      \/ \E c \in InPool : OverPool(c, N, S, sk)
      \/ OverNew(S, sk)
  BY <1>1, <1>2, SubscribeCases
<1> HIDE DEF N
<1> QED  BY <1>4, <1>5, <1>6, <1>7, <1>8

LEMMA UnsubscribeKeeps ==
  ASSUME Base, PoolKeepsKeys, NoneFailed' => NoneFailed, NEW k \in Keys, Unsubscribe(k)
  PROVE  PoolKeepsKeys'
<1>1. /\ UNCHANGED <<ex, running, pool, lists>> /\ subs' = subs \ {k} /\ TypeOK
      /\ InPool' = InPool /\ Combined' = Combined
  BY SameExchange DEF Unsubscribe, Base, InPool
<1>2. sock \in [Sockets -> Socket] /\ ex \in Exchanges /\ InPool \subseteq Sockets
      /\ psubs \in [Sockets -> SUBSET Keys] /\ route \in [Keys -> Sockets \cup {None}]
  BY <1>1, PoolTyped DEF TypeOK
<1>3. ASSUME NEW c \in Sockets,
             sock' = IF sock[c].state = "open"
                     THEN [sock EXCEPT ![c].wire = @ \ Streams({k})] ELSE sock
      PROVE  \A s \in Sockets : Opening(s) => sock'[s] = sock[s]
  <2>1. /\ \A t \in Sockets : t # c => sock'[t] = sock[t]
        /\ sock'[c] = sock[c] \/ sock[c].state = "open"
    BY <1>2, <1>3, Unwired
  <2> QED  BY <2>1 DEF Opening
<1>4. CASE ~Combined
  <2>1. main.entry \in Sockets /\ UNCHANGED <<psubs, route>>
        /\ sock' = IF sock[main.entry].state = "open"
                   THEN [sock EXCEPT ![main.entry].wire = @ \ Streams({k})] ELSE sock
    BY <1>1, <1>4, MainFields DEF Unsubscribe, RemoveFromMain
  <2>2. RoutesAgree'
    BY <1>1, <2>1 DEF PoolKeepsKeys, RoutesAgree
  <2> QED  BY <1>1, <1>4, <2>2 DEF PoolKeepsKeys, AllAttended
<1>5. CASE Combined
  <2> DEFINE c == route[k]
  <2>1. /\ route' = [route EXCEPT ![k] = None]
        /\ IF c \in InPool
           THEN /\ psubs' = [psubs EXCEPT ![c] = @ \ {k}]
                /\ sock' = IF sock[c].state = "open"
                           THEN [sock EXCEPT ![c].wire = @ \ Streams({k})] ELSE sock
           ELSE UNCHANGED <<psubs, sock>>
    BY <1>5 DEF Unsubscribe, RemoveFromConnection
  <2> HIDE DEF c
  <2>2. \A s \in Sockets : Opening(s) => sock'[s] = sock[s]
    BY <1>2, <1>3, <2>1
  <2>3. \A d \in InPool, j \in Keys : j # k /\ j \in psubs[d] => j \in psubs'[d]
    BY <1>2, <2>1
  <2>4. RoutesAgree'
    BY <1>1, <1>2, <2>1, <2>3 DEF PoolKeepsKeys, RoutesAgree
  <2>5. ASSUME NEW j \in Keys, j # k, Attended(j) PROVE Attended(j)'
    <3>1. CASE \E s \in Sockets : Opening(s) /\ j \in sock[s].keys \cup sock[s].rest
      BY <2>2, <3>1 DEF Attended, Opening
    <3>2. CASE (\E d \in InPool : j \in psubs[d]) \/ (\E l \in lists : j \in l.keys)
      BY <1>1, <2>3, <2>5, <3>2 DEF Attended
    <3> QED  BY <2>5, <3>1, <3>2, AttendedWays
  <2>6. NoneFailed' => AllAttended'
    BY <1>1, <2>5 DEF PoolKeepsKeys, AllAttended, NoneFailed, TypeOK
  <2> QED  BY <2>4, <2>6 DEF PoolKeepsKeys, NoneFailed
<1> QED  BY <1>4, <1>5

LEMMA PoolOpensKeeps ==
  ASSUME Base, PoolKeepsKeys, NoneFailed' => NoneFailed, NEW s \in Sockets, PoolOpens(s)
  PROVE  PoolKeepsKeys'
<1> DEFINE N == sock[s].keys
           R == sock[s].rest
<1>1. /\ TypeOK /\ Sound /\ UNCHANGED <<ex, running, lists>> /\ pool' = Append(pool, s)
      /\ psubs' = [psubs EXCEPT ![s] = N]
      /\ route' = [k \in Keys |-> IF k \in N THEN s ELSE route[k]]
      /\ subs' \subseteq subs \cup N
  BY DEF Base, PoolOpens
<1>2. psubs \in [Sockets -> SUBSET Keys] /\ InPool \subseteq Sockets
  BY <1>1, PoolTyped DEF TypeOK
<1>3. /\ s \notin InPool
      /\ \A t \in Sockets \ {s} : t \notin (made + 1)..made' => sock'[t] = sock[t]
      /\ \A t \in Sockets : t \in (made + 1)..made' =>
           /\ sock'[t].kind = "pool" /\ sock'[t].state = "connecting"
           /\ sock'[t].keys = R
      /\ R # {} => made + 1 \in Sockets /\ made + 1 \in (made + 1)..made'
  BY <1>1, PoolOpening
<1>4. InPool' = InPool \cup {s} /\ Combined' = Combined
  BY <1>1, <1>3, PoolAppends, SameExchange
<1> HIDE DEF N, R
<1>5. psubs'[s] = N /\ \A d \in InPool : psubs'[d] = psubs[d]
  BY <1>1, <1>2, <1>3
<1>6. RoutesAgree'
  BY <1>1, <1>4, <1>5 DEF PoolKeepsKeys, RoutesAgree
<1>7. \A k \in N : Attended(k)'
  BY <1>4, <1>5 DEF Attended
<1>8. \A k \in R : Attended(k)'
  BY <1>3 DEF Attended
<1>9. ASSUME NEW k, Attended(k) PROVE Attended(k)'
  <2>1. ASSUME NEW t \in Sockets, Opening(t), k \in sock[t].keys \cup sock[t].rest
        PROVE  Attended(k)'
    <3>1. CASE t = s
      BY <1>7, <1>8, <2>1, <3>1 DEF N, R
    <3>2. CASE t # s
      <4>1. sock'[t] = sock[t]
        BY <1>3, <2>1, <3>2, OpeningIsOld
      <4> QED  BY <2>1, <4>1 DEF Attended, Opening
    <3> QED  BY <3>1, <3>2
  <2>2. CASE (\E d \in InPool : k \in psubs[d]) \/ (\E l \in lists : k \in l.keys)
    BY <1>1, <1>4, <1>5, <2>2 DEF Attended
  <2> QED  BY <1>9, <2>1, <2>2, AttendedWays
<1>10. NoneFailed' => AllAttended'
  BY <1>1, <1>4, <1>7, <1>9 DEF PoolKeepsKeys, AllAttended, NoneFailed
<1> QED  BY <1>6, <1>10 DEF PoolKeepsKeys, NoneFailed

LEMMA PoolClosesKeeps ==
  ASSUME Base, PoolKeepsKeys, NoneFailed' => NoneFailed, NEW s \in Sockets,
         NEW end \in {"closed", "failed"}, PoolCloses(s, end),
         end = "closed" => sock[s].state \in {"open", "closing"}
  PROVE  PoolKeepsKeys'
<1>1. /\ TypeOK /\ Sound /\ UNCHANGED <<ex, running, subs>> /\ pool' = Without(s)
      /\ sock' = [sock EXCEPT ![s] = [Ended(@) EXCEPT !.state = end]]
  BY DEF Base, PoolCloses
<1>2. /\ psubs \in [Sockets -> SUBSET Keys] /\ InPool \subseteq Sockets
      /\ sock \in [Sockets -> Socket] /\ ex \in Exchanges
  BY <1>1, PoolTyped DEF TypeOK
<1>3. InPool' = InPool \ {s} /\ Combined' = Combined
  BY <1>1, PoolRemoves, SameExchange
<1>4. /\ \A t \in Sockets : t # s => sock'[t] = sock[t]
      /\ sock'[s].state = end
  BY <1>1, <1>2, EndedTyped
<1>5. /\ \A d \in InPool' : psubs'[d] = psubs[d]
      /\ lists \subseteq lists'
      /\ s \in InPool /\ running /\ psubs[s] # {} => [keys |-> psubs[s], from |-> s] \in lists'
      /\ \A k \in Keys : route'[k] # None =>
           route'[k] = route[k] /\ (s \in InPool => k \notin psubs[s])
  BY <1>2, <1>3 DEF PoolCloses
<1>6. RoutesAgree'
  <2> SUFFICES ASSUME running, NEW k \in Keys, route'[k] # None
               PROVE  route'[k] \in InPool' /\ k \in psubs'[route'[k]]
    BY <1>1 DEF RoutesAgree
  <2>1. route'[k] = route[k] /\ route[k] \in InPool /\ k \in psubs[route[k]]
    BY <1>5 DEF PoolKeepsKeys, RoutesAgree
  <2>2. route[k] # s
    BY <1>5, <2>1
  <2> QED  BY <1>3, <1>5, <2>1, <2>2
<1>7. ASSUME end = "closed", running, NEW k, Attended(k) PROVE Attended(k)'
  <2>1. ASSUME NEW t \in Sockets, Opening(t), k \in sock[t].keys \cup sock[t].rest
        PROVE  Attended(k)'
    <3>1. t # s
      BY <1>7, <2>1 DEF Opening
    <3> QED  BY <1>4, <2>1, <3>1 DEF Attended, Opening
  <2>2. ASSUME NEW d \in InPool, k \in psubs[d] PROVE Attended(k)'
    <3>1. CASE d = s
      <4>1. [keys |-> psubs[s], from |-> s] \in lists'
        BY <1>5, <1>7, <2>2, <3>1
      <4>2. k \in [keys |-> psubs[s], from |-> s].keys
        BY <2>2, <3>1
      <4> QED  BY <4>1, <4>2 DEF Attended
    <3>2. CASE d # s
      BY <1>3, <1>5, <2>2, <3>2 DEF Attended
    <3> QED  BY <3>1, <3>2
  <2>3. CASE \E l \in lists : k \in l.keys
    BY <1>5, <2>3 DEF Attended
  <2> QED  BY <1>7, <2>1, <2>2, <2>3, AttendedWays
<1>8. NoneFailed' => AllAttended'
  <2>1. NoneFailed' => end = "closed"
    BY <1>4 DEF NoneFailed
  <2> QED  BY <1>1, <1>3, <1>7, <2>1 DEF PoolKeepsKeys, AllAttended, NoneFailed
<1> QED  BY <1>6, <1>8 DEF PoolKeepsKeys, NoneFailed

LEMMA ListTimerKeeps ==
  ASSUME Base, PoolKeepsKeys, NoneFailed' => NoneFailed, NEW l \in lists, ListTimer(l), running
  PROVE  PoolKeepsKeys'
<1>1. /\ TypeOK /\ Sound /\ lists' = lists \ {l}
      /\ UNCHANGED <<ex, running, subs, pool, psubs, route>>
  BY DEF Base, ListTimer
<1>2. InPool' = InPool /\ Combined' = Combined
  BY <1>1, SameExchange DEF InPool
<1>3. PICK x \in Socket : /\ x.kind = "pool" /\ x.state = "connecting"
                          /\ l.keys \subseteq x.keys \cup x.rest
                          /\ made + 1 <= MaxSockets /\ made' = made + 1
                          /\ sock' = [sock EXCEPT ![made + 1] = x]
  <2>1. PICK chunk \in SUBSET l.keys :
          LET x == NewSocket("pool", "list", chunk, l.keys \ chunk) IN
            /\ x \in Socket /\ x.kind = "pool" /\ x.state = "connecting"
            /\ x.keys = chunk /\ x.rest = l.keys \ chunk
            /\ made + 1 <= MaxSockets /\ made' = made + 1
            /\ sock' = [sock EXCEPT ![made + 1] = x]
    BY <1>1, ListOpening
  <2> QED  BY <2>1
<1>4. /\ made + 1 \in Sockets /\ sock'[made + 1] = x
      /\ \A t \in Sockets : t # made + 1 => sock'[t] = sock[t]
      /\ \A t \in Sockets : t \in (made + 1)..made' <=> t = made + 1
  BY <1>1, <1>3, OneMore
<1>5. RoutesAgree'
  BY <1>1, <1>2 DEF PoolKeepsKeys, RoutesAgree
<1>6. \A k \in l.keys : Attended(k)'
  BY <1>3, <1>4 DEF Attended
<1>7. ASSUME NEW k, Attended(k) PROVE Attended(k)'
  <2>1. ASSUME NEW t \in Sockets, Opening(t), k \in sock[t].keys \cup sock[t].rest
        PROVE  Attended(k)'
    <3>1. t # made + 1
      BY <1>4, <2>1, OpeningIsOld
    <3> QED  BY <1>4, <2>1, <3>1 DEF Attended, Opening
  <2>2. CASE \E d \in InPool : k \in psubs[d]
    BY <1>1, <1>2, <2>2 DEF Attended
  <2>3. CASE \E m \in lists : k \in m.keys
    BY <1>1, <1>6, <2>3 DEF Attended
  <2> QED  BY <1>7, <2>1, <2>2, <2>3, AttendedWays
<1>8. NoneFailed' => AllAttended'
  BY <1>1, <1>2, <1>7 DEF PoolKeepsKeys, AllAttended, NoneFailed
<1> QED  BY <1>5, <1>8 DEF PoolKeepsKeys, NoneFailed

\* one socket changes that is no connection of the pool being opened
LEMMA OneChangesKeeps ==
  ASSUME Base, PoolKeepsKeys, NoneFailed' => NoneFailed, ex' = ex, running' => running,
         UNCHANGED <<pool, psubs, route, lists, subs>>, NEW s \in Sockets, ~Opening(s),
         NEW x, sock' = [sock EXCEPT ![s] = x]
  PROVE  PoolKeepsKeys'
<1>1. \A t \in Sockets : Opening(t) => sock'[t] = sock[t]
  BY DEF Base, TypeOK
<1> QED  BY <1>1, PoolKept

LEMMA PoolKeepsStep ==
  ASSUME Base, Life, PoolKeepsKeys, [Next]_vars
  PROVE  PoolKeepsKeys'
<1>1. ex' = ex /\ (NoneFailed' => NoneFailed) /\ TypeOK /\ Sound
  BY ExchangeStays, FailedStays DEF Base
<1>2. CASE Start \/ Stop
  <2>1. ~running'
    BY <1>2 DEF Start, Stop
  <2> QED  BY <2>1, Idle
<1>3. CASE StartReturns
  <2>1. subs' = {} /\ \A k \in Keys : route'[k] = None
    BY <1>3 DEF StartReturns, Life
  <2> QED  BY <2>1 DEF PoolKeepsKeys, AllAttended, RoutesAgree
<1>4. CASE TimerFires
  <2>1. CASE ~running
    <3>1. ~running'
      BY <1>4, <2>1 DEF TimerFires
    <3> QED  BY <3>1, Idle
  <2>2. CASE running
    <3>1. /\ UNCHANGED <<running, pool, psubs, route, lists, subs>>
          /\ \A t \in Sockets : t # made + 1 => sock'[t] = sock[t]
          /\ made' = made + 1 /\ made \in Nat
      BY <1>1, <1>4, <2>2, MarketDataEngineAssumption DEF TimerFires, Connect, TypeOK
    <3>2. \A t \in Sockets : Opening(t) => sock'[t] = sock[t]
      <4>1. made + 1 \in (made + 1)..made'
        BY <3>1
      <4> QED  BY <3>1, <4>1, OpeningIsOld
    <3> QED  BY <1>1, <3>1, <3>2, PoolKept
  <2> QED  BY <2>1, <2>2
<1>5. ASSUME NEW K \in SUBSET Keys, Subscribe(K) PROVE PoolKeepsKeys'
  <2>1. /\ subs \in SUBSET subs /\ SubscribeAll(K, subs, sock, main.entry)
        /\ main.entry \in Sockets \cup {None} /\ sock \in [Sockets -> Socket]
        /\ UNCHANGED <<ex, running, pool, lists>>
    BY <1>1, <1>5, MainFields DEF TypeOK, Subscribe
  <2> QED  BY <1>1, <2>1, SubscribeKeeps
<1>6. ASSUME NEW k \in Keys, Unsubscribe(k) PROVE PoolKeepsKeys'
  BY <1>1, <1>6, UnsubscribeKeeps
<1>7. ASSUME NEW s \in Sockets, MainOpens(s) PROVE PoolKeepsKeys'
  <2> DEFINE sk == [sock EXCEPT ![s].state = "open"]
  <2>1. /\ {} \in SUBSET subs /\ SubscribeAll(subs, {}, sk, s) /\ subs \in SUBSET Keys
        /\ s \in Sockets \cup {None} /\ sock[s].kind = "main"
        /\ UNCHANGED <<ex, running, pool, lists>>
    BY <1>1, <1>7 DEF TypeOK, MainOpens, Resubscribe
  <2>2. sk \in [Sockets -> Socket] /\ \A t \in Sockets : t # s => sk[t] = sock[t]
    BY <1>1, OpenedMain
  <2> HIDE DEF sk
  <2>3. \A t \in Sockets : Opening(t) => sk[t] = sock[t]
    BY <2>1, <2>2 DEF Opening
  <2> QED  BY <1>1, <2>1, <2>2, <2>3, SubscribeKeeps
<1>8. ASSUME NEW s \in Sockets, PoolOpens(s) PROVE PoolKeepsKeys'
  BY <1>1, <1>8, PoolOpensKeeps
<1>9. ASSUME NEW s \in Sockets, MainConnectFails(s) PROVE PoolKeepsKeys'
  <2>1. ~Opening(s) /\ sock' = [sock EXCEPT ![s] = Ended(sock[s])]
        /\ UNCHANGED <<running, pool, psubs, route, lists, subs>>
    BY <1>9 DEF MainConnectFails, Opening
  <2> QED  BY <1>1, <2>1, OneChangesKeeps
<1>10. ASSUME NEW s \in Sockets, PoolConnectFails(s) PROVE PoolKeepsKeys'
  <2>1. PoolCloses(s, "failed") /\ "failed" \in {"closed", "failed"}
    BY <1>10 DEF PoolConnectFails
  <2>2. "failed" = "closed" => sock[s].state \in {"open", "closing"}
    OBVIOUS
  <2> QED  BY <1>1, <2>1, <2>2, PoolClosesKeeps
<1>11. ASSUME NEW s \in Sockets, Drops(s) \/ CloseArrives(s) PROVE PoolKeepsKeys'
  <2>1. sock[s].state \in {"open", "closing"}
    BY <1>11 DEF Drops, CloseArrives
  <2>2. CASE sock[s].kind = "main"
    <3>1. ~Opening(s) /\ sock' = [sock EXCEPT ![s] = Ended(sock[s])]
          /\ UNCHANGED <<running, pool, psubs, route, lists, subs>>
      BY <1>11, <2>2 DEF Drops, CloseArrives, Closes, MainCloses, Opening
    <3> QED  BY <1>1, <3>1, OneChangesKeeps
  <2>3. CASE sock[s].kind # "main"
    <3>1. PoolCloses(s, "closed") /\ "closed" \in {"closed", "failed"}
      BY <1>11, <2>3 DEF Drops, CloseArrives, Closes
    <3> QED  BY <1>1, <2>1, <3>1, PoolClosesKeeps
  <2> QED  BY <2>2, <2>3
<1>12. ASSUME NEW s \in Sockets, FallsSilent(s) PROVE PoolKeepsKeys'
  <2>1. ~Opening(s) /\ sock' = [sock EXCEPT ![s] = [sock[s] EXCEPT !.silent = TRUE]]
        /\ UNCHANGED <<running, pool, psubs, route, lists, subs>>
    BY <1>12 DEF FallsSilent, Opening
  <2> QED  BY <1>1, <2>1, OneChangesKeeps
<1>13. ASSUME NEW l \in lists, ListTimer(l) PROVE PoolKeepsKeys'
  <2>1. CASE running
    BY <1>1, <1>13, <2>1, ListTimerKeeps
  <2>2. CASE ~running
    <3>1. ~running'
      BY <1>13, <2>2 DEF ListTimer
    <3> QED  BY <3>1, Idle
  <2> QED  BY <2>1, <2>2
<1>14. ASSUME NEW w \in watch, DataTimeout(w) PROVE PoolKeepsKeys'
  <2>1. PICK s \in Sockets :
          sock[s].state = "open" /\ sock' = [sock EXCEPT ![s].state = "closing"]
    BY <1>1, <1>14, MainFields DEF DataTimeout, TypeOK
  <2>2. ~Opening(s) /\ sock' = [sock EXCEPT ![s] = [sock[s] EXCEPT !.state = "closing"]]
        /\ UNCHANGED <<running, pool, psubs, route, lists, subs>>
    BY <1>14, <2>1 DEF DataTimeout, Opening
  <2> QED  BY <1>1, <2>2, OneChangesKeeps
<1>15. CASE UNCHANGED vars
  BY <1>1, <1>15, PoolKept DEF vars
<1> QED  BY <1>2, <1>3, <1>4, <1>5, <1>6, <1>7, <1>8, <1>9, <1>10, <1>11, <1>12, <1>13,
            <1>14, <1>15 DEF Next, Opens, ConnectFails

\* A key that counts as subscribed is carried by a connection of the pool, or by one that
\* is being opened or waits to be, as long as no attempt to open one fails, and the routes
\* lead to carriers: for an engine that is started once, through every loss, change and
\* restart of the main socket.
THEOREM KeysAreKept ==
  ASSUME MaxStarts <= 1
  PROVE  Spec => []PoolKeepsKeys
<1>1. Init => Base /\ Life /\ PoolKeepsKeys
  <2>1. Init => PoolKeepsKeys
    BY DEF Init, PoolKeepsKeys, AllAttended, RoutesAgree
  <2> QED  BY <2>1, InitBase, InitLife
<1>2. Base /\ Life /\ PoolKeepsKeys /\ [Next]_vars => (Base /\ Life /\ PoolKeepsKeys)'
  BY NextBase, LifeStep, PoolKeepsStep
<1> QED  BY <1>1, <1>2, PTL DEF Spec
=============================================================================
