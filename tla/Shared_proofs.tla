---------------------------- MODULE Shared_proofs ----------------------------
(***************************************************************************)
(* What processes share through Redis:                                     *)
(*   SharedMarketData, whose subscribers get the data of a key in order,   *)
(*     for any number of containers, keys and data, and a down event soon, *)
(*     for any expiry and any time between checks;                         *)
(*   SharedBalanceCache, whose record nobody gets too old, and from which  *)
(*     no process goes back to an older balance.                           *)
(***************************************************************************)
EXTENDS SharedMarketData, SharedBalanceCache, SequenceTheorems, TLAPS

-----------------------------------------------------------------------------
(* SharedMarketData: the commands on the wire are in order. *)

\* Of two commands for a key the later one carries the newer datum, unless it is
\* the second command of a datum and follows the first one of a newer datum.
Follows(c, d) ==
    IF c.ch = "own" /\ d.ch = "unified" THEN d.n < c.n ELSE c.n < d.n

Queued(w) ==
    \A i, j \in DOMAIN w : i < j /\ w[i].key = w[j].key => Follows(w[i], w[j])

\* what is on the wire has been made
Made(w, m) == \A i \in DOMAIN w : w[i].n <= m[w[i].key]

\* no datum on the wire has reached the subscriber, nor has one been made up
Unseen(w, r) == \A i \in DOMAIN w : r.last[w[i].key] < w[i].n
Seen(m, r) == \A k \in Keys : r.last[k] <= m[k]

Ordered ==
    /\ Queued(wire) /\ Made(wire, made)
    /\ \A s \in Subscribers :
          Unseen(wire, sub[s]) /\ Seen(made, sub[s]) /\ ~sub[s].back

IInv == TypeOK /\ (~May("drop") => Ordered)

-----------------------------------------------------------------------------
(* The queue of commands *)

LEMMA Tails ==
    ASSUME NEW w \in Seq(Command), w # <<>>
    PROVE  /\ Tail(w) \in Seq(Command)
           /\ 1 \in DOMAIN w /\ Head(w) = w[1] /\ Head(w) \in Command
           /\ \A i \in DOMAIN Tail(w) :
                 i + 1 \in DOMAIN w /\ Tail(w)[i] = w[i + 1] /\ 1 < i + 1
<1>1. Len(w) \in Nat \ {0} /\ DOMAIN w = 1..Len(w) /\ 1 \in DOMAIN w
  BY EmptySeq
<1>2. /\ Head(w) = w[1] /\ Head(w) \in Command
      /\ Tail(w) \in Seq(Command) /\ Len(Tail(w)) = Len(w) - 1
      /\ DOMAIN Tail(w) = 1..(Len(w) - 1)
      /\ \A i \in 1..(Len(w) - 1) : Tail(w)[i] = w[i + 1]
  BY <1>1
<1> QED  BY <1>1, <1>2

LEMMA Appends ==
    ASSUME NEW w \in Seq(Command), NEW c \in Command
    PROVE  /\ Append(w, c) \in Seq(Command)
           /\ \A j \in DOMAIN Append(w, c) :
                 \/ j \in DOMAIN w /\ Append(w, c)[j] = w[j]
                 \/ /\ Append(w, c)[j] = c
                    /\ \A i \in DOMAIN Append(w, c) :
                          i < j => i \in DOMAIN w /\ Append(w, c)[i] = w[i]
<1>1. /\ Append(w, c) \in Seq(Command)
      /\ Len(w) \in Nat /\ DOMAIN w = 1..Len(w)
      /\ DOMAIN Append(w, c) = 1..(Len(w) + 1)
      /\ \A i \in 1..Len(w) : Append(w, c)[i] = w[i]
      /\ Append(w, c)[Len(w) + 1] = c
  BY AppendProperties
<1>2. ASSUME NEW j \in DOMAIN Append(w, c)
      PROVE  \/ j \in DOMAIN w /\ Append(w, c)[j] = w[j]
             \/ /\ Append(w, c)[j] = c
                /\ \A i \in DOMAIN Append(w, c) :
                      i < j => i \in DOMAIN w /\ Append(w, c)[i] = w[i]
  <2>1. CASE j \in 1..Len(w)  BY <2>1, <1>1
  <2>2. CASE j = Len(w) + 1
    <3>1. \A i \in DOMAIN Append(w, c) : i < j => i \in 1..Len(w)
      BY <2>2, <1>1
    <3> QED  BY <2>2, <3>1, <1>1
  <2> QED  BY <2>1, <2>2, <1>1
<1> QED  BY <1>1, <1>2

LEMMA TailQueued ==
    ASSUME NEW w \in Seq(Command), w # <<>>, Queued(w)
    PROVE  Queued(Tail(w))
<1> SUFFICES ASSUME NEW i \in DOMAIN Tail(w), NEW j \in DOMAIN Tail(w),
                    i < j, Tail(w)[i].key = Tail(w)[j].key
             PROVE  Follows(Tail(w)[i], Tail(w)[j])
  BY DEF Queued
<1>1. /\ Tail(w)[i] = w[i + 1] /\ i + 1 \in DOMAIN w
      /\ Tail(w)[j] = w[j + 1] /\ j + 1 \in DOMAIN w
  BY Tails
<1>2. i \in Int /\ j \in Int
  <2>1. DOMAIN Tail(w) = 1..Len(Tail(w))  BY Tails
  <2> QED  BY <2>1
<1>3. i + 1 < j + 1  BY <1>2
<1> QED  BY <1>1, <1>3 DEF Queued

LEMMA AppendQueued ==
    ASSUME NEW w \in Seq(Command), NEW c \in Command, Queued(w),
           \A i \in DOMAIN w : w[i].key = c.key => Follows(w[i], c)
    PROVE  Queued(Append(w, c))
<1> SUFFICES ASSUME NEW i \in DOMAIN Append(w, c), NEW j \in DOMAIN Append(w, c),
                    i < j, Append(w, c)[i].key = Append(w, c)[j].key
             PROVE  Follows(Append(w, c)[i], Append(w, c)[j])
  BY DEF Queued
<1>1. CASE j \in DOMAIN w /\ Append(w, c)[j] = w[j]
  <2>1. i \in DOMAIN w /\ Append(w, c)[i] = w[i]
    <3>1. DOMAIN w = 1..Len(w) /\ Len(w) \in Nat  OBVIOUS
    <3>2. DOMAIN Append(w, c) = 1..(Len(w) + 1)
          /\ \A n \in 1..Len(w) : Append(w, c)[n] = w[n]
      BY AppendProperties
    <3>3. i \in 1..Len(w)  BY <1>1, <3>1, <3>2
    <3> QED  BY <3>1, <3>2, <3>3
  <2> QED  BY <1>1, <2>1 DEF Queued
<1>2. CASE /\ Append(w, c)[j] = c
           /\ \A n \in DOMAIN Append(w, c) :
                 n < j => n \in DOMAIN w /\ Append(w, c)[n] = w[n]
  BY <1>2
<1> QED  BY <1>1, <1>2, Appends

\* the answer to a command moves its datum to the second channel and keeps the order
LEMMA AnsweredQueued ==
    ASSUME NEW w \in Seq(Command), w # <<>>, Queued(w)
    PROVE  /\ QueueAfter(Head(w), Tail(w)) \in Seq(Command)
           /\ Queued(QueueAfter(Head(w), Tail(w)))
<1> DEFINE h == Head(w)
           u == [h EXCEPT !.ch = "unified"]
<1>1. /\ h \in Command /\ h = w[1] /\ 1 \in DOMAIN w
      /\ Tail(w) \in Seq(Command) /\ Queued(Tail(w))
  BY Tails, TailQueued
<1>2. CASE h.ch = "own"
  <2>1. /\ u \in Command /\ u.key = h.key /\ u.n = h.n /\ u.ch = "unified"
    BY <1>1 DEF Command
  <2>2. ASSUME NEW i \in DOMAIN Tail(w), Tail(w)[i].key = u.key
        PROVE  Follows(Tail(w)[i], u)
    <3>1. /\ Tail(w)[i] = w[i + 1] /\ i + 1 \in DOMAIN w /\ 1 < i + 1
      BY Tails
    <3>2. Follows(h, Tail(w)[i])
      BY <3>1, <2>2, <2>1, <1>1 DEF Queued
    <3>3. Tail(w)[i] \in Command
      BY <3>1
    <3> QED  BY <3>2, <3>3, <2>1, <1>1, <1>2 DEF Follows, Command
  <2>3. ASSUME NEW v \in Command,
               \A i \in DOMAIN Tail(w) :
                  Tail(w)[i].key = v.key => Follows(Tail(w)[i], v)
        PROVE  Queued(Append(Tail(w), v)) /\ Append(Tail(w), v) \in Seq(Command)
    BY <1>1, <2>3, AppendQueued, Appends
  <2>4. Queued(Append(Tail(w), u)) /\ Append(Tail(w), u) \in Seq(Command)
    BY <2>1, <2>2, <2>3
  <2> QED  BY <1>2, <2>4 DEF QueueAfter
<1>3. CASE h.ch # "own"
  BY <1>1, <1>3 DEF QueueAfter
<1> QED  BY <1>2, <1>3

\* what is on the wire then was there before, and the first command is gone unless
\* it was the first of its datum
LEMMA AnsweredKeeps ==
    ASSUME NEW w \in Seq(Command), w # <<>>,
           NEW j \in DOMAIN QueueAfter(Head(w), Tail(w))
    PROVE  \E i \in DOMAIN w :
              /\ QueueAfter(Head(w), Tail(w))[j].key = w[i].key
              /\ QueueAfter(Head(w), Tail(w))[j].n = w[i].n
              /\ Head(w).ch = "own" \/ 1 < i
<1> DEFINE h == Head(w)
           u == [h EXCEPT !.ch = "unified"]
<1>1. /\ h \in Command /\ h = w[1] /\ 1 \in DOMAIN w
      /\ Tail(w) \in Seq(Command)
      /\ \A i \in DOMAIN Tail(w) :
            i + 1 \in DOMAIN w /\ Tail(w)[i] = w[i + 1] /\ 1 < i + 1
  BY Tails
<1>2. CASE h.ch = "own"
  <2>1. u \in Command /\ u.key = h.key /\ u.n = h.n
    BY <1>1 DEF Command
  <2>2. ASSUME NEW v \in Command, NEW l \in DOMAIN Append(Tail(w), v)
        PROVE  \/ l \in DOMAIN Tail(w) /\ Append(Tail(w), v)[l] = Tail(w)[l]
               \/ Append(Tail(w), v)[l] = v
    BY <1>1, Appends
  <2>3. QueueAfter(h, Tail(w)) = Append(Tail(w), u)
    BY <1>2 DEF QueueAfter
  <2>4. \/ j \in DOMAIN Tail(w) /\ Append(Tail(w), u)[j] = Tail(w)[j]
        \/ Append(Tail(w), u)[j] = u
    BY <2>1, <2>2, <2>3
  <2> QED  BY <1>1, <1>2, <2>1, <2>3, <2>4
<1>3. CASE h.ch # "own"
  BY <1>1, <1>3 DEF QueueAfter
<1> QED  BY <1>2, <1>3

LEMMA AnsweredMade ==
    ASSUME NEW w \in Seq(Command), w # <<>>, NEW m, Made(w, m)
    PROVE  Made(QueueAfter(Head(w), Tail(w)), m)
BY AnsweredKeeps DEF Made

-----------------------------------------------------------------------------
(* What a subscriber receives *)

LEMMA Receiving ==
    ASSUME NEW r \in Subscriber, NEW c \in Command
    PROVE  /\ Received(r, c) \in Subscriber
           /\ \/ Received(r, c) = r
              \/ c.ch = "unified" /\ c.n <= r.last[c.key]
              \/ /\ c.ch = "unified"
                 /\ Received(r, c).back = r.back
                 /\ Received(r, c).last = [r.last EXCEPT ![c.key] = c.n]
<1>1. /\ c.key \in Keys /\ c.n \in Nat /\ c.ch \in {"own", "unified"}
      /\ r.last \in [Keys -> Nat]
  BY DEF Command, Subscriber
<1>2. [r EXCEPT !.back = TRUE] \in Subscriber
  BY DEF Subscriber
<1>3. /\ [r EXCEPT !.last[c.key] = c.n] \in Subscriber
      /\ [r EXCEPT !.last[c.key] = c.n].back = r.back
      /\ [r EXCEPT !.last[c.key] = c.n].last = [r.last EXCEPT ![c.key] = c.n]
  BY <1>1 DEF Subscriber
<1>4. CASE ~r.up \/ c.ch = "own" \/ c.key \notin r.filter
  BY <1>4 DEF Received
<1>5. CASE /\ ~(~r.up \/ c.ch = "own" \/ c.key \notin r.filter)
           /\ c.n > r.last[c.key]
  <2>1. Received(r, c) = [r EXCEPT !.last[c.key] = c.n]
    BY <1>5 DEF Received
  <2> QED  BY <1>1, <1>3, <1>5, <2>1
<1>6. CASE /\ ~(~r.up \/ c.ch = "own" \/ c.key \notin r.filter)
           /\ ~(c.n > r.last[c.key])
  <2>1. Received(r, c) = [r EXCEPT !.back = TRUE]
    BY <1>6 DEF Received
  <2>2. c.n <= r.last[c.key]
    BY <1>1, <1>6
  <2> QED  BY <1>1, <1>2, <1>6, <2>1, <2>2
<1> QED  BY <1>4, <1>5, <1>6

\* the oldest command is news to everybody, and older than the rest
LEMMA Delivering ==
    ASSUME NEW w \in Seq(Command), w # <<>>, NEW m \in [Keys -> Nat],
           Queued(w), Made(w, m),
           NEW r \in Subscriber, Unseen(w, r), Seen(m, r), ~r.back
    PROVE  /\ Unseen(QueueAfter(Head(w), Tail(w)), Received(r, Head(w)))
           /\ Seen(m, Received(r, Head(w)))
           /\ ~Received(r, Head(w)).back
<1> DEFINE h == Head(w)
           q == Received(r, h)
<1>1. h \in Command /\ h = w[1] /\ 1 \in DOMAIN w
  BY Tails
<1>2. h.key \in Keys /\ h.n \in Nat /\ r.last \in [Keys -> Nat]
  BY <1>1 DEF Command, Subscriber
<1>3. r.last[h.key] < h.n /\ h.n <= m[h.key]
  BY <1>1 DEF Unseen, Made
<1>4. CASE q = r
  <2>1. Unseen(QueueAfter(h, Tail(w)), r)
    BY AnsweredKeeps DEF Unseen
  <2> QED  BY <1>4, <2>1
<1>5. CASE h.ch = "unified" /\ q.back = r.back
           /\ q.last = [r.last EXCEPT ![h.key] = h.n]
  <2>1. Seen(m, q)
    BY <1>2, <1>3, <1>5 DEF Seen
  <2>2. ASSUME NEW j \in DOMAIN QueueAfter(h, Tail(w))
        PROVE  q.last[QueueAfter(h, Tail(w))[j].key] < QueueAfter(h, Tail(w))[j].n
    <3>1. PICK i \in DOMAIN w : /\ QueueAfter(h, Tail(w))[j].key = w[i].key
                                /\ QueueAfter(h, Tail(w))[j].n = w[i].n
                                /\ 1 < i
      BY <1>5, AnsweredKeeps
    <3>2. w[i] \in Command /\ w[i].key \in Keys /\ w[i].n \in Nat
      <4>1. w[i] \in Command  OBVIOUS
      <4> QED  BY <4>1 DEF Command
    <3>3. r.last[w[i].key] < w[i].n
      BY DEF Unseen
    <3>4. w[i].key = h.key => h.n < w[i].n
      BY <1>1, <1>5, <3>1, <3>2 DEF Queued, Follows
    <3> QED  BY <1>2, <1>5, <3>1, <3>2, <3>3, <3>4
  <2> QED  BY <1>5, <2>1, <2>2 DEF Unseen
<1> QED  BY <1>1, <1>2, <1>3, <1>4, <1>5, Receiving DEF Command

-----------------------------------------------------------------------------
(* Types *)

LEMMA AwayTyped ==
    Away \in Subscriber
BY SharedMarketDataAssumption DEF Away, Subscriber

LEMMA InitTyped == Init => TypeOK
BY AwayTyped, SharedMarketDataAssumption DEF Init, TypeOK, LongestWait

\* the service, its engine and its heartbeat
LEMMA ServiceTyped ==
    ASSUME TypeOK,
           \/ Starts \/ Listens \/ Stops \/ Ends \/ Handle
           \/ \E k \in Keys : Opened(k)
    PROVE  TypeOK'
<1> USE SharedMarketDataAssumption DEF TypeOK, engine, clocks, feed
<1>1. CASE Starts  BY <1>1 DEF Starts, LongestWait
<1>2. CASE Listens  BY <1>2 DEF Listens
<1>3. CASE Stops  BY <1>3 DEF Stops, LongestWait
<1>4. CASE Ends
  BY <1>4 DEF Ends, LongestWait
<1>5. CASE Handle
  <2>1. Head(asked) \in Request /\ Tail(asked) \in Seq(Request)
    BY <1>5 DEF Handle
  <2>2. Head(asked).key \in Keys
    BY <2>1 DEF Request
  <2> QED  BY <1>5, <2>1, <2>2 DEF Handle
<1>6. ASSUME NEW k \in Keys, Opened(k) PROVE TypeOK'
  BY <1>6 DEF Opened
<1> QED  BY <1>1, <1>2, <1>3, <1>4, <1>5, <1>6

\* data and the commands that carry them
LEMMA FeedTyped ==
    ASSUME TypeOK, Published \/ Drops \/ \E k \in Keys : Emits(k)
    PROVE  TypeOK'
<1> USE DEF TypeOK, engine, clocks, feed
<1>1. CASE Published
  <2>1. wire \in Seq(Command) /\ wire # <<>> /\ Head(wire) \in Command
    BY <1>1, Tails DEF Published
  <2>2. QueueAfter(Head(wire), Tail(wire)) \in Seq(Command)
    <3>1. Tail(wire) \in Seq(Command)  BY <2>1, Tails
    <3>2. [Head(wire) EXCEPT !.ch = "unified"] \in Command
      BY <2>1 DEF Command
    <3> QED  BY <3>1, <3>2 DEF QueueAfter
  <2>3. \A s \in Subscribers : Received(sub[s], Head(wire)) \in Subscriber
    BY <2>1, Receiving
  <2> QED  BY <1>1, <2>2, <2>3 DEF Published
<1>2. CASE Drops
  <2>1. wire \in Seq(Command) /\ wire # <<>> /\ Head(wire) \in Command
    BY <1>2, Tails DEF Drops
  <2>2. \A s \in Subscribers : Received(sub[s], Head(wire)) \in Subscriber
    BY <2>1, Receiving
  <2> QED  BY <1>2, <2>2 DEF Drops
<1>3. ASSUME NEW k \in Keys, Emits(k) PROVE TypeOK'
  <2>1. [ch |-> "own", key |-> k, n |-> made[k] + 1] \in Command
    BY DEF Command
  <2>2. wire' \in Seq(Command)
    BY <1>3, <2>1 DEF Emits
  <2> QED  BY <1>3, <2>2 DEF Emits
<1> QED  BY <1>1, <1>2, <1>3

\* a request changes one filter
LEMMA RequestTyped ==
    ASSUME TypeOK, NEW s \in Subscribers, NEW k \in Keys,
           Subscribe(s, k) \/ Unsubscribe(s, k)
    PROVE  TypeOK'
<1>1. \A action \in {"subscribe", "unsubscribe"} :
         Sends(action, k) => asked' \in Seq(Request)
  <2> SUFFICES ASSUME NEW action \in {"subscribe", "unsubscribe"},
                      Sends(action, k)
               PROVE  asked' \in Seq(Request)
    OBVIOUS
  <2>1. [action |-> action, key |-> k] \in Request
    BY DEF Request
  <2>2. Append(asked, [action |-> action, key |-> k]) \in Seq(Request)
    BY <2>1 DEF TypeOK
  <2> QED  BY <2>2 DEF Sends, TypeOK
<1>2. \A F \in SUBSET Keys : [sub[s] EXCEPT !.filter = F] \in Subscriber
  BY DEF TypeOK, Subscriber
<1>3. sub[s].filter \subseteq Keys
  BY DEF TypeOK, Subscriber
<1>4. sub' \in [Subscribers -> Subscriber]
  BY <1>2, <1>3 DEF Subscribe, Unsubscribe, TypeOK
<1> QED  BY <1>1, <1>4 DEF Subscribe, Unsubscribe, Sends, TypeOK, clocks, feed

Told == {"nothing", "online", "offline"}
Checks == Seq({"main", "wasAlive", "wasDead"})

\* what a subscriber's checks may do to its record
LEMMA RecordTyped ==
    ASSUME NEW r \in Subscriber
    PROVE  /\ r.checks \in Checks /\ r.told \in Told /\ r.next \in Nat
           /\ \A q \in Checks, n \in 0..CheckEvery :
                 [r EXCEPT !.checks = q, !.next = n] \in Subscriber
           /\ \A q \in Checks, t \in Told :
                 [r EXCEPT !.checks = q, !.told = t] \in Subscriber
           /\ \A q \in Checks, b \in BOOLEAN, t \in Told :
                 [r EXCEPT !.checks = q, !.alive = b, !.told = t] \in Subscriber
           /\ \A n \in 0..CheckEvery : [r EXCEPT !.next = n] \in Subscriber
           /\ \A q \in Checks, n \in 0..CheckEvery :
                 [r EXCEPT !.up = TRUE, !.checks = q, !.next = n] \in Subscriber
<1>1. r.checks \in Checks /\ r.told \in Told /\ r.next \in Nat
  BY SharedMarketDataAssumption DEF Subscriber, Checks, Told
<1>2. \A q \in Checks, n \in 0..CheckEvery :
         [r EXCEPT !.checks = q, !.next = n] \in Subscriber
  BY DEF Subscriber, Checks
<1>3. \A q \in Checks, t \in Told :
         [r EXCEPT !.checks = q, !.told = t] \in Subscriber
  BY DEF Subscriber, Checks, Told
<1>4. \A q \in Checks, b \in BOOLEAN, t \in Told :
         [r EXCEPT !.checks = q, !.alive = b, !.told = t] \in Subscriber
  BY DEF Subscriber, Checks, Told
<1>5. \A n \in 0..CheckEvery : [r EXCEPT !.next = n] \in Subscriber
  BY DEF Subscriber
<1>6. \A q \in Checks, n \in 0..CheckEvery :
         [r EXCEPT !.up = TRUE, !.checks = q, !.next = n] \in Subscriber
  BY DEF Subscriber, Checks
<1> QED  BY <1>1, <1>2, <1>3, <1>4, <1>5, <1>6

LEMMA ChecksTyped ==
    ASSUME NEW q \in Checks
    PROVE  /\ \A c \in {"main", "wasAlive", "wasDead"} : Append(q, c) \in Checks
           /\ q # <<>> => Tail(q) \in Checks
BY DEF Checks

\* a subscriber's life and its checks
LEMMA SubscriberTyped ==
    ASSUME TypeOK, NEW s \in Subscribers,
           \/ Connects(s) \/ Disconnects(s) \/ ChecksStatus(s)
           \/ StatusKnown(s) \/ StatusUnknown(s)
    PROVE  TypeOK'
<1> USE DEF engine, clocks, feed
<1> DEFINE r == sub[s]
<1>1. r \in Subscriber /\ r.checks \in Checks /\ r.told \in Told
  BY RecordTyped DEF TypeOK
<1>2. \A q \in Subscriber :
         sub' = [sub EXCEPT ![s] = q] => sub' \in [Subscribers -> Subscriber]
  BY DEF TypeOK
<1>3. sub' \in [Subscribers -> Subscriber]
  <2>1. CASE Connects(s)
    <3>1. [Away EXCEPT !.up = TRUE, !.checks = <<"main">>, !.next = CheckEvery]
              \in Subscriber
      <4>1. <<"main">> \in Checks /\ CheckEvery \in 0..CheckEvery
        BY SharedMarketDataAssumption DEF Checks
      <4> QED  BY <4>1, AwayTyped, RecordTyped
    <3> QED  BY <1>2, <2>1, <3>1 DEF Connects
  <2>2. CASE Disconnects(s)
    BY <1>2, <2>2, AwayTyped DEF Disconnects
  <2>3. CASE ChecksStatus(s)
    <3> DEFINE q == Append(r.checks, IF r.alive THEN "wasAlive" ELSE "wasDead")
    <3>1. q \in Checks /\ CheckEvery \in 0..CheckEvery
      BY <1>1, ChecksTyped, SharedMarketDataAssumption
    <3>2. sub' = [sub EXCEPT ![s] = [r EXCEPT !.checks = q, !.next = CheckEvery]]
      BY <2>3 DEF ChecksStatus, TypeOK
    <3>3. [r EXCEPT !.checks = q, !.next = CheckEvery] \in Subscriber
      <4> HIDE DEF q
      <4> QED  BY <1>1, <3>1, RecordTyped
    <3> QED  BY <1>2, <3>2, <3>3
  <2>4. \A b \in BOOLEAN : Tells(r, b) \in Told
    BY <1>1 DEF Tells, Told
  <2>5. CASE StatusKnown(s)
    <3> DEFINE b == (beat > 0)
    <3>1. Tail(r.checks) \in Checks /\ b \in BOOLEAN
      BY <1>1, <2>5, ChecksTyped DEF StatusKnown
    <3>2. sub' = [sub EXCEPT ![s] = [r EXCEPT !.checks = Tail(r.checks),
                                              !.alive = b,
                                              !.told = Tells(r, b)]]
      BY <2>5 DEF StatusKnown, TypeOK
    <3>3. [r EXCEPT !.checks = Tail(r.checks), !.alive = b,
                    !.told = Tells(r, b)] \in Subscriber
      <4> HIDE DEF b
      <4> QED  BY <1>1, <2>4, <3>1, RecordTyped
    <3> QED  BY <1>2, <3>2, <3>3
  <2>6. CASE StatusUnknown(s)
    <3>1. Tail(r.checks) \in Checks
      BY <1>1, <2>6, ChecksTyped DEF StatusUnknown
    <3>2. sub' = [sub EXCEPT ![s] = [r EXCEPT !.checks = Tail(r.checks),
                                              !.told = Tells(r, FALSE)]]
      BY <2>6 DEF StatusUnknown, TypeOK
    <3>3. [r EXCEPT !.checks = Tail(r.checks), !.told = Tells(r, FALSE)]
              \in Subscriber
      BY <1>1, <2>4, <3>1, RecordTyped
    <3> QED  BY <1>2, <3>2, <3>3
  <2> QED  BY <2>1, <2>2, <2>3, <2>5, <2>6
<1> QED
  BY <1>3 DEF Connects, Disconnects, ChecksStatus, StatusKnown, StatusUnknown,
              TypeOK

LEMMA TickTyped ==
    ASSUME TypeOK, Tick
    PROVE  TypeOK'
<1>1. \A s \in Subscribers :
         [sub[s] EXCEPT !.next = Decreased(sub[s].next)] \in Subscriber
  <2> SUFFICES ASSUME NEW s \in Subscribers
               PROVE  [sub[s] EXCEPT !.next = Decreased(sub[s].next)]
                         \in Subscriber
    OBVIOUS
  <2>1. sub[s] \in Subscriber /\ sub[s].next \in 0..CheckEvery
    BY DEF TypeOK, Subscriber
  <2>2. Decreased(sub[s].next) \in 0..CheckEvery
    BY <2>1, SharedMarketDataAssumption DEF Decreased
  <2> QED  BY <2>1, <2>2, RecordTyped
<1>2. beat' \in 0..Expiry
  BY SharedMarketDataAssumption DEF Tick, TypeOK, Decreased
<1>3. steady' \in 0..LongestWait
  BY SharedMarketDataAssumption DEF Tick, TypeOK, LongestWait
<1> QED  BY <1>1, <1>2, <1>3 DEF Tick, TypeOK, engine, feed

LEMMA NextTyped == TypeOK /\ [Next]_vars => TypeOK'
<1> SUFFICES ASSUME TypeOK, [Next]_vars PROVE TypeOK'
  OBVIOUS
<1>1. CASE UNCHANGED vars
  BY <1>1 DEF vars, engine, clocks, feed, TypeOK
<1>2. CASE Next
  BY <1>2, ServiceTyped, FeedTyped, RequestTyped, SubscriberTyped, TickTyped
     DEF Next
<1> QED  BY <1>1, <1>2

\* Every variable keeps its type for any containers, keys, plans and expiry.
THEOREM Typing == Spec => []TypeOK
BY InitTyped, NextTyped, PTL DEF Spec

-----------------------------------------------------------------------------
(* Order *)

LEMMA InitOrdered == Init => Ordered
BY AwayTyped DEF Init, Ordered, Queued, Made, Unseen, Seen, Away

\* what is neither made, published nor received changes no order
LEMMA SameOrdered ==
    ASSUME TypeOK, Ordered, UNCHANGED feed,
           \A s \in Subscribers : sub'[s].last = sub[s].last
                                  /\ sub'[s].back = sub[s].back
    PROVE  Ordered'
BY DEF Ordered, Queued, Made, Unseen, Seen, feed

\* a process that starts again has received nothing
LEMMA AwayOrdered ==
    ASSUME TypeOK, Ordered, NEW s \in Subscribers, UNCHANGED feed,
           NEW r, r.last = [k \in Keys |-> 0], r.back = FALSE,
           sub' = [sub EXCEPT ![s] = r]
    PROVE  Ordered'
<1>1. wire' = wire /\ made' = made
  BY DEF feed
<1>2. wire \in Seq(Command) /\ made \in [Keys -> Nat]
      /\ sub[s].last \in [Keys -> Nat] /\ sub'[s] = r
  BY DEF TypeOK, Subscriber
<1>3. Unseen(wire, r)
  <2> SUFFICES ASSUME NEW i \in DOMAIN wire
               PROVE  r.last[wire[i].key] < wire[i].n
    BY DEF Unseen
  <2>1. wire[i] \in Command
    BY <1>2
  <2>2. wire[i].key \in Keys /\ wire[i].n \in Nat
    BY <2>1 DEF Command
  <2>3. sub[s].last[wire[i].key] < wire[i].n
    BY DEF Ordered, Unseen
  <2>4. sub[s].last[wire[i].key] \in Nat
    BY <1>2, <2>2
  <2> QED  BY <2>2, <2>3, <2>4
<1>4. Seen(made, r)
  BY <1>2 DEF Seen
<1>5. \A t \in Subscribers :
         Unseen(wire, sub'[t]) /\ Seen(made, sub'[t]) /\ ~sub'[t].back
  <2> SUFFICES ASSUME NEW t \in Subscribers
               PROVE  Unseen(wire, sub'[t]) /\ Seen(made, sub'[t]) /\ ~sub'[t].back
    OBVIOUS
  <2>1. CASE t = s  BY <2>1, <1>2, <1>3, <1>4
  <2>2. CASE t # s
    <3>1. sub'[t] = sub[t]  BY <2>2 DEF TypeOK
    <3> QED  BY <3>1 DEF Ordered
  <2> QED  BY <2>1, <2>2
<1> QED  BY <1>1, <1>5 DEF Ordered

\* the newest datum of its key goes to the end
LEMMA EmitsOrdered ==
    ASSUME TypeOK, Ordered, NEW k \in Keys, Emits(k)
    PROVE  Ordered'
<1> DEFINE c == [ch |-> "own", key |-> k, n |-> made[k] + 1]
<1>1. /\ wire \in Seq(Command) /\ made \in [Keys -> Nat] /\ c \in Command
      /\ made' = [made EXCEPT ![k] = made[k] + 1]
      /\ wire' = Append(wire, c) /\ sub' = sub
  BY DEF Emits, TypeOK, Command
<1>2. /\ c.key = k /\ c.n = made[k] + 1 /\ c.ch = "own"
      /\ made' \in [Keys -> Nat] /\ \A l \in Keys : made[l] <= made'[l]
      /\ made'[k] = made[k] + 1
  BY <1>1
<1>3. ASSUME NEW i \in DOMAIN wire
      PROVE  /\ wire[i] \in Command /\ wire[i].key \in Keys /\ wire[i].n \in Nat
             /\ wire[i].n <= made[wire[i].key]
  <2>1. wire[i] \in Command  BY <1>1
  <2> QED  BY <2>1 DEF Command, Ordered, Made
<1>4. \A i \in DOMAIN wire : wire[i].key = c.key => Follows(wire[i], c)
  BY <1>1, <1>2, <1>3 DEF Follows
<1> HIDE DEF c
<1>5. Queued(Append(wire, c))
  BY <1>1, <1>4, AppendQueued DEF Ordered
<1>6. Made(Append(wire, c), made')
  <2> SUFFICES ASSUME NEW j \in DOMAIN Append(wire, c)
               PROVE  Append(wire, c)[j].n <= made'[Append(wire, c)[j].key]
    BY DEF Made
  <2>1. CASE j \in DOMAIN wire /\ Append(wire, c)[j] = wire[j]
    <3>1. wire[j].n <= made[wire[j].key] /\ made[wire[j].key] <= made'[wire[j].key]
          /\ made[wire[j].key] \in Nat /\ made'[wire[j].key] \in Nat
          /\ wire[j].n \in Nat
      BY <1>1, <1>2, <1>3, <2>1
    <3> QED  BY <2>1, <3>1
  <2>2. CASE Append(wire, c)[j] = c
    BY <1>1, <1>2, <2>2
  <2> QED  BY <1>1, <2>1, <2>2, Appends
<1>7. ASSUME NEW s \in Subscribers
      PROVE  Unseen(Append(wire, c), sub[s]) /\ Seen(made', sub[s]) /\ ~sub[s].back
  <2>1. /\ Unseen(wire, sub[s]) /\ Seen(made, sub[s]) /\ ~sub[s].back
        /\ sub[s].last \in [Keys -> Nat]
    BY DEF Ordered, TypeOK, Subscriber
  <2>2. Seen(made', sub[s])
    <3> SUFFICES ASSUME NEW l \in Keys PROVE sub[s].last[l] <= made'[l]
      BY DEF Seen
    <3>1. sub[s].last[l] <= made[l] /\ made[l] <= made'[l]
          /\ made[l] \in Nat /\ made'[l] \in Nat /\ sub[s].last[l] \in Nat
      BY <1>1, <1>2, <2>1 DEF Seen
    <3> QED  BY <3>1
  <2>3. sub[s].last[c.key] < c.n
    <3>1. sub[s].last[k] <= made[k] /\ made[k] \in Nat /\ sub[s].last[k] \in Nat
      BY <1>1, <2>1 DEF Seen
    <3> QED  BY <1>2, <3>1
  <2>4. Unseen(Append(wire, c), sub[s])
    <3> SUFFICES ASSUME NEW j \in DOMAIN Append(wire, c)
                 PROVE  sub[s].last[Append(wire, c)[j].key] < Append(wire, c)[j].n
      BY DEF Unseen
    <3>1. \/ j \in DOMAIN wire /\ Append(wire, c)[j] = wire[j]
          \/ Append(wire, c)[j] = c
      BY <1>1, Appends
    <3> QED  BY <2>1, <2>3, <3>1 DEF Unseen
  <2> QED  BY <2>1, <2>2, <2>4
<1> QED  BY <1>1, <1>5, <1>6, <1>7 DEF Ordered

LEMMA PublishedOrdered ==
    ASSUME TypeOK, Ordered, Published
    PROVE  Ordered'
<1>1. /\ wire \in Seq(Command) /\ wire # <<>> /\ made \in [Keys -> Nat]
      /\ Queued(wire) /\ Made(wire, made)
      /\ wire' = QueueAfter(Head(wire), Tail(wire)) /\ made' = made
  BY DEF Published, TypeOK, Ordered
<1>2. Queued(wire') /\ Made(wire', made')
  BY <1>1, AnsweredQueued, AnsweredMade
<1>3. ASSUME NEW s \in Subscribers
      PROVE  Unseen(wire', sub'[s]) /\ Seen(made', sub'[s]) /\ ~sub'[s].back
  <2>1. sub'[s] = Received(sub[s], Head(wire))
    BY DEF Published
  <2>2. /\ sub[s] \in Subscriber
        /\ Unseen(wire, sub[s]) /\ Seen(made, sub[s]) /\ ~sub[s].back
    BY DEF TypeOK, Ordered
  <2> QED  BY <1>1, <2>1, <2>2, Delivering
<1> QED  BY <1>2, <1>3 DEF Ordered

LEMMA EndsOrdered ==
    ASSUME Ordered, Ends
    PROVE  Ordered'
BY DEF Ends, Ordered, Queued, Made, Unseen, Seen

LEMMA NextOrdered ==
    ASSUME TypeOK, Ordered, Next, ~May("drop")
    PROVE  Ordered'
<1>1. CASE Starts \/ Listens \/ Stops \/ Handle
  <2>1. UNCHANGED feed /\ sub' = sub
    BY <1>1 DEF Starts, Listens, Stops, Handle, feed
  <2> QED  BY <2>1, SameOrdered
<1>2. CASE Ends  BY <1>2, EndsOrdered
<1>3. CASE Published  BY <1>3, PublishedOrdered
<1>4. CASE Drops  BY <1>4 DEF Drops
<1>5. CASE Tick
  <2>1. UNCHANGED feed
    BY <1>5 DEF Tick
  <2>2. \A s \in Subscribers : sub'[s].last = sub[s].last
                               /\ sub'[s].back = sub[s].back
    BY <1>5 DEF Tick, TypeOK, Subscriber
  <2> QED  BY <2>1, <2>2, SameOrdered
<1>6. ASSUME NEW k \in Keys, Opened(k) PROVE Ordered'
  <2>1. UNCHANGED feed /\ sub' = sub
    BY <1>6 DEF Opened, feed
  <2> QED  BY <2>1, SameOrdered
<1>7. ASSUME NEW k \in Keys, Emits(k) PROVE Ordered'
  BY <1>7, EmitsOrdered
<1>8. ASSUME NEW s \in Subscribers, Connects(s) \/ Disconnects(s)
      PROVE  Ordered'
  <2>1. CASE Connects(s)
    <3> DEFINE r == [Away EXCEPT !.up = TRUE, !.checks = <<"main">>,
                                 !.next = CheckEvery]
    <3>1. r.last = [k \in Keys |-> 0] /\ r.back = FALSE
      BY DEF Away
    <3>2. UNCHANGED feed /\ sub' = [sub EXCEPT ![s] = r]
      BY <2>1 DEF Connects
    <3> HIDE DEF r
    <3> QED  BY <3>1, <3>2, AwayOrdered
  <2>2. CASE Disconnects(s)
    <3>1. Away.last = [k \in Keys |-> 0] /\ Away.back = FALSE
      BY DEF Away
    <3>2. UNCHANGED feed /\ sub' = [sub EXCEPT ![s] = Away]
      BY <2>2 DEF Disconnects
    <3> QED  BY <3>1, <3>2, AwayOrdered
  <2> QED  BY <1>8, <2>1, <2>2
<1>9. ASSUME NEW s \in Subscribers,
             \/ ChecksStatus(s) \/ StatusKnown(s) \/ StatusUnknown(s)
             \/ \E k \in Keys : Subscribe(s, k) \/ Unsubscribe(s, k)
      PROVE  Ordered'
  <2>1. UNCHANGED feed
    BY <1>9 DEF ChecksStatus, StatusKnown, StatusUnknown, Subscribe,
                Unsubscribe, Sends
  <2>2. \A t \in Subscribers : sub[t] \in Subscriber
    BY DEF TypeOK
  <2>3. \A t \in Subscribers : sub'[t].last = sub[t].last
                               /\ sub'[t].back = sub[t].back
    <3>1. CASE ChecksStatus(s)
      BY <3>1, <2>2 DEF ChecksStatus, TypeOK, Subscriber
    <3>2. CASE StatusKnown(s)
      BY <3>2, <2>2 DEF StatusKnown, TypeOK, Subscriber
    <3>3. CASE StatusUnknown(s)
      BY <3>3, <2>2 DEF StatusUnknown, TypeOK, Subscriber
    <3>4. CASE \E k \in Keys : Subscribe(s, k)
      BY <3>4, <2>2 DEF Subscribe, TypeOK, Subscriber
    <3>5. CASE \E k \in Keys : Unsubscribe(s, k)
      BY <3>5, <2>2 DEF Unsubscribe, TypeOK, Subscriber
    <3> QED  BY <1>9, <3>1, <3>2, <3>3, <3>4, <3>5
  <2> QED  BY <2>1, <2>3, SameOrdered
<1> QED  BY <1>1, <1>2, <1>3, <1>4, <1>5, <1>6, <1>7, <1>8, <1>9 DEF Next

\* the plan is made once
LEMMA PlanKept ==
    ASSUME [Next]_vars
    PROVE  plan' = plan
BY DEF Next, vars, Starts, Listens, Stops, Ends, Handle, Published, Drops, Tick,
       Opened, Emits, Connects, Disconnects, ChecksStatus, StatusKnown,
       StatusUnknown, Subscribe, Unsubscribe, Sends

LEMMA NextIInv == IInv /\ [Next]_vars => IInv'
<1> SUFFICES ASSUME IInv, [Next]_vars PROVE IInv'
  OBVIOUS
<1>1. TypeOK'
  BY NextTyped DEF IInv
<1>2. ASSUME ~May("drop"), Next PROVE Ordered'
  BY <1>2, NextOrdered DEF IInv
<1>3. ASSUME ~May("drop"), UNCHANGED vars PROVE Ordered'
  BY <1>3, SameOrdered DEF IInv, vars
<1>4. May("drop")' <=> May("drop")
  BY PlanKept DEF May
<1> QED  BY <1>1, <1>2, <1>3, <1>4 DEF IInv

\* Every subscriber gets the data of a key in the order the engine emitted them and
\* none twice, with any number of containers, keys and commands under way.
THEOREM DataInOrder == Spec => []InOrder
<1>1. Init => IInv
  BY InitTyped, InitOrdered DEF IInv
<1>2. IInv => InOrder
  BY DEF IInv, Ordered, InOrder
<1> QED  BY <1>1, <1>2, NextIInv, PTL DEF Spec

-----------------------------------------------------------------------------
(* The last word *)

\* the heartbeat outlives a service that went by its expiry and no longer
Pulse(beating, left, n, trouble) ==
    IF beating THEN "mute" \notin trouble => left > 0
    ELSE left = 0 \/ left + n <= Expiry

\* a subscriber's word and its check under way agree with serviceAlive, which
\* only a check that failed may contradict
Sober(r, trouble) ==
    /\ r.told # "nothing" \/ r.checks # <<>> => r.up
    /\ r.told = "online" => r.alive
    /\ r.told = "offline" /\ "fail" \notin trouble => ~r.alive
    /\ r.checks # <<>> =>
          /\ r.next > 0 /\ Tail(r.checks) = <<>>
          /\ Head(r.checks) = "wasAlive" => r.alive
          /\ Head(r.checks) = "wasDead" => ~r.alive

\* a wrong word is followed by a check before its time is up
Timely(r, word, n, bound) ==
    r.told = word => IF r.checks = <<>> THEN n + r.next <= bound ELSE n <= bound

Heard(r, beating, n, trouble) ==
    /\ ~beating => Timely(r, "online", n, Expiry + CheckEvery)
    /\ beating /\ trouble \cap {"fail", "mute"} = {}
          => Timely(r, "offline", n, CheckEvery)

Clocked ==
    /\ Pulse(Beating, beat, steady, plan.trouble)
    /\ \A s \in Subscribers : /\ Sober(sub[s], plan.trouble)
                              /\ Heard(sub[s], Beating, steady, plan.trouble)

ClockInv == TypeOK /\ (~May("slow") => Clocked)

LEMMA Durations ==
    ASSUME TypeOK
    PROVE  /\ Expiry \in Nat \ {0} /\ CheckEvery \in Nat \ {0}
           /\ beat \in Nat /\ beat <= Expiry /\ steady \in Nat
           /\ \A s \in Subscribers :
                 /\ sub[s] \in Subscriber
                 /\ sub[s].next \in Nat /\ sub[s].next <= CheckEvery
BY SharedMarketDataAssumption DEF TypeOK, LongestWait, Subscriber

LEMMA AwayClocked ==
    ASSUME NEW beating \in BOOLEAN, NEW n, NEW trouble
    PROVE  Sober(Away, trouble) /\ Heard(Away, beating, n, trouble)
BY DEF Away, Sober, Heard, Timely

LEMMA InitClocked == Init => Clocked
<1> SUFFICES ASSUME Init PROVE Clocked
  OBVIOUS
<1>1. Pulse(Beating, beat, steady, plan.trouble)
  BY DEF Init, Pulse, Beating
<1>2. Beating \in BOOLEAN
  BY DEF Beating
<1>3. \A s \in Subscribers : sub[s] = Away
  BY DEF Init
<1> QED  BY <1>1, <1>2, <1>3, AwayClocked DEF Clocked

\* what touches neither the heartbeat nor a check
LEMMA SameClocked ==
    ASSUME Clocked, UNCHANGED <<clocks, plan>>, Beating' = Beating,
           \A s \in Subscribers : /\ sub'[s].up = sub[s].up
                                  /\ sub'[s].alive = sub[s].alive
                                  /\ sub'[s].told = sub[s].told
                                  /\ sub'[s].checks = sub[s].checks
                                  /\ sub'[s].next = sub[s].next
    PROVE  Clocked'
<1>1. beat' = beat /\ steady' = steady /\ plan' = plan
  BY DEF clocks
<1>2. Pulse(Beating', beat', steady', plan'.trouble)
  BY <1>1 DEF Clocked
<1>3. ASSUME NEW s \in Subscribers
      PROVE  /\ Sober(sub'[s], plan'.trouble)
             /\ Heard(sub'[s], Beating', steady', plan'.trouble)
  <2>1. Sober(sub[s], plan.trouble) /\ Heard(sub[s], Beating, steady, plan.trouble)
    BY DEF Clocked
  <2>2. Sober(sub'[s], plan'.trouble)
    BY <1>1, <2>1 DEF Sober
  <2>3. Heard(sub'[s], Beating', steady', plan'.trouble)
    BY <1>1, <2>1 DEF Heard, Timely
  <2> QED  BY <2>2, <2>3
<1> QED  BY <1>2, <1>3 DEF Clocked

\* the heartbeat's timer starts or stops: all words have their time from now on
LEMMA FlipClocked ==
    ASSUME TypeOK, Clocked, UNCHANGED <<sub, plan>>, steady' = 0,
           beat' \in Nat, beat' <= Expiry, Beating' => beat' > 0
    PROVE  Clocked'
<1>1. Pulse(Beating', beat', 0, plan'.trouble)
  BY Durations DEF Pulse
<1>2. ASSUME NEW s \in Subscribers
      PROVE  /\ Sober(sub'[s], plan'.trouble)
             /\ Heard(sub'[s], Beating', 0, plan'.trouble)
  <2>1. Sober(sub[s], plan.trouble)
    BY DEF Clocked
  <2>2. Heard(sub'[s], Beating', 0, plan'.trouble)
    BY Durations DEF Heard, Timely
  <2> QED  BY <2>1, <2>2
<1> QED  BY <1>1, <1>2 DEF Clocked

\* one subscriber's record changes
LEMMA RecordClocked ==
    ASSUME TypeOK, Clocked, UNCHANGED <<service, clocks, plan>>,
           NEW s \in Subscribers, NEW r, sub' = [sub EXCEPT ![s] = r],
           Sober(r, plan.trouble), Heard(r, Beating, steady, plan.trouble)
    PROVE  Clocked'
<1>1. beat' = beat /\ steady' = steady /\ plan' = plan /\ Beating' = Beating
  BY DEF clocks, Beating
<1>2. Pulse(Beating', beat', steady', plan'.trouble)
  BY <1>1 DEF Clocked
<1>3. ASSUME NEW t \in Subscribers
      PROVE  /\ Sober(sub'[t], plan'.trouble)
             /\ Heard(sub'[t], Beating', steady', plan'.trouble)
  <2>1. CASE t = s
    <3>1. sub'[t] = r  BY <2>1 DEF TypeOK
    <3> QED  BY <1>1, <3>1
  <2>2. CASE t # s
    <3>1. sub'[t] = sub[t]  BY <2>2 DEF TypeOK
    <3> QED  BY <1>1, <3>1 DEF Clocked
  <2> QED  BY <2>1, <2>2
<1> QED  BY <1>2, <1>3 DEF Clocked

LEMMA ServiceClocked ==
    ASSUME TypeOK, Clocked, Starts \/ Listens \/ Stops \/ Ends
    PROVE  Clocked'
<1>1. CASE Starts
  <2>1. /\ UNCHANGED <<sub, plan>> /\ steady' = 0 /\ beat' = Expiry
    BY <1>1 DEF Starts
  <2> QED  BY <2>1, Durations, FlipClocked
<1>2. CASE Listens
  <2>1. UNCHANGED <<clocks, sub, plan>> /\ Beating' = Beating
    BY <1>2 DEF Listens, Beating
  <2> QED  BY <2>1, SameClocked
<1>3. CASE Stops
  <2>1. /\ UNCHANGED <<sub, plan>> /\ steady' = 0 /\ beat' = beat /\ ~Beating'
    BY <1>3 DEF Stops, Beating
  <2> QED  BY <2>1, Durations, FlipClocked
<1>4. CASE Ends /\ Beating
  <2>1. /\ UNCHANGED <<sub, plan>> /\ steady' = 0 /\ beat' = beat /\ ~Beating'
    BY <1>4 DEF Ends, Beating
  <2> QED  BY <2>1, Durations, FlipClocked
<1>5. CASE Ends /\ ~Beating
  <2>1. UNCHANGED <<clocks, sub, plan>> /\ Beating' = Beating
    BY <1>5 DEF Ends, Beating, clocks
  <2> QED  BY <2>1, SameClocked
<1> QED  BY <1>1, <1>2, <1>3, <1>4, <1>5

LEMMA FeedClocked ==
    ASSUME TypeOK, Clocked,
           \/ Handle \/ Published \/ Drops
           \/ \E k \in Keys : Opened(k) \/ Emits(k)
           \/ \E s \in Subscribers, k \in Keys : Subscribe(s, k) \/ Unsubscribe(s, k)
    PROVE  Clocked'
<1>1. UNCHANGED <<clocks, plan, service>>
  BY DEF Handle, Published, Drops, Opened, Emits, Subscribe, Unsubscribe, Sends
<1>2. Beating' = Beating
  BY <1>1 DEF Beating
<1>3. ASSUME NEW t \in Subscribers
      PROVE  /\ sub'[t].up = sub[t].up /\ sub'[t].alive = sub[t].alive
             /\ sub'[t].told = sub[t].told /\ sub'[t].checks = sub[t].checks
             /\ sub'[t].next = sub[t].next
  <2>1. sub[t] \in Subscriber
    BY DEF TypeOK
  <2>2. CASE Handle \/ \E k \in Keys : Opened(k) \/ Emits(k)
    BY <2>2 DEF Handle, Opened, Emits
  <2>3. CASE Published \/ Drops
    <3>1. sub'[t] = Received(sub[t], Head(wire))
      BY <2>3 DEF Published, Drops
    <3> QED  BY <2>1, <3>1 DEF Received, Subscriber
  <2>4. ASSUME NEW s \in Subscribers, NEW k \in Keys,
               Subscribe(s, k) \/ Unsubscribe(s, k)
        PROVE  sub'[t] = sub[t]
               \/ \E F \in SUBSET Keys : sub'[t] = [sub[t] EXCEPT !.filter = F]
    <3>1. sub[s].filter \cup {k} \in SUBSET Keys /\ sub[s].filter \ {k} \in SUBSET Keys
      BY DEF TypeOK, Subscriber
    <3>2. PICK F \in SUBSET Keys : sub' = [sub EXCEPT ![s].filter = F]
      BY <2>4, <3>1 DEF Subscribe, Unsubscribe
    <3> QED  BY <3>2 DEF TypeOK
  <2>5. \A F \in SUBSET Keys :
           LET q == [sub[t] EXCEPT !.filter = F]
           IN /\ q.up = sub[t].up /\ q.alive = sub[t].alive
              /\ q.told = sub[t].told /\ q.checks = sub[t].checks
              /\ q.next = sub[t].next
    BY <2>1 DEF Subscriber
  <2> QED  BY <2>2, <2>3, <2>4, <2>5
<1> QED  BY <1>1, <1>2, <1>3, SameClocked

\* what a check that comes back tells
LEMMA CheckedSober ==
    ASSUME NEW r \in Subscriber, NEW trouble, Sober(r, trouble), r.checks # <<>>,
           NEW isAlive \in BOOLEAN
    PROVE  LET q == [r EXCEPT !.checks = Tail(r.checks), !.alive = isAlive,
                              !.told = Tells(r, isAlive)]
           IN  /\ Sober(q, trouble) /\ q.checks = <<>> /\ q.next = r.next
               /\ isAlive => q.told # "offline" \/ "fail" \in trouble
               /\ ~isAlive => q.told # "online"
<1> DEFINE q == [r EXCEPT !.checks = Tail(r.checks), !.alive = isAlive,
                          !.told = Tells(r, isAlive)]
<1>1. /\ q.checks = Tail(r.checks) /\ q.told = Tells(r, isAlive)
      /\ q.next = r.next /\ r.alive \in BOOLEAN
  BY DEF Subscriber
<1>2. q.alive = isAlive /\ q.up = r.up
  BY DEF Subscriber
<1> HIDE DEF q
<1>3. q.checks = <<>> /\ r.up
  BY <1>1 DEF Sober
<1>4. /\ isAlive => q.told # "offline" \/ "fail" \in trouble
      /\ ~isAlive => q.told # "online"
  BY <1>1 DEF Sober, Tells
<1>5. Sober(q, trouble)
  BY <1>2, <1>3, <1>4 DEF Sober
<1> QED  BY <1>1, <1>3, <1>4, <1>5 DEF q

\* a check that fails tells that the service is gone and changes nothing else
LEMMA FailedSober ==
    ASSUME NEW r \in Subscriber, NEW trouble, Sober(r, trouble), r.checks # <<>>,
           "fail" \in trouble
    PROVE  LET q == [r EXCEPT !.checks = Tail(r.checks), !.told = Tells(r, FALSE)]
           IN  Sober(q, trouble) /\ q.checks = <<>> /\ q.told # "online"
<1> DEFINE q == [r EXCEPT !.checks = Tail(r.checks), !.told = Tells(r, FALSE)]
<1>1. q.checks = Tail(r.checks) /\ q.told = Tells(r, FALSE)
  BY DEF Subscriber
<1>2. q.alive = r.alive /\ q.up = r.up
  BY DEF Subscriber
<1> HIDE DEF q
<1>3. q.checks = <<>> /\ r.up
  BY <1>1 DEF Sober
<1>4. q.told # "online"
  BY <1>1 DEF Sober, Tells
<1>5. Sober(q, trouble)
  BY <1>2, <1>3, <1>4 DEF Sober
<1> QED  BY <1>3, <1>4, <1>5 DEF q

LEMMA ChecksClocked ==
    ASSUME TypeOK, Clocked, NEW s \in Subscribers,
           \/ Connects(s) \/ Disconnects(s) \/ ChecksStatus(s)
           \/ StatusKnown(s) \/ StatusUnknown(s)
    PROVE  Clocked'
<1> DEFINE r == sub[s]
<1>1. /\ r \in Subscriber /\ r.next \in Nat /\ r.next <= CheckEvery
      /\ beat \in Nat /\ steady \in Nat /\ CheckEvery \in Nat \ {0}
      /\ Expiry \in Nat \ {0}
  BY Durations
<1>2. /\ Sober(r, plan.trouble) /\ Heard(r, Beating, steady, plan.trouble)
      /\ Pulse(Beating, beat, steady, plan.trouble) /\ Beating \in BOOLEAN
  BY DEF Clocked, Beating
<1>3. UNCHANGED <<service, clocks, plan>>
  BY DEF Connects, Disconnects, ChecksStatus, StatusKnown, StatusUnknown
<1>4. CASE Connects(s)
  <2> DEFINE q == [Away EXCEPT !.up = TRUE, !.checks = <<"main">>,
                               !.next = CheckEvery]
  <2>1. /\ q.told = "nothing" /\ q.checks = <<"main">> /\ q.next = CheckEvery
        /\ Head(<<"main">>) = "main" /\ Tail(<<"main">>) = <<>>
    BY DEF Away
  <2>2. q.up
    BY DEF Away
  <2>3. sub' = [sub EXCEPT ![s] = q]
    BY <1>4 DEF Connects
  <2> HIDE DEF q
  <2>4. Sober(q, plan.trouble)
    BY <1>1, <2>1, <2>2 DEF Sober
  <2>5. Heard(q, Beating, steady, plan.trouble)
    BY <2>1 DEF Heard, Timely
  <2> QED  BY <1>3, <2>3, <2>4, <2>5, RecordClocked
<1>5. CASE Disconnects(s)
  BY <1>2, <1>3, <1>5, AwayClocked, RecordClocked DEF Disconnects
<1>6. CASE ChecksStatus(s)
  <2> DEFINE c == IF r.alive THEN "wasAlive" ELSE "wasDead"
             q == [r EXCEPT !.checks = Append(r.checks, c), !.next = CheckEvery]
  <2>1. r.up /\ r.next = 0 /\ sub' = [sub EXCEPT ![s] = q]
    BY <1>6 DEF ChecksStatus, TypeOK
  <2>2. r.checks = <<>>
    BY <1>2, <2>1 DEF Sober
  <2>3. /\ Append(r.checks, c) # <<>> /\ Head(Append(r.checks, c)) = c
        /\ Tail(Append(r.checks, c)) = <<>>
    BY <2>2
  <2>4. /\ q.told = r.told /\ q.checks = Append(r.checks, c)
        /\ q.next = CheckEvery
    BY <1>1 DEF Subscriber
  <2>5. q.up = r.up /\ q.alive = r.alive
    BY <1>1 DEF Subscriber
  <2> HIDE DEF q
  <2>6. Sober(q, plan.trouble)
    <3>1. q.checks # <<>> /\ Head(q.checks) = c /\ Tail(q.checks) = <<>>
          /\ q.next > 0
      BY <1>1, <2>3, <2>4
    <3>2. (c = "wasAlive" => r.alive) /\ (c = "wasDead" => ~r.alive)
      OBVIOUS
    <3> HIDE DEF c
    <3> QED  BY <1>2, <2>1, <2>4, <2>5, <3>1, <3>2 DEF Sober
  <2>7. Heard(q, Beating, steady, plan.trouble)
    BY <1>1, <1>2, <2>1, <2>2, <2>3, <2>4 DEF Heard, Timely
  <2> QED  BY <1>3, <2>1, <2>6, <2>7, RecordClocked
<1>7. CASE StatusKnown(s)
  <2> DEFINE b == (beat > 0)
             q == [r EXCEPT !.checks = Tail(r.checks), !.alive = b,
                            !.told = Tells(r, b)]
  <2> b \in BOOLEAN
    OBVIOUS
  <2>1. r.checks # <<>> /\ sub' = [sub EXCEPT ![s] = q]
    BY <1>7 DEF StatusKnown, TypeOK
  <2>2. (b => beat > 0) /\ (~b => beat = 0)
    BY <1>1
  <2> HIDE DEF b
  <2>3. /\ Sober(q, plan.trouble) /\ q.checks = <<>> /\ q.next = r.next
        /\ b => q.told # "offline" \/ "fail" \in plan.trouble
        /\ ~b => q.told # "online"
    BY <1>1, <1>2, <2>1, CheckedSober
  <2> HIDE DEF q
  <2>4. Heard(q, Beating, steady, plan.trouble)
    BY <1>1, <1>2, <2>2, <2>3 DEF Heard, Timely, Pulse
  <2> QED  BY <1>3, <2>1, <2>3, <2>4, RecordClocked
<1>8. CASE StatusUnknown(s)
  <2> DEFINE q == [r EXCEPT !.checks = Tail(r.checks), !.told = Tells(r, FALSE)]
  <2>1. /\ r.checks # <<>> /\ "fail" \in plan.trouble
        /\ sub' = [sub EXCEPT ![s] = q]
    BY <1>8 DEF StatusUnknown, TypeOK, May
  <2>2. Sober(q, plan.trouble) /\ q.checks = <<>> /\ q.told # "online"
    BY <1>1, <1>2, <2>1, FailedSober
  <2> HIDE DEF q
  <2>3. Heard(q, Beating, steady, plan.trouble)
    BY <2>1, <2>2 DEF Heard, Timely
  <2> QED  BY <1>3, <2>1, <2>2, <2>3, RecordClocked
<1> QED  BY <1>4, <1>5, <1>6, <1>7, <1>8

\* time passes only where every check has come back and none is due
LEMMA TickClocked ==
    ASSUME TypeOK, Clocked, Tick, ~May("slow")
    PROVE  Clocked'
<1>1. /\ plan' = plan /\ Beating' = Beating
      /\ beat \in Nat /\ steady \in Nat /\ Expiry \in Nat \ {0}
      /\ CheckEvery \in Nat \ {0} /\ beat <= Expiry
      /\ Pulse(Beating, beat, steady, plan.trouble)
  BY Durations DEF Tick, Clocked, Beating
<1>2. steady' \in Nat /\ steady' <= steady + 1
  BY <1>1 DEF Tick, LongestWait
<1>3. Pulse(Beating, beat', steady', plan.trouble)
  <2>1. Beating /\ "mute" \notin plan.trouble => beat' = Expiry
    BY DEF Tick, May
  <2>2. ~Beating => beat' = Decreased(beat)
    BY DEF Tick
  <2> QED  BY <1>1, <1>2, <2>1, <2>2 DEF Pulse, Decreased
<1>4. ASSUME NEW s \in Subscribers
      PROVE  /\ Sober(sub'[s], plan.trouble)
             /\ Heard(sub'[s], Beating, steady', plan.trouble)
  <2> DEFINE r == sub[s]
             q == [r EXCEPT !.next = Decreased(r.next)]
  <2>1. r \in Subscriber /\ r.next \in Nat
    BY Durations
  <2>2. Sober(r, plan.trouble) /\ Heard(r, Beating, steady, plan.trouble)
    BY DEF Clocked
  <2>3. r.checks = <<>> /\ (r.up => r.next > 0)
    BY <2>1 DEF Tick, Due
  <2>4. sub'[s] = q
    BY DEF Tick
  <2>5. q.told = r.told /\ q.checks = r.checks /\ q.next = Decreased(r.next)
    BY <2>1 DEF Subscriber
  <2>6. q.up = r.up /\ q.alive = r.alive
    BY <2>1 DEF Subscriber
  <2> HIDE DEF q
  <2>7. Sober(q, plan.trouble)
    BY <2>2, <2>3, <2>5, <2>6 DEF Sober
  <2>8. r.told # "nothing" => steady' + q.next <= steady + r.next
    BY <1>1, <1>2, <2>1, <2>2, <2>3, <2>5 DEF Sober, Decreased
  <2>9. q.next \in Nat
    BY <2>1, <2>5 DEF Decreased
  <2>10. Heard(q, Beating, steady', plan.trouble)
    BY <1>1, <1>2, <2>1, <2>2, <2>3, <2>5, <2>8, <2>9 DEF Heard, Timely
  <2> QED  BY <2>4, <2>7, <2>10
<1> QED  BY <1>1, <1>3, <1>4 DEF Clocked

LEMMA NextClockInv == ClockInv /\ [Next]_vars => ClockInv'
<1> SUFFICES ASSUME ClockInv, [Next]_vars PROVE ClockInv'
  OBVIOUS
<1>1. TypeOK'
  BY NextTyped DEF ClockInv
<1>2. ASSUME ~May("slow"), Next PROVE Clocked'
  BY <1>2, ServiceClocked, FeedClocked, ChecksClocked, TickClocked
     DEF ClockInv, Next
<1>3. ASSUME ~May("slow"), UNCHANGED vars PROVE Clocked'
  BY <1>3 DEF ClockInv, vars, clocks, Clocked, Beating
<1>4. May("slow")' <=> May("slow")
  BY PlanKept DEF May
<1> QED  BY <1>1, <1>2, <1>3, <1>4 DEF ClockInv

LEMMA ClockedSuffices == ClockInv => LastWordRight
<1> SUFFICES ASSUME ClockInv, ~May("slow"),
                    NEW s \in Subscribers, sub[s].told # "nothing"
             PROVE  /\ ~Beating /\ steady > Expiry + CheckEvery
                          => sub[s].told = "offline"
                    /\ Beating /\ steady > CheckEvery /\ ~May("fail")
                               /\ ~May("mute")
                          => sub[s].told = "online"
  BY DEF LastWordRight
<1>1. /\ sub[s].told \in {"nothing", "online", "offline"}
      /\ sub[s].next \in Nat /\ steady \in Nat
      /\ Expiry \in Nat /\ CheckEvery \in Nat
  BY Durations DEF ClockInv, Subscriber
<1>2. Heard(sub[s], Beating, steady, plan.trouble)
  BY DEF ClockInv, Clocked
<1> QED  BY <1>1, <1>2 DEF Heard, Timely, May

\* A subscriber's last word on the service is right in bounded time, for any expiry
\* of the heartbeat, any time between checks and any number of subscribers.
THEOREM WordInTime == Spec => []LastWordRight
<1>1. Init => ClockInv
  BY InitTyped, InitClocked DEF ClockInv
<1> QED  BY <1>1, NextClockInv, ClockedSuffices, PTL DEF Spec

-----------------------------------------------------------------------------
(* SharedBalanceCache: the types, and what each action does to a call.        *)
Balances == [version : Nat, age : Nat, by : Procs] \cup {NoRecord}
CallPlaces == {"idle", "locking", "retrying", "fetching", "setting", "releasing",
               "polling", "sleeping"}
Answers == [to : Procs \cup {"none"}, version : Nat, age : Nat, floor : Nat]

CallTyped == /\ pc \in [Calls -> CallPlaces] /\ cached \in [Calls -> Balances]
             /\ fetched \in [Calls -> Nat] /\ waited \in [Calls -> Nat]
             /\ floor \in [Calls -> Nat]
             /\ newest \in [Procs -> Nat \ {0}] /\ returned \in Answers
LockTyped == lock \in [owner : Calls \cup {"lost", "none"}, age : Nat]
CacheTyped ==
  /\ role \in [Procs -> {"auto", "leader", "follower"}] /\ clock \in [Procs -> Nat]
  /\ account \in Nat /\ data \in Balances /\ local \in [Procs -> Balances]
  /\ LockTyped /\ CallTyped

LEMMA Caller == \A c \in Calls : Of[c] \in Procs
BY SharedBalanceCacheAssumption

LEMMA BalanceTyped ==
  /\ NoRecord \in Balances /\ NoRecord.version = 0 /\ NoRecord.age = 0
  /\ \A r \in Balances : r.version \in Nat /\ r.age \in Nat
  /\ \A r \in Balances : r # NoRecord => r.by \in Procs
  /\ \A v \in Nat, a \in Nat, p \in Procs :
       /\ [version |-> v, age |-> a, by |-> p] \in Balances
       /\ [version |-> v, age |-> a, by |-> p] # NoRecord
BY SharedBalanceCacheAssumption DEF Balances, NoRecord

\* a tick makes a record older and nothing else
LEMMA OlderTyped ==
  ASSUME NEW r \in Balances
  PROVE  /\ Older(r) \in Balances /\ Older(r).version = r.version
         /\ Older(r) = NoRecord <=> r = NoRecord
         /\ r # NoRecord => Older(r).age = r.age + 1 /\ Older(r).by = r.by
         /\ Older(r).age <= r.age + 1
<1>1. CASE r = NoRecord
  BY <1>1, BalanceTyped DEF Older
<1>2. CASE r # NoRecord
  <2>1. r \in [version : Nat, age : Nat, by : Procs]
    BY <1>2 DEF Balances
  <2>2. Older(r) = [r EXCEPT !.age = r.age + 1]
    BY <1>2 DEF Older
  <2>3. Older(r) = [version |-> r.version, age |-> r.age + 1, by |-> r.by]
    BY <2>1, <2>2
  <2>4. r.version \in Nat /\ r.age + 1 \in Nat /\ r.by \in Procs
    BY <2>1
  <2> HIDE <2>2
  <2>5. Older(r) \in Balances /\ Older(r) # NoRecord
    BY <2>3, <2>4, BalanceTyped
  <2>6. Older(r).version = r.version /\ Older(r).age = r.age + 1 /\ Older(r).by = r.by
    BY <2>3
  <2>7. QED
    BY <1>2, <2>4, <2>5, <2>6
<1>3. QED
  BY <1>1, <1>2

\* what get() finds is a record, and the one in Redis when it is not fresh
LEMMA GotTyped ==
  ASSUME CacheTyped, NEW p \in Procs
  PROVE  /\ Got(p) \in Balances
         /\ Got(p) = data \/ Got(p) = local[p]
         /\ ~Within(p, Got(p), Ttl) => Got(p) = data /\ ~Within(p, local[p], Ttl)
BY DEF CacheTyped, Got

\* the local records stay, but for p's, which becomes the one it got
LocalOf(p) == /\ local' \in [Procs -> Balances]
              /\ \A q \in Procs : q # p => local'[q] = local[q]
              /\ local'[p] = IF Within(p, Got(p), Ttl) THEN Got(p) ELSE local[p]

LEMMA LocalKept ==
  ASSUME CacheTyped, NEW p \in Procs, KeepLocal(p)
  PROVE  LocalOf(p)
<1>1. Got(p) \in Balances
  BY GotTyped
<1>2. QED
  BY <1>1 DEF CacheTyped, KeepLocal, LocalOf

-----------------------------------------------------------------------------
(* The ways a call c goes on: it ends, with a balance or without, or it     *)
(* awaits something at another place.                                       *)

Others(c) == \A d \in Calls : d # c =>
               /\ pc'[d] = pc[d] /\ cached'[d] = cached[d] /\ fetched'[d] = fetched[d]
               /\ waited'[d] = waited[d] /\ floor'[d] = floor[d]
Over(c) == /\ pc'[c] = "idle" /\ cached'[c] = NoRecord
           /\ fetched'[c] = 0 /\ waited'[c] = 0 /\ floor'[c] = 0
Newer(p, v) == \A q \in Procs : newest'[q] = IF q = p THEN Larger(newest[q], v) ELSE newest[q]

CallEnds(c, v, a) ==
  /\ CallTyped' /\ Others(c) /\ Over(c) /\ Newer(Of[c], v)
  /\ returned' = [to |-> Of[c], version |-> v, age |-> a, floor |-> Floor(c)]
Thrown(c) == CallTyped' /\ Others(c) /\ Over(c) /\ UNCHANGED newest /\ returned' = Nothing
Goes(c, place, r) ==
  /\ CallTyped' /\ Others(c) /\ pc'[c] = place /\ cached'[c] = r /\ floor'[c] = Floor(c)
  /\ UNCHANGED <<fetched, waited, newest>> /\ returned' = Nothing
\* it goes on with nothing but its place changed
Moves(c, place) ==
  /\ CallTyped' /\ Others(c) /\ pc'[c] = place
  /\ UNCHANGED <<cached, waited, floor, newest>> /\ returned' = Nothing

LEMMA NothingTyped == Nothing \in Answers /\ Nothing.version = 0 /\ Nothing.age = 0 /\ Nothing.floor = 0
BY DEF Nothing, Answers

LEMMA FloorTyped ==
  ASSUME CacheTyped, NEW c \in Calls
  PROVE  Floor(c) \in Nat
BY Caller DEF CacheTyped, CallTyped, Floor

LEMMA Placed ==
  ASSUME CacheTyped, NEW c \in Calls, NEW place \in CallPlaces, Goto(c, place)
  PROVE  /\ pc' \in [Calls -> CallPlaces] /\ pc'[c] = place
         /\ \A d \in Calls : d # c => pc'[d] = pc[d]
BY DEF CacheTyped, CallTyped, Goto

LEMMA Ending ==
  ASSUME CacheTyped, NEW c \in Calls, Finish(c)
  PROVE  /\ pc' \in [Calls -> CallPlaces] /\ cached' \in [Calls -> Balances]
         /\ fetched' \in [Calls -> Nat] /\ waited' \in [Calls -> Nat]
         /\ floor' \in [Calls -> Nat] /\ Others(c) /\ Over(c)
<1>1. /\ pc' \in [Calls -> CallPlaces] /\ pc'[c] = "idle"
      /\ \A d \in Calls : d # c => pc'[d] = pc[d]
  BY Placed DEF Finish, CallPlaces
<1>2. /\ cached' \in [Calls -> Balances] /\ cached'[c] = NoRecord
      /\ \A d \in Calls : d # c => cached'[d] = cached[d]
  BY BalanceTyped DEF Finish, CacheTyped, CallTyped
<1>3. /\ fetched' \in [Calls -> Nat] /\ fetched'[c] = 0
      /\ \A d \in Calls : d # c => fetched'[d] = fetched[d]
  BY DEF Finish, CacheTyped, CallTyped
<1>4. /\ waited' \in [Calls -> Nat] /\ waited'[c] = 0
      /\ \A d \in Calls : d # c => waited'[d] = waited[d]
  BY DEF Finish, CacheTyped, CallTyped
<1>5. /\ floor' \in [Calls -> Nat] /\ floor'[c] = 0
      /\ \A d \in Calls : d # c => floor'[d] = floor[d]
  BY DEF Finish, CacheTyped, CallTyped
<1>6. QED
  BY <1>1, <1>2, <1>3, <1>4, <1>5 DEF Others, Over

LEMMA Returns ==
  ASSUME CacheTyped, NEW c \in Calls, NEW r, r.version \in Nat, r.age \in Nat, Return(c, r)
  PROVE  CallEnds(c, r.version, r.age)
<1>1. Finish(c) /\ Of[c] \in Procs /\ Floor(c) \in Nat
  BY Caller, FloorTyped DEF Return
<1>2. newest' = [newest EXCEPT ![Of[c]] = Larger(newest[Of[c]], r.version)]
  BY DEF Return
<1>3. newest \in [Procs -> Nat \ {0}]
  BY DEF CacheTyped, CallTyped
<1>4. Larger(newest[Of[c]], r.version) \in Nat \ {0}
  BY <1>1, <1>3 DEF Larger
<1>5. newest' \in [Procs -> Nat \ {0}] /\ Newer(Of[c], r.version)
  BY <1>1, <1>2, <1>3, <1>4 DEF Newer
<1>6. returned' = [to |-> Of[c], version |-> r.version, age |-> r.age, floor |-> Floor(c)]
  BY DEF Return
<1>7. returned' \in Answers
  BY <1>1, <1>6 DEF Answers
<1>8. QED
  BY <1>1, <1>5, <1>6, <1>7, Ending DEF CallEnds, CallTyped

LEMMA Throws ==
  ASSUME CacheTyped, NEW c \in Calls, Throw(c)
  PROVE  Thrown(c)
BY Ending, NothingTyped DEF Throw, ReturnsNothing, Thrown, CallTyped, CacheTyped

LEMMA Awaits ==
  ASSUME CacheTyped, NEW c \in Calls, NEW place \in CallPlaces, NEW r \in Balances,
         Await(c, place, r)
  PROVE  Goes(c, place, r)
<1>1. /\ pc' \in [Calls -> CallPlaces] /\ pc'[c] = place
      /\ \A d \in Calls : d # c => pc'[d] = pc[d]
  BY Placed DEF Await
<1>2. /\ cached' \in [Calls -> Balances] /\ cached'[c] = r
      /\ \A d \in Calls : d # c => cached'[d] = cached[d]
  BY DEF Await, CacheTyped, CallTyped
<1>3. /\ floor' \in [Calls -> Nat] /\ floor'[c] = Floor(c)
      /\ \A d \in Calls : d # c => floor'[d] = floor[d]
  BY FloorTyped DEF Await, CacheTyped, CallTyped
<1>4. UNCHANGED <<fetched, waited, newest>> /\ returned' = Nothing
  BY DEF Await, ReturnsNothing
<1>5. CallTyped'
  BY <1>1, <1>2, <1>3, <1>4, NothingTyped DEF CallTyped, CacheTyped
<1>6. QED
  BY <1>1, <1>2, <1>3, <1>4, <1>5 DEF Others, Goes

\* a call that goes to a place and may have another balance from the exchange
LEMMA Moving ==
  ASSUME CacheTyped, NEW c \in Calls, NEW place \in CallPlaces, Goto(c, place),
         fetched' \in [Calls -> Nat], \A d \in Calls : d # c => fetched'[d] = fetched[d],
         UNCHANGED <<cached, waited, floor, newest>>, ReturnsNothing
  PROVE  Moves(c, place)
<1>1. /\ pc' \in [Calls -> CallPlaces] /\ pc'[c] = place
      /\ \A d \in Calls : d # c => pc'[d] = pc[d]
  BY Placed
<1>2. CallTyped'
  BY <1>1, NothingTyped DEF CallTyped, CacheTyped, ReturnsNothing
<1>3. QED
  BY <1>1, <1>2 DEF Moves, Others, ReturnsNothing

-----------------------------------------------------------------------------
(* What the actions do, one lemma for each, in terms of the lemmas above.      *)

LEMMA FindDoes ==
  ASSUME CacheTyped, NEW c \in Calls, Find(c)
  PROVE  /\ pc[c] = "idle" /\ LocalOf(Of[c])
         /\ \/ /\ Within(Of[c], Got(Of[c]), Ttl) /\ UNCHANGED unguarded
               /\ CallEnds(c, Got(Of[c]).version, Got(Of[c]).age)
            \/ /\ ~Within(Of[c], Got(Of[c]), Ttl) /\ RoleOf(c) = "leader"
               /\ Goes(c, "fetching", NoRecord)
               /\ unguarded' = (unguarded \/ \E d \in Calls : Fills(d))
            \/ /\ ~Within(Of[c], Got(Of[c]), Ttl) /\ RoleOf(c) = "auto"
               /\ Goes(c, "locking", Got(Of[c])) /\ UNCHANGED unguarded
            \/ /\ ~Within(Of[c], Got(Of[c]), Ttl) /\ RoleOf(c) = "follower"
               /\ Within(Of[c], Got(Of[c]), StaleMax) /\ UNCHANGED unguarded
               /\ CallEnds(c, Got(Of[c]).version, Got(Of[c]).age)
            \/ /\ ~Within(Of[c], Got(Of[c]), Ttl) /\ RoleOf(c) = "follower"
               /\ Goes(c, "polling", Got(Of[c])) /\ UNCHANGED unguarded
         /\ UNCHANGED <<role, clock, account, data, lock>>
<1> DEFINE p == Of[c]
<1>1. /\ p \in Procs /\ Got(p) \in Balances /\ Got(p).version \in Nat /\ Got(p).age \in Nat
      /\ NoRecord \in Balances
  BY Caller, GotTyped, BalanceTyped
<1>2. LocalOf(p)
  BY <1>1, LocalKept DEF Find
<1>3. Return(c, Got(p)) => CallEnds(c, Got(p).version, Got(p).age)
  BY <1>1, Returns
<1>4. \A r \in Balances, place \in CallPlaces : Await(c, place, r) => Goes(c, place, r)
  BY Awaits
<1>5. {"fetching", "locking", "polling"} \subseteq CallPlaces
  BY DEF CallPlaces
<1>6. QED
  BY <1>1, <1>2, <1>3, <1>4, <1>5 DEF Find, LeaderFetches

LEMMA AcquireDoes ==
  ASSUME CacheTyped, NEW c \in Calls, Acquire(c)
  PROVE  /\ pc[c] \in {"locking", "retrying"}
         /\ \/ /\ lock = NoLock /\ lock' = [owner |-> c, age |-> 0]
               /\ Goes(c, "fetching", NoRecord)
            \/ /\ UNCHANGED lock /\ cached[c] # NoRecord
               /\ CallEnds(c, cached[c].version, cached[c].age)
            \/ UNCHANGED lock /\ Goes(c, "polling", cached[c]) /\ pc[c] = "locking"
            \/ UNCHANGED lock /\ Thrown(c)
         /\ UNCHANGED <<role, clock, account, data, local, unguarded>>
<1>1. cached[c] \in Balances /\ cached[c].version \in Nat /\ cached[c].age \in Nat /\ NoRecord \in Balances
  BY BalanceTyped DEF CacheTyped, CallTyped
<1>2. Return(c, cached[c]) => CallEnds(c, cached[c].version, cached[c].age)
  BY <1>1, Returns
<1>3. \A r \in Balances, place \in CallPlaces : Await(c, place, r) => Goes(c, place, r)
  BY Awaits
<1>4. {"fetching", "polling"} \subseteq CallPlaces
  BY DEF CallPlaces
<1>5. Throw(c) => Thrown(c)
  BY Throws
<1>6. QED
  BY <1>1, <1>2, <1>3, <1>4, <1>5 DEF Acquire, Within, records

LEMMA PollDoes ==
  ASSUME CacheTyped, NEW c \in Calls, Poll(c)
  PROVE  /\ pc[c] = "polling"
         /\ \/ /\ Within(Of[c], Got(Of[c]), Ttl) /\ LocalOf(Of[c])
               /\ CallEnds(c, Got(Of[c]).version, Got(Of[c]).age)
            \/ /\ ~Within(Of[c], Got(Of[c]), Ttl) /\ LocalOf(Of[c]) /\ waited[c] < Wait
               /\ Goes(c, "sleeping", cached[c])
            \/ UNCHANGED local /\ Thrown(c)
            \/ UNCHANGED local /\ RoleOf(c) # "follower" /\ Goes(c, "retrying", cached[c])
         /\ UNCHANGED <<role, clock, account, data, lock, unguarded>>
<1> DEFINE p == Of[c]
<1>1. /\ p \in Procs /\ Got(p) \in Balances /\ Got(p).version \in Nat /\ Got(p).age \in Nat
      /\ cached[c] \in Balances
  BY Caller, GotTyped, BalanceTyped DEF CacheTyped, CallTyped
<1>2. KeepLocal(p) => LocalOf(p)
  BY <1>1, LocalKept
<1>3. Return(c, Got(p)) => CallEnds(c, Got(p).version, Got(p).age)
  BY <1>1, Returns
<1>4. \A r \in Balances, place \in CallPlaces : Await(c, place, r) => Goes(c, place, r)
  BY Awaits
<1>5. {"sleeping", "retrying"} \subseteq CallPlaces
  BY DEF CallPlaces
<1>6. Throw(c) => Thrown(c)
  BY Throws
<1>7. QED
  BY <1>1, <1>2, <1>3, <1>4, <1>5, <1>6 DEF Poll

LEMMA AnsweredDoes ==
  ASSUME CacheTyped, NEW c \in Calls, Answered(c)
  PROVE  /\ pc[c] = "fetching" /\ Moves(c, "setting") /\ fetched'[c] = account
         /\ UNCHANGED <<role, clock, account, data, local, lock, unguarded>>
<1>1. /\ fetched' \in [Calls -> Nat] /\ fetched'[c] = account
      /\ \A d \in Calls : d # c => fetched'[d] = fetched[d]
  BY DEF Answered, CacheTyped, CallTyped
<1>2. Moves(c, "setting")
  BY <1>1, Moving DEF Answered, CallPlaces
<1>3. QED
  BY <1>1, <1>2 DEF Answered, records

LEMMA FilledTyped ==
  ASSUME CacheTyped, NEW c \in Calls
  PROVE  /\ FilledBy(c) \in Balances /\ FilledBy(c) # NoRecord
         /\ FilledBy(c).version = fetched[c] /\ FilledBy(c).age = 0 /\ fetched[c] \in Nat
BY BalanceTyped, Caller DEF CacheTyped, CallTyped, FilledBy

LEMMA SetDoes ==
  ASSUME CacheTyped, NEW c \in Calls, Set(c)
  PROVE  /\ pc[c] = "setting" /\ data' = FilledBy(c)
         /\ local' \in [Procs -> Balances] /\ local'[Of[c]] = FilledBy(c)
         /\ \A q \in Procs : q # Of[c] => local'[q] = local[q]
         /\ \/ RoleOf(c) = "leader" /\ CallEnds(c, fetched[c], 0)
            \/ RoleOf(c) # "leader" /\ Moves(c, "releasing") /\ UNCHANGED fetched
         /\ UNCHANGED <<role, clock, account, lock, unguarded>>
<1>1. /\ FilledBy(c) \in Balances /\ Of[c] \in Procs
      /\ FilledBy(c).version = fetched[c] /\ FilledBy(c).age = 0 /\ fetched[c] \in Nat
  BY FilledTyped, Caller
<1>2. /\ local' \in [Procs -> Balances] /\ local'[Of[c]] = FilledBy(c)
      /\ \A q \in Procs : q # Of[c] => local'[q] = local[q]
  BY <1>1 DEF Set, CacheTyped
<1>3. Return(c, FilledBy(c)) => CallEnds(c, fetched[c], 0)
  BY <1>1, Returns
<1>4. ASSUME Goto(c, "releasing"), UNCHANGED <<cached, fetched, waited, floor, newest>>,
             ReturnsNothing
      PROVE  Moves(c, "releasing")
  BY <1>4, Moving DEF CallPlaces, CacheTyped, CallTyped
<1>5. QED
  BY <1>2, <1>3, <1>4 DEF Set

\* Release, ReleaseFails
LEMMA ReleaseDoes ==
  ASSUME CacheTyped, NEW c \in Calls, Release(c) \/ ReleaseFails(c)
  PROVE  /\ pc[c] = "releasing" /\ LockTyped'
         /\ \A d \in Calls : d # c /\ lock.owner = d => lock'.owner = d
         /\ Thrown(c) \/ (fetched[c] # 0 /\ CallEnds(c, fetched[c], 0))
         /\ UNCHANGED <<role, clock, account, data, local, unguarded>>
<1>1. LockTyped
  BY DEF CacheTyped
<1>2. lock' = NoLock \/ lock' = lock \/ lock' = [lock EXCEPT !.owner = "lost"]
  BY DEF Release, ReleaseFails
<1>3. LockTyped'
  BY <1>1, <1>2 DEF LockTyped, NoLock
<1>4. \A d \in Calls : d # c /\ lock.owner = d => lock' = lock
  BY DEF Release, ReleaseFails
<1>5. /\ FilledBy(c).version = fetched[c] /\ FilledBy(c).age = 0 /\ fetched[c] \in Nat
  BY FilledTyped
<1>6. Return(c, FilledBy(c)) => CallEnds(c, fetched[c], 0)
  BY <1>5, Returns
<1>7. Thrown(c) \/ (fetched[c] # 0 /\ CallEnds(c, fetched[c], 0))
  BY <1>6, Throws DEF Release, ReleaseFails, Leave
<1>8. QED
  BY <1>3, <1>4, <1>7 DEF Release, ReleaseFails, records

LEMMA FillFailsDoes ==
  ASSUME CacheTyped, NEW c \in Calls, FillFails(c)
  PROVE  /\ pc[c] \in {"fetching", "setting"}
         /\ data' = data \/ (pc[c] = "setting" /\ data' = FilledBy(c))
         /\ \/ RoleOf(c) = "leader" /\ Thrown(c)
            \/ RoleOf(c) # "leader" /\ Moves(c, "releasing") /\ fetched'[c] = 0
         /\ UNCHANGED <<role, clock, account, local, lock, unguarded>>
<1>1. ASSUME Goto(c, "releasing"), fetched' = [fetched EXCEPT ![c] = 0],
             UNCHANGED <<cached, waited, floor, newest>>, ReturnsNothing
      PROVE  Moves(c, "releasing") /\ fetched'[c] = 0
  <2>1. /\ fetched' \in [Calls -> Nat] /\ fetched'[c] = 0
        /\ \A d \in Calls : d # c => fetched'[d] = fetched[d]
    BY <1>1 DEF CacheTyped, CallTyped
  <2>2. QED
    BY <1>1, <2>1, Moving DEF CallPlaces
<1>2. data' = data \/ (pc[c] = "setting" /\ data' = FilledBy(c))
  BY DEF FillFails
<1>3. \/ RoleOf(c) = "leader" /\ Thrown(c)
      \/ RoleOf(c) # "leader" /\ Moves(c, "releasing") /\ fetched'[c] = 0
  BY <1>1, Throws DEF FillFails
<1>4. QED
  BY <1>2, <1>3 DEF FillFails, Fills

LEMMA RedisFailsDoes ==
  ASSUME CacheTyped, NEW c \in Calls, RedisFails(c)
  PROVE  /\ LockTyped' /\ Thrown(c)
         /\ \A d \in Calls : lock.owner = d => lock'.owner = d
         /\ UNCHANGED <<role, clock, account, data, local, unguarded>>
<1>1. LockTyped
  BY DEF CacheTyped
<1>2. lock' = lock \/ (lock = NoLock /\ lock' = [owner |-> "lost", age |-> 0])
  BY DEF RedisFails
<1>3. LockTyped'
  BY <1>1, <1>2 DEF LockTyped
<1>4. \A d \in Calls : lock.owner = d => lock' = lock
  BY <1>2, SharedBalanceCacheAssumption DEF NoLock
<1>5. QED
  BY <1>3, <1>4, Throws DEF RedisFails, records

\* the calls of another process go on
Perish(p) == \A c \in Calls :
             \/ Of[c] = p /\ Over(c)
             \/ /\ Of[c] # p /\ pc'[c] = pc[c] /\ cached'[c] = cached[c]
                /\ fetched'[c] = fetched[c] /\ waited'[c] = waited[c] /\ floor'[c] = floor[c]

LEMMA CrashDoes ==
  ASSUME CacheTyped, NEW p \in Procs, Crash(p)
  PROVE  /\ LockTyped' /\ CallTyped' /\ Perish(p) /\ returned' = Nothing
         /\ \A d \in Calls : Of[d] # p /\ lock.owner = d => lock'.owner = d
         /\ local' \in [Procs -> Balances] /\ local'[p] = NoRecord
         /\ \A q \in Procs : q # p => local'[q] = local[q]
         /\ UNCHANGED <<role, clock, account, data, newest, unguarded>>
<1>1. LockTyped /\ CallTyped /\ NoRecord \in Balances /\ local \in [Procs -> Balances]
  BY BalanceTyped DEF CacheTyped
<1>2. lock' = lock \/ lock' = [lock EXCEPT !.owner = "lost"]
  BY DEF Crash
<1>3. LockTyped'
  BY <1>1, <1>2 DEF LockTyped
<1>4. \A d \in Calls : Of[d] # p /\ lock.owner = d => lock' = lock
  BY DEF Crash
<1>5. /\ local' \in [Procs -> Balances] /\ local'[p] = NoRecord
      /\ \A q \in Procs : q # p => local'[q] = local[q]
  BY <1>1 DEF Crash
<1>6. /\ pc' = [c \in Calls |-> IF Of[c] = p THEN "idle" ELSE pc[c]]
      /\ cached' = [c \in Calls |-> IF Of[c] = p THEN NoRecord ELSE cached[c]]
      /\ fetched' = [c \in Calls |-> IF Of[c] = p THEN 0 ELSE fetched[c]]
      /\ waited' = [c \in Calls |-> IF Of[c] = p THEN 0 ELSE waited[c]]
      /\ floor' = [c \in Calls |-> IF Of[c] = p THEN 0 ELSE floor[c]]
  BY DEF Crash
<1>7. Perish(p)
  BY <1>6 DEF Perish, Over
<1>8. /\ UNCHANGED <<role, clock, account, data, newest, unguarded>> /\ returned' = Nothing
  BY DEF Crash, ReturnsNothing
<1>9. pc' \in [Calls -> CallPlaces] /\ cached' \in [Calls -> Balances]
  BY <1>1, <1>6 DEF CallTyped, CallPlaces
<1>10. /\ fetched' \in [Calls -> Nat] /\ waited' \in [Calls -> Nat] /\ floor' \in [Calls -> Nat]
  BY <1>1, <1>6 DEF CallTyped
<1>11. CallTyped'
  BY <1>1, <1>8, <1>9, <1>10, NothingTyped DEF CallTyped
<1>12. QED
  BY <1>3, <1>4, <1>5, <1>7, <1>8, <1>11

\* a tick: records grow older or go, and those who slept ask again
LEMMA TickDoes ==
  ASSUME CacheTyped, TimePasses
  PROVE  /\ CallTyped' /\ LockTyped' /\ returned' = Nothing
         /\ UNCHANGED <<role, clock, account, fetched, floor, newest>>
         /\ data' \in Balances /\ (data' = NoRecord \/ data' = Older(data))
         /\ data.age < StaleMax => data'.age < StaleMax
         /\ local' \in [Procs -> Balances]
         /\ \A p \in Procs : \/ Within(p, Older(local[p]), Ttl) /\ local'[p] = Older(local[p])
                             \/ local'[p] = NoRecord
         /\ \A c \in Calls : pc[c] \notin {"locking", "retrying", "polling"}
         /\ \A c \in Calls : \/ /\ pc[c] = "sleeping" /\ pc'[c] = "polling"
                                /\ cached'[c] = Older(cached[c]) /\ waited'[c] = waited[c] + 1
                             \/ /\ pc[c] # "sleeping" /\ pc'[c] = pc[c]
                                /\ cached'[c] = cached[c] /\ waited'[c] = waited[c]
         /\ ~unguarded' => \A c \in Calls : lock.owner = c /\ Fills(c) => lock'.owner = c
         /\ unguarded => unguarded'
<1>1. NoRecord \in Balances /\ data \in Balances /\ StaleMax \in Nat \ {0} /\ NoRecord.age = 0
  BY BalanceTyped, SharedBalanceCacheAssumption DEF CacheTyped
<1>2. data' \in Balances /\ (data' = NoRecord \/ data' = Older(data))
  BY <1>1, OlderTyped DEF TimePasses, DataExpires
<1>3. ASSUME data.age < StaleMax PROVE data'.age < StaleMax
  <2>1. CASE data.age + 1 = StaleMax
    BY <1>1, <2>1 DEF TimePasses, DataExpires
  <2>2. CASE data.age + 1 # StaleMax
    <3>1. data' = Older(data) /\ data.age \in Nat
      BY <1>1, <2>2, BalanceTyped DEF TimePasses, DataExpires
    <3>2. Older(data).age <= data.age + 1 /\ Older(data).age \in Nat
      BY <1>1, OlderTyped, BalanceTyped
    <3>3. QED
      BY <1>1, <1>3, <2>2, <3>1, <3>2
  <2>3. QED
    BY <2>1, <2>2
<1>4. /\ \A p \in Procs : Older(local[p]) \in Balances
      /\ \A c \in Calls : Older(cached[c]) \in Balances
  BY OlderTyped DEF CacheTyped, CallTyped
<1>5. /\ local' \in [Procs -> Balances]
      /\ \A p \in Procs : \/ Within(p, Older(local[p]), Ttl) /\ local'[p] = Older(local[p])
                          \/ local'[p] = NoRecord
  <2>1. local' = [p \in Procs |-> IF Within(p, Older(local[p]), Ttl)
                                  THEN Older(local[p]) ELSE NoRecord]
    BY DEF TimePasses
  <2>2. QED
    BY <1>1, <1>4, <2>1, Zenon
<1>6. cached' \in [Calls -> Balances] /\ waited' \in [Calls -> Nat] /\ pc' \in [Calls -> CallPlaces]
  <2>1. cached' = [c \in Calls |-> IF pc[c] = "sleeping" THEN Older(cached[c]) ELSE cached[c]]
    BY DEF TimePasses
  <2>2. cached' \in [Calls -> Balances]
    BY <1>4, <2>1 DEF CacheTyped, CallTyped
  <2>3. waited' = [c \in Calls |-> IF pc[c] = "sleeping" THEN waited[c] + 1 ELSE waited[c]]
    BY DEF TimePasses
  <2>4. waited' \in [Calls -> Nat]
    BY <2>3 DEF CacheTyped, CallTyped
  <2>5. pc' = [c \in Calls |-> IF pc[c] = "sleeping" THEN "polling" ELSE pc[c]]
    BY DEF TimePasses
  <2>6. pc' \in [Calls -> CallPlaces]
    BY <2>5 DEF CacheTyped, CallTyped, CallPlaces
  <2>7. QED
    BY <2>2, <2>4, <2>6
<1>7. \A c \in Calls : \/ /\ pc[c] = "sleeping" /\ pc'[c] = "polling"
                          /\ cached'[c] = Older(cached[c]) /\ waited'[c] = waited[c] + 1
                       \/ /\ pc[c] # "sleeping" /\ pc'[c] = pc[c]
                          /\ cached'[c] = cached[c] /\ waited'[c] = waited[c]
  BY DEF TimePasses
<1>8. UNCHANGED <<role, clock, account, fetched, floor, newest>> /\ returned' = Nothing
  BY DEF TimePasses, ReturnsNothing
<1>9. CallTyped'
  BY <1>6, <1>8, NothingTyped DEF CallTyped, CacheTyped
<1>10. LockTyped
  BY DEF CacheTyped
<1>11. LockTyped'
  BY <1>10 DEF TimePasses, LockExpires, LockTyped, NoLock
<1>12. ASSUME ~unguarded', NEW c \in Calls, lock.owner = c, Fills(c)
       PROVE  lock'.owner = c
  <2>1. lock # NoLock
    BY <1>12, SharedBalanceCacheAssumption DEF NoLock
  <2>2. lock.age + 1 # LockTtl
    BY <1>12 DEF TimePasses
  <2>3. QED
    BY <1>10, <1>12, <2>1, <2>2 DEF TimePasses, LockExpires, LockTyped
<1>13. unguarded => unguarded'
  BY DEF TimePasses
<1>14. \A c \in Calls : pc[c] \notin {"locking", "retrying", "polling"}
  BY DEF TimePasses
<1>15. QED
  BY <1>2, <1>3, <1>5, <1>7, <1>8, <1>9, <1>11, <1>12, <1>13, <1>14

LEMMA TradeDoes ==
  ASSUME CacheTyped, Trade
  PROVE  /\ account' = account + 1 /\ CallTyped' /\ returned' = Nothing
         /\ UNCHANGED <<role, clock, records, lock, call, unguarded>>
BY NothingTyped DEF Trade, ReturnsNothing, call, CacheTyped, CallTyped

\* no step leaves the types
LEMMA StaysTyped ==
  ASSUME CacheTyped, [BCNext]_bcvars
  PROVE  CacheTyped'
<1>1. /\ CallTyped /\ LockTyped /\ data \in Balances /\ local \in [Procs -> Balances]
      /\ role \in [Procs -> {"auto", "leader", "follower"}] /\ clock \in [Procs -> Nat]
      /\ account \in Nat
  BY DEF CacheTyped
<1> SUFFICES /\ CallTyped' /\ LockTyped' /\ data' \in Balances /\ local' \in [Procs -> Balances]
             /\ UNCHANGED <<role, clock>> /\ account' \in Nat
  BY <1>1 DEF CacheTyped
<1>2. ASSUME UNCHANGED lock PROVE LockTyped'
  BY <1>1, <1>2 DEF LockTyped
<1>3. \A c \in Calls : CallEnds(c, Got(Of[c]).version, Got(Of[c]).age) => CallTyped'
  BY DEF CallEnds
<1>4. ASSUME NEW c \in Calls, Find(c) \/ Poll(c)
      PROVE  CallTyped' /\ local' \in [Procs -> Balances]
  BY <1>1, <1>4, FindDoes, PollDoes DEF CallEnds, Thrown, Goes, LocalOf
<1>5. ASSUME NEW c \in Calls, Acquire(c)
      PROVE  CallTyped' /\ LockTyped'
  <2>1. CallTyped'
    BY <1>5, AcquireDoes DEF CallEnds, Thrown, Goes
  <2>2. lock' = lock \/ lock' = [owner |-> c, age |-> 0]
    BY <1>5, AcquireDoes
  <2>3. QED
    BY <1>1, <2>1, <2>2 DEF LockTyped
<1>6. ASSUME NEW c \in Calls, Find(c) \/ Step(c)
      PROVE  /\ CallTyped' /\ LockTyped' /\ data' \in Balances /\ local' \in [Procs -> Balances]
             /\ UNCHANGED <<role, clock>> /\ account' \in Nat
  <2>1. CASE Find(c)
    BY <1>1, <1>2, <1>4, <2>1, FindDoes
  <2>2. CASE Acquire(c)
    BY <1>1, <1>5, <2>2, AcquireDoes
  <2>3. CASE Poll(c)
    BY <1>1, <1>2, <1>4, <2>3, PollDoes
  <2>4. CASE Answered(c)
    BY <1>1, <1>2, <2>4, AnsweredDoes DEF Moves
  <2>5. CASE Set(c)
    <3>1. CallTyped'
      BY <2>5, SetDoes DEF CallEnds, Moves
    <3>2. QED
      BY <1>1, <1>2, <2>5, <3>1, SetDoes, FilledTyped
  <2>6. CASE Release(c)
    <3>1. CallTyped'
      BY <2>6, ReleaseDoes DEF CallEnds, Thrown
    <3>2. QED
      BY <1>1, <2>6, <3>1, ReleaseDoes
  <2>7. QED
    BY <1>6, <2>1, <2>2, <2>3, <2>4, <2>5, <2>6 DEF Step
<1>7. ASSUME NEW c \in Calls, FillFails(c) \/ RedisFails(c) \/ ReleaseFails(c)
      PROVE  /\ CallTyped' /\ LockTyped' /\ data' \in Balances /\ local' \in [Procs -> Balances]
             /\ UNCHANGED <<role, clock>> /\ account' \in Nat
  <2>1. CASE FillFails(c)
    <3>1. CallTyped'
      BY <2>1, FillFailsDoes DEF Thrown, Moves
    <3>2. QED
      BY <1>1, <1>2, <2>1, <3>1, FillFailsDoes, FilledTyped
  <2>2. CASE RedisFails(c)
    <3>1. CallTyped'
      BY <2>2, RedisFailsDoes DEF Thrown
    <3>2. QED
      BY <1>1, <2>2, <3>1, RedisFailsDoes
  <2>3. CASE ReleaseFails(c)
    <3>1. CallTyped'
      BY <2>3, ReleaseDoes DEF CallEnds, Thrown
    <3>2. QED
      BY <1>1, <2>3, <3>1, ReleaseDoes
  <2>4. QED
    BY <1>7, <2>1, <2>2, <2>3
<1>8. ASSUME NEW p \in Procs, Crash(p)
      PROVE  /\ CallTyped' /\ LockTyped' /\ data' \in Balances /\ local' \in [Procs -> Balances]
             /\ UNCHANGED <<role, clock>> /\ account' \in Nat
  BY <1>1, <1>8, CrashDoes
<1>9. CASE TimePasses
  BY <1>1, <1>9, TickDoes
<1>10. CASE Trade
  BY <1>1, <1>2, <1>10, TradeDoes DEF records
<1>11. CASE UNCHANGED bcvars
  BY <1>1, <1>2, <1>11 DEF bcvars, records, call, CallTyped
<1>12. QED
  BY <1>6, <1>7, <1>8, <1>9, <1>10, <1>11 DEF BCNext

-----------------------------------------------------------------------------
(* Nothing old is returned: the record in Redis is younger than staleMaxMs,    *)
(* one a call has found in it is older by what the call has waited, and the    *)
(* wait is bounded; the local record is returned only while it looks fresh.    *)

AgedOf(c) == /\ cached[c].age < StaleMax + waited[c] /\ waited[c] <= Wait
             /\ pc[c] = "sleeping" => waited[c] < Wait
Aged == data.age < StaleMax /\ \A c \in Calls : AgedOf(c)

\* the bounds that the steps below need
LEMMA Ages ==
  ASSUME CacheTyped, Aged
  PROVE  /\ StaleMax \in Nat \ {0} /\ Wait \in Nat \ {0} /\ Ttl \in Nat
         /\ NoRecord \in Balances /\ NoRecord.age = 0 /\ data.age < StaleMax
         /\ \A c \in Calls :
              /\ Of[c] \in Procs /\ waited[c] \in Nat /\ cached[c] \in Balances
              /\ cached[c].age \in Nat /\ cached[c].age < StaleMax + waited[c]
              /\ waited[c] <= Wait /\ cached[c].age < StaleMax + Wait
<1>1. /\ StaleMax \in Nat \ {0} /\ Wait \in Nat \ {0} /\ Ttl \in Nat
      /\ NoRecord \in Balances /\ NoRecord.age = 0 /\ data.age < StaleMax
  BY BalanceTyped, SharedBalanceCacheAssumption DEF Aged
<1>2. ASSUME NEW c \in Calls
      PROVE  /\ Of[c] \in Procs /\ waited[c] \in Nat /\ cached[c] \in Balances
             /\ cached[c].age \in Nat /\ cached[c].age < StaleMax + waited[c]
             /\ waited[c] <= Wait
  BY Caller, BalanceTyped DEF CacheTyped, CallTyped, Aged, AgedOf
<1>3. QED
  BY <1>1, <1>2

\* what is returned is young enough
Young(p, a) == a < StaleMax + Wait \/ \E q \in Procs : a <= Ttl + clock[q] - clock[p]

LEMMA NothingOld ==
  ASSUME returned' = Nothing
  PROVE  StalenessBounded'
<1>1. 0 < StaleMax + Wait
  BY SharedBalanceCacheAssumption
<1>2. returned'.age = 0
  BY NothingTyped
<1>3. QED
  BY <1>1, <1>2 DEF StalenessBounded

LEMMA ReturnedYoung ==
  ASSUME NEW c \in Calls, NEW v, NEW a, CallEnds(c, v, a), UNCHANGED clock, Young(Of[c], a)
  PROVE  StalenessBounded'
<1>1. returned'.age = a /\ returned'.to = Of[c]
  BY DEF CallEnds
<1>2. QED
  BY <1>1 DEF StalenessBounded, Young

\* who is not moved stays within the bounds, and whose call is over is
LEMMA AgedOthers ==
  ASSUME Aged, NEW c \in Calls, Others(c), AgedOf(c)'
  PROVE  \A d \in Calls : AgedOf(d)'
BY DEF Aged, AgedOf, Others

LEMMA AgedOver ==
  ASSUME NEW c \in Calls, Over(c)
  PROVE  AgedOf(c)'
<1>1. NoRecord.age = 0 /\ StaleMax \in Nat \ {0} /\ Wait \in Nat
  BY BalanceTyped, SharedBalanceCacheAssumption
<1>2. QED
  BY <1>1 DEF AgedOf, Over

LEMMA AgedEnds ==
  ASSUME CacheTyped, Aged, UNCHANGED clock, NEW c \in Calls, NEW v, NEW a,
         CallEnds(c, v, a), Young(Of[c], a)
  PROVE  (\A d \in Calls : AgedOf(d)') /\ StalenessBounded'
BY AgedOthers, AgedOver, ReturnedYoung DEF CallEnds

LEMMA AgedThrows ==
  ASSUME CacheTyped, Aged, NEW c \in Calls, Thrown(c)
  PROVE  (\A d \in Calls : AgedOf(d)') /\ StalenessBounded'
BY AgedOthers, AgedOver, NothingOld DEF Thrown

\* a call that goes on with something it may still return
LEMMA AgedGoes ==
  ASSUME CacheTyped, Aged, NEW c \in Calls,
         NEW place \in CallPlaces, NEW r \in Balances, Goes(c, place, r),
         r.age < StaleMax + waited[c], place = "sleeping" => waited[c] < Wait
  PROVE  (\A d \in Calls : AgedOf(d)') /\ StalenessBounded'
<1>1. AgedOf(c)'
  BY DEF AgedOf, Goes, Aged
<1>2. QED
  BY <1>1, AgedOthers, NothingOld DEF Goes

\* a call that goes on without touching what it has found
LEMMA AgedMoves ==
  ASSUME CacheTyped, Aged, NEW c \in Calls, NEW place, Moves(c, place), place # "sleeping"
  PROVE  (\A d \in Calls : AgedOf(d)') /\ StalenessBounded'
<1>1. AgedOf(c)'
  BY DEF AgedOf, Aged, Moves
<1>2. QED
  BY <1>1, AgedOthers, NothingOld DEF Moves

\* what looks fresh is as old as the clocks are apart; what is only not stale
\* comes from Redis
LEMMA GotAge ==
  ASSUME CacheTyped, Aged, NEW p \in Procs
  PROVE  /\ Got(p).age \in Nat /\ Young(p, Got(p).age)
         /\ ~Within(p, Got(p), Ttl) => Got(p).age < StaleMax
<1>1. Got(p) \in Balances /\ Got(p).age \in Nat
  BY GotTyped, BalanceTyped
<1>2. ASSUME Within(p, Got(p), Ttl)
      PROVE  \E q \in Procs : Got(p).age <= Ttl + clock[q] - clock[p]
  <2>1. Got(p).by \in Procs /\ AgeMs(p, Got(p)) <= Ttl
    BY <1>1, <1>2, BalanceTyped DEF Within
  <2>2. clock[p] \in Nat /\ clock[Got(p).by] \in Nat /\ Ttl \in Nat
    BY <2>1, SharedBalanceCacheAssumption DEF CacheTyped
  <2>3. Got(p).age <= Ttl + clock[Got(p).by] - clock[p]
    BY <1>1, <2>1, <2>2 DEF AgeMs
  <2>4. QED
    BY <2>1, <2>3
<1>3. ~Within(p, Got(p), Ttl) => Got(p).age < StaleMax
  BY GotTyped DEF Aged
<1>4. ASSUME Got(p).age < StaleMax PROVE Got(p).age < StaleMax + Wait
  BY <1>1, <1>4, SharedBalanceCacheAssumption
<1>5. QED
  BY <1>1, <1>2, <1>3, <1>4 DEF Young

LEMMA StaysAged ==
  ASSUME CacheTyped, Aged, [BCNext]_bcvars
  PROVE  Aged' /\ (StalenessBounded => StalenessBounded')
<1>1. /\ StaleMax \in Nat \ {0} /\ Wait \in Nat \ {0} /\ Ttl \in Nat
      /\ NoRecord \in Balances /\ NoRecord.age = 0 /\ data.age < StaleMax
      /\ \A c \in Calls :
           /\ Of[c] \in Procs /\ waited[c] \in Nat /\ cached[c] \in Balances
           /\ cached[c].age \in Nat /\ cached[c].age < StaleMax + waited[c]
           /\ waited[c] <= Wait /\ cached[c].age < StaleMax + Wait
  BY Ages
<1>2. \A c \in Calls : /\ FilledBy(c) \in Balances /\ FilledBy(c).version = fetched[c]
                       /\ FilledBy(c).age = 0 /\ fetched[c] \in Nat
  BY FilledTyped
<1> DEFINE Right == data'.age < StaleMax /\ (\A d \in Calls : AgedOf(d)') /\ StalenessBounded'
<1>3. ASSUME NEW c \in Calls, Find(c) PROVE Right
  <2> DEFINE p == Of[c]
  <2>1. /\ Got(p).age \in Nat /\ Got(p) \in Balances /\ Young(p, Got(p).age)
        /\ ~Within(p, Got(p), Ttl) => Got(p).age < StaleMax
    BY <1>1, GotAge, GotTyped
  <2>2. UNCHANGED <<clock, data>>
    BY <1>3, FindDoes
  <2>3. CASE CallEnds(c, Got(p).version, Got(p).age)
    BY <1>1, <2>1, <2>2, <2>3, AgedEnds
  <2>4. CASE \E place \in {"fetching", "locking", "polling"}, r \in {NoRecord, Got(p)} :
               Goes(c, place, r) /\ ~Within(p, Got(p), Ttl)
    <3>1. PICK place \in {"fetching", "locking", "polling"}, r \in {NoRecord, Got(p)} :
            Goes(c, place, r) /\ ~Within(p, Got(p), Ttl)
      BY <2>4
    <3>2. r \in Balances /\ r.age < StaleMax /\ r.age \in Nat /\ waited[c] \in Nat
      BY <1>1, <2>1, <3>1
    <3>3. r.age < StaleMax + waited[c]
      BY <1>1, <3>2
    <3>4. place \in CallPlaces /\ place # "sleeping"
      BY <3>1 DEF CallPlaces
    <3>5. QED
      BY <1>1, <2>2, <3>1, <3>2, <3>3, <3>4, AgedGoes
  <2>5. QED
    BY <1>3, <2>3, <2>4, FindDoes
<1>4. ASSUME NEW c \in Calls, Acquire(c) PROVE Right
  <2>1. UNCHANGED <<clock, data>>
    BY <1>4, AcquireDoes
  <2>2. CASE Goes(c, "fetching", NoRecord)
    <3>1. NoRecord.age < StaleMax + waited[c]
      BY <1>1
    <3>2. QED
      BY <1>1, <2>1, <2>2, <3>1, AgedGoes DEF CallPlaces
  <2>3. CASE CallEnds(c, cached[c].version, cached[c].age)
    <3>1. Young(Of[c], cached[c].age)
      BY <1>1 DEF Young
    <3>2. QED
      BY <1>1, <2>1, <2>3, <3>1, AgedEnds
  <2>4. CASE Goes(c, "polling", cached[c])
    BY <1>1, <2>1, <2>4, AgedGoes DEF CallPlaces
  <2>5. CASE Thrown(c)
    BY <1>1, <2>1, <2>5, AgedThrows
  <2>6. QED
    BY <1>4, <2>2, <2>3, <2>4, <2>5, AcquireDoes
<1>5. ASSUME NEW c \in Calls, Poll(c) PROVE Right
  <2>1. UNCHANGED <<clock, data>>
    BY <1>5, PollDoes
  <2>2. CASE CallEnds(c, Got(Of[c]).version, Got(Of[c]).age)
    BY <1>1, <2>1, <2>2, GotAge, AgedEnds
  <2>3. CASE waited[c] < Wait /\ Goes(c, "sleeping", cached[c])
    BY <1>1, <2>1, <2>3, AgedGoes DEF CallPlaces
  <2>4. CASE Thrown(c)
    BY <1>1, <2>1, <2>4, AgedThrows
  <2>5. CASE Goes(c, "retrying", cached[c])
    BY <1>1, <2>1, <2>5, AgedGoes DEF CallPlaces
  <2>6. QED
    BY <1>5, <2>2, <2>3, <2>4, <2>5, PollDoes
<1>6. ASSUME NEW c \in Calls, Answered(c) PROVE Right
  BY <1>1, <1>6, AnsweredDoes, AgedMoves
<1>7. ASSUME NEW c \in Calls, CallEnds(c, fetched[c], 0), UNCHANGED clock
      PROVE  (\A d \in Calls : AgedOf(d)') /\ StalenessBounded'
  <2>1. Young(Of[c], 0)
    BY <1>1 DEF Young
  <2>2. QED
    BY <1>7, <2>1, AgedEnds
<1>8. ASSUME NEW c \in Calls, Set(c) PROVE Right
  <2>1. data'.age < StaleMax
    BY <1>1, <1>2, <1>8, SetDoes
  <2>2. CASE CallEnds(c, fetched[c], 0)
    BY <1>7, <1>8, <2>1, <2>2, SetDoes
  <2>3. CASE Moves(c, "releasing")
    BY <2>1, <2>3, AgedMoves
  <2>4. QED
    BY <1>8, <2>2, <2>3, SetDoes
<1>9. ASSUME NEW c \in Calls, Release(c) \/ ReleaseFails(c) PROVE Right
  <2>1. UNCHANGED <<clock, data>> /\ (Thrown(c) \/ CallEnds(c, fetched[c], 0))
    BY <1>9, ReleaseDoes
  <2>2. QED
    BY <1>1, <1>7, <2>1, AgedThrows
<1>10. ASSUME NEW c \in Calls, FillFails(c) PROVE Right
  <2>1. data'.age < StaleMax
    BY <1>1, <1>2, <1>10, FillFailsDoes
  <2>2. QED
    BY <1>10, <2>1, FillFailsDoes, AgedThrows, AgedMoves
<1>11. ASSUME NEW c \in Calls, RedisFails(c) PROVE Right
  BY <1>1, <1>11, RedisFailsDoes, AgedThrows
<1>12. ASSUME NEW p \in Procs, Crash(p) PROVE Right
  <2>1. data'.age < StaleMax /\ returned' = Nothing /\ Perish(p)
    BY <1>1, <1>12, CrashDoes
  <2>2. ASSUME NEW d \in Calls PROVE AgedOf(d)'
    <3>1. CASE Over(d)
      BY <3>1, AgedOver
    <3>2. CASE pc'[d] = pc[d] /\ cached'[d] = cached[d] /\ waited'[d] = waited[d]
      BY <3>2 DEF Aged, AgedOf
    <3>3. QED
      BY <2>1, <3>1, <3>2 DEF Perish
  <2>3. StalenessBounded'
    BY <2>1, NothingOld
  <2>4. QED
    BY <2>1, <2>2, <2>3
<1>13. ASSUME TimePasses PROVE Right
  <2>1. data'.age < StaleMax /\ returned' = Nothing
    BY <1>1, <1>13, TickDoes
  <2>2. ASSUME NEW c \in Calls PROVE AgedOf(c)'
    <3>1. CASE /\ pc[c] = "sleeping" /\ pc'[c] = "polling"
               /\ cached'[c] = Older(cached[c]) /\ waited'[c] = waited[c] + 1
      <4>1. Older(cached[c]).age <= cached[c].age + 1 /\ Older(cached[c]).age \in Nat
        BY <1>1, OlderTyped, BalanceTyped
      <4>2. waited[c] < Wait /\ cached[c].age < StaleMax + waited[c] /\ waited[c] \in Nat
        BY <1>1, <3>1 DEF Aged, AgedOf
      <4>3. Older(cached[c]).age < StaleMax + (waited[c] + 1) /\ waited[c] + 1 <= Wait
        BY <1>1, <4>1, <4>2
      <4>4. QED
        BY <3>1, <4>3 DEF AgedOf
    <3>2. CASE /\ pc[c] # "sleeping" /\ pc'[c] = pc[c]
               /\ cached'[c] = cached[c] /\ waited'[c] = waited[c]
      BY <1>1, <3>2 DEF AgedOf
    <3>3. QED
      BY <1>13, <3>1, <3>2, TickDoes
  <2>3. StalenessBounded'
    BY <2>1, NothingOld
  <2>4. QED
    BY <2>1, <2>2, <2>3
<1>14. CASE Trade
  <2>1. UNCHANGED <<data, cached, waited, pc>> /\ returned' = Nothing
    BY <1>14, TradeDoes DEF records, call
  <2>2. QED
    BY <2>1, NothingOld DEF Aged, AgedOf
<1>15. CASE UNCHANGED bcvars
  BY <1>15 DEF bcvars, records, call, Aged, AgedOf, StalenessBounded
<1>16. Right => Aged' /\ StalenessBounded'
  BY DEF Aged
<1> HIDE DEF Right
<1>17. QED
  BY <1>3, <1>4, <1>5, <1>6, <1>8, <1>9, <1>10, <1>11, <1>12, <1>13, <1>14, <1>15, <1>16
     DEF BCNext, Step

LEMMA StartsRight ==
  ASSUME BCInit
  PROVE  CacheTyped /\ Aged /\ StalenessBounded
<1>1. NoRecord \in Balances /\ NoRecord.age = 0
  BY BalanceTyped
<1>2. CallTyped /\ LockTyped
  BY <1>1, NothingTyped DEF BCInit, CallTyped, LockTyped, NoLock, CallPlaces
<1>3. CacheTyped
  BY <1>1, <1>2, SharedBalanceCacheAssumption DEF BCInit, CacheTyped
<1>4. Aged
  BY <1>1, SharedBalanceCacheAssumption DEF BCInit, Aged, AgedOf
<1>5. StalenessBounded
  BY NothingTyped, SharedBalanceCacheAssumption DEF BCInit, StalenessBounded
<1>6. QED
  BY <1>3, <1>4, <1>5

\* No call of fetchBalance() returns a record older than the longest wait and
\* staleMaxMs allow, unless it looked fresh to a process whose clock is behind the
\* one that stamped it: for any processes, overlapping calls, clocks, roles and
\* number of failures.
THEOREM NothingTooOld == BCSpec => []StalenessBounded
<1> DEFINE Inv == CacheTyped /\ Aged /\ StalenessBounded
<1>1. BCInit => Inv
  BY StartsRight
<1>2. Inv /\ [BCNext]_bcvars => Inv'
  BY StaysTyped, StaysAged
<1>3. QED
  BY <1>1, <1>2, PTL DEF BCSpec

-----------------------------------------------------------------------------
(* No process goes back: while one call at a time fills the record, nothing    *)
(* newer than the record in Redis is known anywhere, and no call returns less  *)
(* than its process had been given when it began.                              *)

\* who may be where, and whose the lock is
FillingOf(c) ==
  /\ RoleOf(c) = "follower" => pc[c] \in {"idle", "polling", "sleeping"}
  /\ RoleOf(c) = "leader" => pc[c] \in {"idle", "fetching", "setting"}
  /\ pc[c] \notin {"setting", "releasing"} => fetched[c] = 0
  /\ ~unguarded /\ RoleOf(c) # "leader" /\ Fills(c) => lock.owner = c
RolesNow == \A p, q \in Procs : role[p] = "leader" /\ q # p => role[q] = "follower"
LeadersAlone == \A c, d \in Calls :
                  /\ ~unguarded
                  /\ RoleOf(c) = "leader" /\ Fills(c)
                  /\ RoleOf(d) = "leader" /\ Fills(d)
                  => c = d
Filling == RolesNow /\ LeadersAlone /\ \A c \in Calls : FillingOf(c)

LEMMA OneFills ==
  ASSUME CacheTyped, Filling, ~unguarded, NEW c \in Calls, NEW d \in Calls, Fills(c), Fills(d)
  PROVE  c = d
<1>1. FillingOf(c) /\ FillingOf(d) /\ Of[c] \in Procs /\ Of[d] \in Procs
  BY Caller DEF Filling
<1>2. RoleOf(c) # "follower" /\ RoleOf(d) # "follower"
  BY <1>1 DEF FillingOf, Fills
<1>3. CASE RoleOf(c) # "leader" /\ RoleOf(d) # "leader"
  BY <1>1, <1>3 DEF FillingOf
<1>4. CASE RoleOf(c) = "leader" \/ RoleOf(d) = "leader"
  <2>1. Of[c] = Of[d]
    BY <1>1, <1>2, <1>4 DEF Filling, RolesNow, RoleOf
  <2>2. QED
    BY <1>4, <2>1 DEF Filling, LeadersAlone, RoleOf
<1>5. QED
  BY <1>3, <1>4

LEMMA StaysFilling ==
  ASSUME CacheTyped, Filling, [BCNext]_bcvars
  PROVE  Filling'
<1> DEFINE Kept(c) == \A d \in Calls : d # c /\ lock.owner = d => lock'.owner = d
           Same == UNCHANGED role /\ (unguarded => unguarded')
<1>1. /\ RolesNow /\ LeadersAlone /\ \A c \in Calls : FillingOf(c)
  BY DEF Filling
<1>2. UNCHANGED role => RolesNow'
  BY <1>1 DEF RolesNow
<1>3. ASSUME NEW c \in Calls, Others(c), Same, Kept(c)
      PROVE  \A d \in Calls : d # c => FillingOf(d)'
  <2> SUFFICES ASSUME NEW d \in Calls, d # c PROVE FillingOf(d)'
    OBVIOUS
  <2>1. /\ pc'[d] = pc[d] /\ fetched'[d] = fetched[d] /\ role' = role
        /\ unguarded => unguarded'
        /\ lock.owner = d => lock'.owner = d
    BY <1>3 DEF Others
  <2>2. QED
    BY <1>1, <2>1 DEF FillingOf, RoleOf, Fills
\* a leader's call that does not begin to fetch leaves its leader alone
<1>4. ASSUME NEW c \in Calls, Others(c), Same,
             RoleOf(c) # "leader" \/ Fills(c) \/ pc'[c] \notin {"fetching", "setting"}
      PROVE  LeadersAlone'
  <2> SUFFICES ASSUME NEW d \in Calls, NEW e \in Calls, ~unguarded',
                      RoleOf(d)' = "leader", Fills(d)', RoleOf(e)' = "leader", Fills(e)'
               PROVE  d = e
    BY DEF LeadersAlone
  <2>1. ~unguarded /\ RoleOf(d) = "leader" /\ RoleOf(e) = "leader"
    BY <1>4 DEF RoleOf
  <2>2. Fills(d) /\ Fills(e)
    BY <1>4, <2>1 DEF Others, Fills
  <2>3. QED
    BY <1>1, <2>1, <2>2 DEF LeadersAlone
<1>5. ASSUME NEW c \in Calls, Others(c), Same, Kept(c), FillingOf(c)',
             RoleOf(c) # "leader" \/ Fills(c) \/ pc'[c] \notin {"fetching", "setting"}
      PROVE  Filling'
  <2>1. LeadersAlone'
    BY <1>4, <1>5
  <2>2. \A d \in Calls : FillingOf(d)'
    BY <1>3, <1>5
  <2>3. QED
    BY <1>2, <1>5, <2>1, <2>2 DEF Filling
<1>6. ASSUME NEW c \in Calls, Thrown(c) \/ (\E v, a : CallEnds(c, v, a)), Same, Kept(c)
      PROVE  Filling'
  <2>1. Others(c) /\ pc'[c] = "idle" /\ fetched'[c] = 0
    BY <1>6 DEF Thrown, CallEnds, Over
  <2>2. FillingOf(c)'
    BY <2>1 DEF FillingOf, Fills
  <2>3. QED
    BY <1>5, <1>6, <2>1, <2>2
<1>7. ASSUME NEW c \in Calls, NEW place, NEW r, Goes(c, place, r), Same, Kept(c),
             fetched[c] = 0, place \notin {"setting", "releasing"},
             RoleOf(c) = "follower" => place \in {"idle", "polling", "sleeping"},
             RoleOf(c) # "leader",
             place = "fetching" => lock'.owner = c
      PROVE  Filling'
  <2>1. Others(c) /\ pc'[c] = place /\ fetched'[c] = 0
    BY <1>7 DEF Goes
  <2>2. FillingOf(c)'
    BY <1>7, <2>1 DEF FillingOf, RoleOf, Fills
  <2>3. QED
    BY <1>5, <1>7, <2>1, <2>2
<1>8. ASSUME NEW c \in Calls, Find(c) PROVE Filling'
  <2>1. UNCHANGED <<role, lock>> /\ fetched[c] = 0 /\ (unguarded => unguarded')
    BY <1>1, <1>8, FindDoes DEF FillingOf
  <2>2. CASE \E v, a : CallEnds(c, v, a)
    BY <1>6, <2>1, <2>2
  <2>3. CASE /\ RoleOf(c) = "leader" /\ Goes(c, "fetching", NoRecord)
             /\ unguarded' = (unguarded \/ \E d \in Calls : Fills(d))
    <3>1. Others(c) /\ pc'[c] = "fetching" /\ fetched'[c] = 0
      BY <2>1, <2>3 DEF Goes
    <3>2. FillingOf(c)'
      BY <2>1, <2>3, <3>1 DEF FillingOf, RoleOf, Fills
    <3>3. LeadersAlone'
      <4> SUFFICES ASSUME NEW d \in Calls, NEW e \in Calls, ~unguarded', Fills(d)', Fills(e)'
                   PROVE  d = e
        BY DEF LeadersAlone
      <4>1. \A f \in Calls : ~Fills(f)
        BY <2>3
      <4>2. \A f \in Calls : f # c => pc'[f] \notin {"fetching", "setting"}
        BY <3>1, <4>1 DEF Others, Fills
      <4>3. QED
        BY <4>2 DEF Fills
    <3>4. \A d \in Calls : FillingOf(d)'
      BY <1>3, <2>1, <3>1, <3>2
    <3>5. QED
      BY <1>2, <2>1, <3>3, <3>4 DEF Filling
  <2>4. CASE RoleOf(c) = "auto" /\ Goes(c, "locking", Got(Of[c]))
    BY <1>7, <2>1, <2>4
  <2>5. CASE RoleOf(c) = "follower" /\ Goes(c, "polling", Got(Of[c]))
    BY <1>7, <2>1, <2>5
  <2>6. QED
    BY <1>8, <2>2, <2>3, <2>4, <2>5, FindDoes
<1>9. ASSUME NEW c \in Calls, Acquire(c) PROVE Filling'
  <2>1. UNCHANGED <<role, unguarded>> /\ fetched[c] = 0 /\ RoleOf(c) \notin {"leader", "follower"}
    BY <1>1, <1>9, AcquireDoes DEF FillingOf
  <2>2. CASE lock = NoLock /\ lock' = [owner |-> c, age |-> 0] /\ Goes(c, "fetching", NoRecord)
    <3>1. lock'.owner = c /\ \A d \in Calls : lock.owner # d
      BY <2>2, SharedBalanceCacheAssumption DEF NoLock
    <3>2. QED
      BY <1>7, <2>1, <2>2, <3>1
  <2>3. CASE UNCHANGED lock /\ (Thrown(c) \/ CallEnds(c, cached[c].version, cached[c].age))
    BY <1>6, <2>1, <2>3
  <2>4. CASE UNCHANGED lock /\ Goes(c, "polling", cached[c])
    BY <1>7, <2>1, <2>4
  <2>5. QED
    BY <1>9, <2>2, <2>3, <2>4, AcquireDoes
<1>10. ASSUME NEW c \in Calls, Poll(c) PROVE Filling'
  <2>1. UNCHANGED <<role, lock, unguarded>> /\ fetched[c] = 0 /\ RoleOf(c) # "leader"
    BY <1>1, <1>10, PollDoes DEF FillingOf
  <2>2. CASE Thrown(c) \/ CallEnds(c, Got(Of[c]).version, Got(Of[c]).age)
    BY <1>6, <2>1, <2>2
  <2>3. CASE Goes(c, "sleeping", cached[c])
    BY <1>7, <2>1, <2>3
  <2>4. CASE RoleOf(c) # "follower" /\ Goes(c, "retrying", cached[c])
    BY <1>7, <2>1, <2>4
  <2>5. QED
    BY <1>10, <2>2, <2>3, <2>4, PollDoes
<1>11. ASSUME NEW c \in Calls, Answered(c) PROVE Filling'
  <2>1. /\ Others(c) /\ pc[c] = "fetching" /\ pc'[c] = "setting" /\ Fills(c)
        /\ UNCHANGED <<role, lock, unguarded>>
    BY <1>11, AnsweredDoes DEF Moves, Fills
  <2>2. FillingOf(c)'
    BY <1>1, <2>1 DEF FillingOf, RoleOf, Fills
  <2>3. QED
    BY <1>5, <2>1, <2>2
<1>12. ASSUME NEW c \in Calls, Fills(c), Moves(c, "releasing"), RoleOf(c) # "leader",
              UNCHANGED <<role, lock, unguarded>>
       PROVE  Filling'
  <2>1. Others(c) /\ pc'[c] = "releasing"
    BY <1>12 DEF Moves
  <2>2. FillingOf(c)'
    BY <1>1, <1>12, <2>1 DEF FillingOf, RoleOf, Fills
  <2>3. QED
    BY <1>5, <1>12, <2>1, <2>2
<1>13. ASSUME NEW c \in Calls, Set(c) \/ FillFails(c) PROVE Filling'
  <2>1. UNCHANGED <<role, lock, unguarded>> /\ Fills(c)
    BY <1>13, SetDoes, FillFailsDoes DEF Fills
  <2>2. \/ Thrown(c) \/ CallEnds(c, fetched[c], 0)
        \/ RoleOf(c) # "leader" /\ Moves(c, "releasing")
    BY <1>13, SetDoes, FillFailsDoes
  <2>3. QED
    BY <1>6, <1>12, <2>1, <2>2
<1>14. ASSUME NEW c \in Calls, Release(c) \/ ReleaseFails(c) \/ RedisFails(c) PROVE Filling'
  <2>1. UNCHANGED <<role, unguarded>> /\ Kept(c)
    BY <1>14, ReleaseDoes, RedisFailsDoes
  <2>2. Thrown(c) \/ CallEnds(c, fetched[c], 0)
    BY <1>14, ReleaseDoes, RedisFailsDoes
  <2>3. QED
    BY <1>6, <2>1, <2>2
\* the calls that fill the record did so before
<1>15. ASSUME Same, \A c \in Calls : Fills(c)' => Fills(c)
       PROVE  LeadersAlone'
  <2> SUFFICES ASSUME NEW d \in Calls, NEW e \in Calls, ~unguarded',
                      RoleOf(d)' = "leader", Fills(d)', RoleOf(e)' = "leader", Fills(e)'
               PROVE  d = e
    BY DEF LeadersAlone
  <2>1. ~unguarded /\ RoleOf(d) = "leader" /\ RoleOf(e) = "leader" /\ Fills(d) /\ Fills(e)
    BY <1>15 DEF RoleOf
  <2>2. QED
    BY <1>1, <2>1 DEF LeadersAlone
<1>16. ASSUME NEW p \in Procs, Crash(p) PROVE Filling'
  <2>1. /\ UNCHANGED <<role, unguarded>> /\ Perish(p)
        /\ \A d \in Calls : Of[d] # p /\ lock.owner = d => lock'.owner = d
    BY <1>16, CrashDoes
  <2>2. ASSUME NEW c \in Calls PROVE FillingOf(c)' /\ (Fills(c)' => Fills(c))
    <3>1. CASE Over(c)
      BY <3>1 DEF Over, FillingOf, Fills
    <3>2. CASE Of[c] # p /\ pc'[c] = pc[c] /\ fetched'[c] = fetched[c]
      BY <1>1, <2>1, <3>2 DEF FillingOf, Fills, RoleOf
    <3>3. QED
      BY <2>1, <3>1, <3>2 DEF Perish
  <2>3. LeadersAlone'
    BY <1>15, <2>1, <2>2
  <2>4. QED
    BY <1>2, <2>1, <2>2, <2>3 DEF Filling
<1>17. ASSUME TimePasses PROVE Filling'
  <2>1. UNCHANGED <<role, fetched>> /\ (unguarded => unguarded')
    BY <1>17, TickDoes
  <2>2. ASSUME NEW c \in Calls PROVE FillingOf(c)' /\ (Fills(c)' => Fills(c))
    <3>1. \/ pc[c] = "sleeping" /\ pc'[c] = "polling"
          \/ pc'[c] = pc[c]
      BY <1>17, TickDoes
    <3>2. ~unguarded' /\ lock.owner = c /\ Fills(c) => lock'.owner = c
      BY <1>17, TickDoes
    <3>3. QED
      BY <1>1, <2>1, <3>1, <3>2 DEF FillingOf, Fills, RoleOf
  <2>3. LeadersAlone'
    BY <1>15, <2>1, <2>2
  <2>4. QED
    BY <1>2, <2>1, <2>2, <2>3 DEF Filling
<1>18. ASSUME UNCHANGED <<role, lock, unguarded, pc, fetched>> PROVE Filling'
  BY <1>1, <1>18 DEF Filling, FillingOf, RolesNow, LeadersAlone, Fills, RoleOf
<1>19. ASSUME Trade \/ UNCHANGED bcvars PROVE Filling'
  BY <1>18, <1>19, TradeDoes DEF bcvars, call
<1>20. QED
  BY <1>8, <1>9, <1>10, <1>11, <1>13, <1>14, <1>16, <1>17, <1>19 DEF BCNext, Step

LEMMA VersionsTyped ==
  ASSUME CacheTyped
  PROVE  /\ account \in Nat /\ data \in Balances /\ data.version \in Nat
         /\ NoRecord \in Balances /\ NoRecord.version = 0
         /\ \A p \in Procs :
              /\ newest[p] \in Nat
              /\ local[p] \in Balances /\ local[p].version \in Nat
              /\ Got(p) \in Balances /\ Got(p).version \in Nat
         /\ \A c \in Calls :
              /\ Of[c] \in Procs /\ fetched[c] \in Nat /\ floor[c] \in Nat
              /\ cached[c] \in Balances /\ cached[c].version \in Nat
<1>1. /\ account \in Nat /\ data \in Balances /\ data.version \in Nat
      /\ NoRecord \in Balances /\ NoRecord.version = 0
  BY BalanceTyped DEF CacheTyped
<1>2. ASSUME NEW p \in Procs
      PROVE  /\ newest[p] \in Nat
             /\ local[p] \in Balances /\ local[p].version \in Nat
             /\ Got(p) \in Balances /\ Got(p).version \in Nat
  BY BalanceTyped, GotTyped DEF CacheTyped, CallTyped
<1>3. ASSUME NEW c \in Calls
      PROVE  /\ Of[c] \in Procs /\ fetched[c] \in Nat /\ floor[c] \in Nat
             /\ cached[c] \in Balances /\ cached[c].version \in Nat
  BY BalanceTyped, Caller DEF CacheTyped, CallTyped
<1>4. QED
  BY <1>1, <1>2, <1>3

\* where the record in Redis comes from
LEMMA DataStep ==
  ASSUME CacheTyped, [BCNext]_bcvars
  PROVE  /\ \A c \in Calls : Set(c) => Fills(c) /\ pc[c] = "setting" /\ data' = FilledBy(c)
         /\ \/ \E c \in Calls : pc[c] = "setting" /\ pc'[c] # "setting" /\ data' = FilledBy(c)
            \/ data'.version = data.version /\ (data' = NoRecord <=> data = NoRecord)
            \/ data' = NoRecord
<1>1. \A c \in Calls : Set(c) => /\ Fills(c) /\ pc[c] = "setting" /\ data' = FilledBy(c)
                                   /\ pc'[c] # "setting"
  BY SetDoes DEF CallEnds, Over, Moves, Fills
<1>2. ASSUME NEW c \in Calls, FillFails(c)
      PROVE  data' = data \/ (pc[c] = "setting" /\ pc'[c] # "setting" /\ data' = FilledBy(c))
  BY <1>2, FillFailsDoes DEF Thrown, Over, Moves
<1>3. ASSUME NEW c \in Calls,
             \/ Find(c) \/ Acquire(c) \/ Poll(c) \/ Answered(c) \/ Release(c)
             \/ RedisFails(c) \/ ReleaseFails(c)
      PROVE  data' = data
  BY <1>3, FindDoes, AcquireDoes, PollDoes, AnsweredDoes, ReleaseDoes, RedisFailsDoes
<1>4. ASSUME NEW p \in Procs, Crash(p) PROVE data' = data
  BY <1>4, CrashDoes
<1>5. ASSUME TimePasses
      PROVE  \/ data' = NoRecord
             \/ data'.version = data.version /\ (data' = NoRecord <=> data = NoRecord)
  BY <1>5, TickDoes, OlderTyped, VersionsTyped
<1>6. Trade \/ UNCHANGED bcvars => data' = data
  BY DEF Trade, bcvars, records
<1>7. QED
  BY <1>1, <1>2, <1>3, <1>4, <1>5, <1>6 DEF BCNext, Step

\* where the balance a call has fetched comes from, and what only grows
LEMMA FetchedStep ==
  ASSUME CacheTyped, [BCNext]_bcvars
  PROVE  /\ unguarded => unguarded'
         /\ account' \in Nat /\ account' >= account /\ UNCHANGED <<role, clock>>
         /\ \A c \in Calls :
              \/ fetched'[c] = fetched[c] /\ (pc'[c] = "setting" => pc[c] = "setting")
              \/ fetched'[c] = 0 /\ pc'[c] # "setting"
              \/ /\ pc[c] = "fetching" /\ pc'[c] = "setting" /\ fetched'[c] = account
                 /\ UNCHANGED data
<1> DEFINE From(c) == \/ fetched'[c] = fetched[c] /\ (pc'[c] = "setting" => pc[c] = "setting")
                      \/ fetched'[c] = 0 /\ pc'[c] # "setting"
                      \/ /\ pc[c] = "fetching" /\ pc'[c] = "setting" /\ fetched'[c] = account
                         /\ UNCHANGED data
           Steady == /\ unguarded => unguarded'
                     /\ account' \in Nat /\ account' >= account /\ UNCHANGED <<role, clock>>
           Right == Steady /\ \A c \in Calls : From(c)
<1>1. account \in Nat /\ account + 1 \in Nat /\ account + 1 >= account
  BY VersionsTyped
<1>2. ASSUME NEW c \in Calls, Others(c), From(c)
      PROVE  \A d \in Calls : From(d)
  BY <1>2 DEF Others
<1>3. ASSUME NEW c \in Calls, Thrown(c) \/ \E v, a : CallEnds(c, v, a)
      PROVE  \A d \in Calls : From(d)
  <2>1. Others(c) /\ From(c)
    BY <1>3 DEF Thrown, CallEnds, Over
  <2>2. QED
    BY <1>2, <2>1
<1>4. ASSUME NEW c \in Calls, NEW place, NEW r, Goes(c, place, r), place # "setting"
      PROVE  \A d \in Calls : From(d)
  <2>1. Others(c) /\ From(c)
    BY <1>4 DEF Goes
  <2>2. QED
    BY <1>2, <2>1
<1>5. ASSUME NEW c \in Calls, Moves(c, "releasing"), fetched'[c] = fetched[c] \/ fetched'[c] = 0
      PROVE  \A d \in Calls : From(d)
  <2>1. Others(c) /\ From(c)
    BY <1>5 DEF Moves
  <2>2. QED
    BY <1>2, <2>1
<1>6. ASSUME NEW c \in Calls, Find(c) \/ Acquire(c) \/ Poll(c) PROVE Right
  <2>1. Steady
    <3>1. unguarded => unguarded'
      BY <1>6, FindDoes, AcquireDoes, PollDoes, Zenon
    <3>2. UNCHANGED <<role, clock, account>>
      BY <1>6, FindDoes, AcquireDoes, PollDoes
    <3>3. QED
      BY <1>1, <3>1, <3>2
  <2>2. \/ Thrown(c) \/ \E v, a : CallEnds(c, v, a)
        \/ \E place, r : Goes(c, place, r) /\ place # "setting"
    BY <1>6, FindDoes, AcquireDoes, PollDoes
  <2>3. \A d \in Calls : From(d)
    BY <1>3, <1>4, <2>2
  <2>4. QED
    BY <2>1, <2>3
<1>7. ASSUME NEW c \in Calls, Answered(c) PROVE Right
  <2>1. Steady
    BY <1>1, <1>7, AnsweredDoes
  <2>2. Others(c) /\ From(c)
    BY <1>7, AnsweredDoes DEF Moves
  <2>3. QED
    BY <1>2, <2>1, <2>2
<1>8. ASSUME NEW c \in Calls, Set(c) PROVE Right
  BY <1>1, <1>3, <1>5, <1>8, SetDoes
<1>9. ASSUME NEW c \in Calls, FillFails(c) PROVE Right
  BY <1>1, <1>3, <1>5, <1>9, FillFailsDoes
<1>10. ASSUME NEW c \in Calls, Release(c) \/ ReleaseFails(c) \/ RedisFails(c) PROVE Right
  <2>1. Steady
    BY <1>1, <1>10, ReleaseDoes, RedisFailsDoes
  <2>2. Thrown(c) \/ \E v, a : CallEnds(c, v, a)
    BY <1>10, ReleaseDoes, RedisFailsDoes
  <2>3. QED
    BY <1>3, <2>1, <2>2
<1>11. ASSUME NEW p \in Procs, Crash(p) PROVE Right
  <2>1. Steady /\ Perish(p)
    BY <1>1, <1>11, CrashDoes
  <2>2. \A c \in Calls : From(c)
    BY <2>1 DEF Perish, Over
  <2>3. QED
    BY <2>1, <2>2
<1>12. ASSUME TimePasses PROVE Right
  <2>1. Steady
    BY <1>1, <1>12, TickDoes
  <2>2. \A c \in Calls : From(c)
    BY <1>12, TickDoes
  <2>3. QED
    BY <2>1, <2>2
<1>13. ASSUME Trade \/ UNCHANGED bcvars PROVE Right
  BY <1>1, <1>13, TradeDoes DEF bcvars, records, call
<1> HIDE DEF Steady, From
<1>14. Right
  BY <1>6, <1>7, <1>8, <1>9, <1>10, <1>11, <1>12, <1>13 DEF BCNext, Step
<1>15. QED
  BY <1>14 DEF Steady, From

\* nothing that p has been given, has read or is to return is newer than n
KnownTo(p, n) ==
  /\ newest[p] <= n
  /\ \A c \in Calls : Of[c] = p => /\ cached[c].version <= n
                                   /\ pc[c] = "releasing" => fetched[c] <= n
KnownNext(p, n) ==
  /\ newest'[p] <= n
  /\ \A c \in Calls : Of[c] = p => /\ cached'[c].version <= n
                                   /\ pc'[c] = "releasing" => fetched'[c] <= n
Below(n) == \A p \in Procs : local[p].version <= n /\ KnownTo(p, n)
BelowNext(n) == \A p \in Procs : local'[p].version <= n /\ KnownNext(p, n)

\* what p knows stays below n while it gets and puts into the record nothing newer
LEMMA KnownStays ==
  ASSUME CacheTyped, NEW n \in Nat, NEW p \in Procs, KnownTo(p, n), Got(p).version <= n,
         [BCNext]_bcvars, \A c \in Calls : Of[c] = p /\ Set(c) => fetched[c] <= n
  PROVE  KnownNext(p, n)
<1>1. /\ NoRecord.version <= n /\ 0 <= n /\ newest[p] <= n /\ newest[p] \in Nat
      /\ \A c \in Calls : Of[c] = p => /\ cached[c].version <= n
                                       /\ pc[c] = "releasing" => fetched[c] <= n
  BY VersionsTyped DEF KnownTo
<1>2. ASSUME NEW c \in Calls, Others(c), newest'[p] <= n,
             Of[c] = p => cached'[c].version <= n /\ (pc'[c] = "releasing" => fetched'[c] <= n)
      PROVE  KnownNext(p, n)
  BY <1>1, <1>2 DEF KnownNext, Others
<1>3. ASSUME NEW c \in Calls, NEW v, NEW a, CallEnds(c, v, a), Of[c] = p => v <= n
      PROVE  KnownNext(p, n)
  <2>1. newest'[p] <= n
    BY <1>1, <1>3 DEF CallEnds, Newer, Larger
  <2>2. QED
    BY <1>1, <1>2, <1>3, <2>1 DEF CallEnds, Over
<1>4. ASSUME NEW c \in Calls, Thrown(c) PROVE KnownNext(p, n)
  BY <1>1, <1>2, <1>4 DEF Thrown, Over
<1>5. ASSUME NEW c \in Calls, NEW place, NEW r, Goes(c, place, r), place # "releasing",
             Of[c] = p => r.version <= n
      PROVE  KnownNext(p, n)
  BY <1>1, <1>2, <1>5 DEF Goes
<1>6. ASSUME NEW c \in Calls, NEW place, Moves(c, place),
             Of[c] = p /\ place = "releasing" => fetched'[c] <= n
      PROVE  KnownNext(p, n)
  BY <1>1, <1>2, <1>6 DEF Moves
<1>7. ASSUME NEW c \in Calls, Find(c) PROVE KnownNext(p, n)
  <2>1. \/ CallEnds(c, Got(Of[c]).version, Got(Of[c]).age)
        \/ Goes(c, "fetching", NoRecord)
        \/ Goes(c, "locking", Got(Of[c])) \/ Goes(c, "polling", Got(Of[c]))
    BY <1>7, FindDoes
  <2>2. Of[c] = p => Got(Of[c]).version <= n
    OBVIOUS
  <2>3. QED
    BY <1>1, <1>3, <1>5, <2>1, <2>2
<1>8. ASSUME NEW c \in Calls, Acquire(c) PROVE KnownNext(p, n)
  <2>1. \/ CallEnds(c, cached[c].version, cached[c].age) \/ Thrown(c)
        \/ Goes(c, "fetching", NoRecord) \/ Goes(c, "polling", cached[c])
    BY <1>8, AcquireDoes
  <2>2. QED
    BY <1>1, <1>3, <1>4, <1>5, <2>1
<1>9. ASSUME NEW c \in Calls, Poll(c) PROVE KnownNext(p, n)
  <2>1. \/ CallEnds(c, Got(Of[c]).version, Got(Of[c]).age) \/ Thrown(c)
        \/ Goes(c, "sleeping", cached[c]) \/ Goes(c, "retrying", cached[c])
    BY <1>9, PollDoes
  <2>2. Of[c] = p => Got(Of[c]).version <= n
    OBVIOUS
  <2>3. QED
    BY <1>1, <1>3, <1>4, <1>5, <2>1, <2>2
<1>10. ASSUME NEW c \in Calls, Answered(c) PROVE KnownNext(p, n)
  BY <1>6, <1>10, AnsweredDoes
<1>11. ASSUME NEW c \in Calls, Set(c) PROVE KnownNext(p, n)
  <2>1. \/ CallEnds(c, fetched[c], 0)
        \/ Moves(c, "releasing") /\ UNCHANGED fetched
    BY <1>11, SetDoes
  <2>2. Of[c] = p => fetched[c] <= n
    BY <1>11
  <2>3. QED
    BY <1>3, <1>6, <2>1, <2>2
<1>12. ASSUME NEW c \in Calls, Release(c) \/ ReleaseFails(c) \/ RedisFails(c)
       PROVE  KnownNext(p, n)
  <2>1. Thrown(c) \/ (pc[c] = "releasing" /\ CallEnds(c, fetched[c], 0))
    BY <1>12, ReleaseDoes, RedisFailsDoes
  <2>2. QED
    BY <1>1, <1>3, <1>4, <2>1
<1>13. ASSUME NEW c \in Calls, FillFails(c) PROVE KnownNext(p, n)
  BY <1>1, <1>4, <1>6, <1>13, FillFailsDoes
<1>14. ASSUME NEW q \in Procs, Crash(q) PROVE KnownNext(p, n)
  <2>1. UNCHANGED newest /\ Perish(q)
    BY <1>14, CrashDoes
  <2>2. ASSUME NEW c \in Calls, Of[c] = p
        PROVE  cached'[c].version <= n /\ (pc'[c] = "releasing" => fetched'[c] <= n)
    BY <1>1, <2>1, <2>2 DEF Perish, Over
  <2>3. QED
    BY <1>1, <2>1, <2>2 DEF KnownNext
<1>15. ASSUME TimePasses PROVE KnownNext(p, n)
  <2>1. UNCHANGED <<newest, fetched>>
    BY <1>15, TickDoes
  <2>2. ASSUME NEW c \in Calls, Of[c] = p
        PROVE  cached'[c].version <= n /\ (pc'[c] = "releasing" => fetched'[c] <= n)
    <3>1. Older(cached[c]).version = cached[c].version
      BY OlderTyped, VersionsTyped
    <3>2. cached'[c].version = cached[c].version /\ (pc'[c] = "releasing" => pc[c] = "releasing")
      BY <1>15, <3>1, TickDoes
    <3>3. QED
      BY <1>1, <2>1, <2>2, <3>2
  <2>3. QED
    BY <1>1, <2>1, <2>2 DEF KnownNext
<1>16. ASSUME Trade \/ UNCHANGED bcvars PROVE KnownNext(p, n)
  <2>1. UNCHANGED <<newest, fetched, cached, pc>>
    BY <1>16, TradeDoes DEF bcvars, call
  <2>2. QED
    BY <1>1, <2>1 DEF KnownNext
<1>17. QED
  BY <1>7, <1>8, <1>9, <1>10, <1>11, <1>12, <1>13, <1>14, <1>15, <1>16 DEF BCNext, Step

\* where a process's local record comes from
LEMMA LocalStep ==
  ASSUME CacheTyped, [BCNext]_bcvars, NEW p \in Procs
  PROVE  \/ local'[p] = NoRecord
         \/ local'[p] = Older(local[p]) /\ Within(p, Older(local[p]), Ttl)
         \/ local'[p] = local[p]
         \/ local'[p] = data /\ data' = data
         \/ \E c \in Calls : /\ Of[c] = p /\ Set(c) /\ data' = FilledBy(c)
                              /\ local'[p] = FilledBy(c)
<1> DEFINE Right == \/ local'[p] = NoRecord
                    \/ local'[p] = Older(local[p]) /\ Within(p, Older(local[p]), Ttl)
                    \/ local'[p] = local[p]
                    \/ local'[p] = data /\ data' = data
                    \/ \E c \in Calls : /\ Of[c] = p /\ Set(c) /\ data' = FilledBy(c)
                                         /\ local'[p] = FilledBy(c)
<1>1. ASSUME NEW c \in Calls, Find(c) \/ Poll(c) PROVE Right
  <2>1. UNCHANGED data /\ (LocalOf(Of[c]) \/ UNCHANGED local)
    BY <1>1, FindDoes, PollDoes
  <2>2. QED
    BY <2>1, GotTyped DEF LocalOf
<1>2. ASSUME NEW c \in Calls, Set(c) PROVE Right
  BY <1>2, SetDoes
<1>3. ASSUME NEW c \in Calls, \/ Acquire(c) \/ Answered(c) \/ Release(c) \/ FillFails(c)
                              \/ RedisFails(c) \/ ReleaseFails(c)
      PROVE  Right
  BY <1>3, AcquireDoes, AnsweredDoes, ReleaseDoes, FillFailsDoes, RedisFailsDoes
<1>4. ASSUME NEW q \in Procs, Crash(q) PROVE Right
  BY <1>4, CrashDoes
<1>5. ASSUME TimePasses PROVE Right
  BY <1>5, TickDoes
<1>6. Trade \/ UNCHANGED bcvars => Right
  BY DEF Trade, bcvars, records
<1> HIDE DEF Right
<1>7. Right
  BY <1>1, <1>2, <1>3, <1>4, <1>5, <1>6 DEF BCNext, Step
<1>8. QED
  BY <1>7 DEF Right

\* what is known stays below n while nothing newer is put into the record
LEMMA BelowStays ==
  ASSUME CacheTyped, NEW n \in Nat, Below(n), data.version <= n, [BCNext]_bcvars,
         \A c \in Calls : Set(c) => fetched[c] <= n
  PROVE  BelowNext(n)
<1> SUFFICES ASSUME NEW p \in Procs PROVE local'[p].version <= n /\ KnownNext(p, n)
  BY DEF BelowNext
<1>1. local[p].version <= n /\ KnownTo(p, n) /\ Got(p).version <= n
  BY GotTyped DEF Below
<1>2. KnownNext(p, n)
  BY <1>1, KnownStays
<1>3. NoRecord.version <= n /\ Older(local[p]).version = local[p].version
  BY VersionsTyped, OlderTyped
<1>4. \A c \in Calls : Set(c) => FilledBy(c).version <= n
  BY FilledTyped
<1>5. local'[p].version <= n
  BY <1>1, <1>3, <1>4, LocalStep
<1>6. QED
  BY <1>2, <1>5

\* Of the record, and of a call that is about to fill it, nothing newer is known.
SettingOf(c) == pc[c] = "setting" => data.version <= fetched[c] /\ Below(fetched[c])
Newest ==
  /\ Below(account) /\ data.version <= account /\ \A c \in Calls : fetched[c] <= account
  /\ ~unguarded => /\ data # NoRecord => Below(data.version)
                   /\ \A c \in Calls : SettingOf(c)

LEMMA StaysNewest ==
  ASSUME CacheTyped, Filling, Newest, [BCNext]_bcvars
  PROVE  Newest'
<1>1. /\ account \in Nat /\ data.version \in Nat /\ NoRecord.version = 0
      /\ \A c \in Calls : fetched[c] \in Nat /\ fetched[c] <= account
      /\ Below(account) /\ data.version <= account
  BY VersionsTyped DEF Newest
<1>2. /\ unguarded => unguarded'
      /\ account' \in Nat /\ account' >= account
  BY FetchedStep
<1>3. \A c \in Calls :
        \/ fetched'[c] = fetched[c] /\ (pc'[c] = "setting" => pc[c] = "setting")
        \/ fetched'[c] = 0 /\ pc'[c] # "setting"
        \/ /\ pc[c] = "fetching" /\ pc'[c] = "setting" /\ fetched'[c] = account
           /\ UNCHANGED data
  BY FetchedStep
<1>4. /\ \A c \in Calls : Set(c) => Fills(c) /\ pc[c] = "setting" /\ data' = FilledBy(c)
      /\ \/ \E c \in Calls : pc[c] = "setting" /\ pc'[c] # "setting" /\ data' = FilledBy(c)
         \/ data'.version = data.version /\ (data' = NoRecord <=> data = NoRecord)
         \/ data' = NoRecord
  BY DataStep
<1>5. \A c \in Calls : FilledBy(c).version = fetched[c] /\ FilledBy(c) # NoRecord
  BY FilledTyped
<1>6. ASSUME ~unguarded, NEW c \in Calls, NEW d \in Calls, pc[c] = "setting", pc[d] = "setting"
      PROVE  c = d
  BY <1>6, OneFills DEF Fills
<1>7. BelowNext(account) /\ BelowNext(account')
  <2>1. BelowNext(account)
    BY <1>1, BelowStays
  <2>2. /\ newest' \in [Procs -> Nat \ {0}] /\ local' \in [Procs -> Balances]
        /\ cached' \in [Calls -> Balances] /\ fetched' \in [Calls -> Nat]
    BY StaysTyped DEF CacheTyped, CallTyped
  <2>3. /\ \A p \in Procs : newest'[p] \in Nat /\ local'[p].version \in Nat
        /\ \A c \in Calls : cached'[c].version \in Nat /\ fetched'[c] \in Nat
    BY <2>2, BalanceTyped
  <2>4. BelowNext(account')
    BY <1>1, <1>2, <2>1, <2>3 DEF BelowNext, KnownNext
  <2>5. QED
    BY <2>1, <2>4
<1>8. data'.version <= account' /\ \A c \in Calls : fetched'[c] <= account'
  BY <1>1, <1>2, <1>3, <1>4, <1>5
<1>9. ASSUME ~unguarded', data' # NoRecord PROVE BelowNext(data'.version)
  <2>1. ~unguarded
    BY <1>2, <1>9
  <2>2. CASE \E c \in Calls : pc[c] = "setting" /\ pc'[c] # "setting" /\ data' = FilledBy(c)
    <3>1. PICK c \in Calls : pc[c] = "setting" /\ pc'[c] # "setting" /\ data' = FilledBy(c)
      BY <2>2
    <3>2. data.version <= fetched[c] /\ Below(fetched[c])
      BY <2>1, <3>1 DEF Newest, SettingOf
    <3>3. \A d \in Calls : Set(d) => d = c
      BY <1>4, <1>6, <2>1, <3>1
    <3>4. \A d \in Calls : Set(d) => fetched[d] <= fetched[c]
      BY <1>1, <3>3
    <3>5. BelowNext(fetched[c])
      BY <1>1, <3>2, <3>4, BelowStays
    <3>6. data'.version = fetched[c]
      BY <1>5, <3>1
    <3>7. QED
      BY <3>5, <3>6
  <2>3. CASE data'.version = data.version /\ (data' = NoRecord <=> data = NoRecord)
    <3>1. Below(data.version) /\ data.version <= data.version
      BY <1>1, <1>9, <2>1, <2>3 DEF Newest
    <3>2. \A d \in Calls : Set(d) => fetched[d] <= data.version
      BY <1>1, <1>4, <1>5, <2>3
    <3>3. BelowNext(data.version)
      BY <1>1, <3>1, <3>2, BelowStays
    <3>4. QED
      BY <2>3, <3>3
  <2>4. QED
    BY <1>4, <1>9, <2>2, <2>3
<1>10. ASSUME ~unguarded', NEW d \in Calls, pc'[d] = "setting"
       PROVE  data'.version <= fetched'[d] /\ BelowNext(fetched'[d])
  <2>1. ~unguarded
    BY <1>2, <1>10
  <2>2. CASE pc[d] = "setting" /\ fetched'[d] = fetched[d]
    <3>1. data.version <= fetched[d] /\ Below(fetched[d])
      BY <2>1, <2>2 DEF Newest, SettingOf
    <3>2. ~ \E c \in Calls : pc[c] = "setting" /\ pc'[c] # "setting"
      BY <1>6, <1>10, <2>1, <2>2
    <3>3. data'.version <= fetched[d]
      BY <1>1, <1>4, <3>1, <3>2
    <3>4. \A c \in Calls : Set(c) => fetched[c] <= fetched[d]
      <4>1. \A c \in Calls : Set(c) => c = d
        BY <1>4, <1>6, <2>1, <2>2
      <4>2. QED
        BY <1>1, <4>1
    <3>5. BelowNext(fetched[d])
      BY <1>1, <3>1, <3>4, BelowStays
    <3>6. QED
      BY <2>2, <3>3, <3>5
  <2>3. CASE fetched'[d] = account /\ UNCHANGED data
    BY <1>1, <1>7, <2>3
  <2>4. QED
    BY <1>3, <1>10, <2>2, <2>3
<1>11. Below(account)' <=> BelowNext(account')
  BY DEF Below, KnownTo, BelowNext, KnownNext
<1>12. Below(data.version)' <=> BelowNext(data'.version)
  BY DEF Below, KnownTo, BelowNext, KnownNext
<1>13. ASSUME NEW c \in Calls
       PROVE  SettingOf(c)' <=> (pc'[c] = "setting" =>
                /\ data'.version <= fetched'[c]
                /\ BelowNext(fetched'[c]))
  BY DEF SettingOf, Below, KnownTo, BelowNext, KnownNext
<1>14. QED
  BY <1>7, <1>8, <1>9, <1>10, <1>11, <1>12, <1>13 DEF Newest

\* a record that looks fresh in a tick's time does so now
LEMMA YoungerFresh ==
  ASSUME CacheTyped, NEW p \in Procs, NEW r \in Balances, Within(p, Older(r), Ttl)
  PROVE  Within(p, r, Ttl)
<1>1. /\ Older(r) # NoRecord /\ AgeMs(p, Older(r)) <= Ttl /\ r # NoRecord
  BY OlderTyped DEF Within
<1>2. /\ Older(r).age = r.age + 1 /\ Older(r).by = r.by /\ r.age \in Nat /\ r.by \in Procs
  BY <1>1, OlderTyped, BalanceTyped
<1>3. clock[p] \in Nat /\ clock[r.by] \in Nat /\ Ttl \in Nat
  BY <1>2, SharedBalanceCacheAssumption DEF CacheTyped
<1>4. AgeMs(p, r) <= Ttl
  BY <1>1, <1>2, <1>3 DEF AgeMs
<1>5. QED
  BY <1>1, <1>4 DEF Within

\* Nothing a process knows is newer than its fresh local record, and no call may
\* return less than its process had been given when it began.
LocalOwn(p) == ~unguarded /\ Within(p, local[p], Ttl) => KnownTo(p, local[p].version)
OwnOf(c) == /\ fetched[c] # 0 \/ pc[c] = "setting" => floor[c] <= fetched[c]
            /\ floor[c] <= newest[Of[c]]
            /\ ~unguarded /\ cached[c] # NoRecord => floor[c] <= cached[c].version
Own == (\A p \in Procs : LocalOwn(p)) /\ \A c \in Calls : OwnOf(c)

\* nothing that a process knows is newer than what get() finds
LEMMA GotKnown ==
  ASSUME CacheTyped, Newest, Own, ~unguarded, NEW p \in Procs, Got(p) # NoRecord
  PROVE  KnownTo(p, Got(p).version)
<1>1. data # NoRecord => KnownTo(p, data.version)
  BY DEF Newest, Below
<1>2. Within(p, local[p], Ttl) => KnownTo(p, local[p].version)
  BY DEF Own, LocalOwn
<1>3. QED
  BY <1>1, <1>2 DEF Got

LEMMA StaysLocalOwn ==
  ASSUME CacheTyped, Filling, Newest, Own, [BCNext]_bcvars, NEW p \in Procs
  PROVE  LocalOwn(p)'
<1> SUFFICES ASSUME ~unguarded', Within(p, local[p], Ttl)'
             PROVE  KnownNext(p, local'[p].version)
  BY DEF LocalOwn, KnownTo, KnownNext
<1>1. ~unguarded /\ UNCHANGED clock
  BY FetchedStep
<1>2. Within(p, local'[p], Ttl) /\ local'[p] # NoRecord
  BY <1>1 DEF Within, AgeMs, NoRecord
<1>3. ASSUME local'[p] = data' PROVE KnownNext(p, local'[p].version)
  <2>1. Newest' /\ data' # NoRecord
    BY <1>2, <1>3, StaysNewest
  <2>2. KnownNext(p, data'.version)
    BY <2>1 DEF Newest, Below, KnownTo, KnownNext, NoRecord
  <2>3. QED
    BY <1>3, <2>2
<1>4. ASSUME local'[p] # data' PROVE KnownNext(p, local'[p].version)
  <2>1. \/ local'[p] = local[p]
        \/ local'[p] = Older(local[p]) /\ Within(p, Older(local[p]), Ttl)
    BY <1>2, <1>4, LocalStep
  <2>2. /\ local[p] \in Balances /\ local[p].version \in Nat
        /\ Older(local[p]).version = local[p].version
    BY VersionsTyped, OlderTyped
  <2>3. Within(p, local[p], Ttl) /\ local'[p].version = local[p].version
    BY <1>2, <2>1, <2>2, YoungerFresh
  <2>4. KnownTo(p, local[p].version) /\ Got(p) = local[p]
    BY <1>1, <2>3 DEF Own, LocalOwn, Got
  <2>5. \A c \in Calls : Of[c] = p => ~Set(c)
    BY <1>4, SetDoes
  <2>6. local[p].version <= local[p].version
    BY <2>2
  <2>7. KnownNext(p, local[p].version)
    BY <2>2, <2>4, <2>5, <2>6, KnownStays
  <2>8. QED
    BY <2>3, <2>7
<1>5. QED
  BY <1>3, <1>4

\* what a call is given, or waits with, is no older than what its process had
LEMMA StaysCallOwn ==
  ASSUME CacheTyped, Filling, Newest, Own, NeverBackwards, [BCNext]_bcvars
  PROVE  (\A c \in Calls : OwnOf(c)') /\ NeverBackwards'
<1>1. /\ account \in Nat /\ NoRecord.version = 0
      /\ \A p \in Procs : newest[p] \in Nat /\ newest[p] <= account /\ Got(p).version \in Nat
      /\ \A c \in Calls : /\ fetched[c] \in Nat /\ floor[c] \in Nat /\ Of[c] \in Procs
                          /\ cached[c].version \in Nat
                          /\ OwnOf(c) /\ FillingOf(c)
  BY VersionsTyped DEF Newest, Below, KnownTo, Own, Filling
<1>2. unguarded => unguarded'
  BY FetchedStep
<1>3. \A c \in Calls : Floor(c) \in Nat /\ Floor(c) <= newest[Of[c]]
  BY <1>1 DEF Floor, OwnOf
<1>4. ASSUME ~unguarded', NEW c \in Calls, Got(Of[c]) # NoRecord
      PROVE  Floor(c) <= Got(Of[c]).version
  <2>1. newest[Of[c]] <= Got(Of[c]).version
    BY <1>1, <1>2, <1>4, GotKnown DEF KnownTo
  <2>2. QED
    BY <1>1, <1>3, <2>1
<1> DEFINE Right == (\A c \in Calls : OwnOf(c)') /\ NeverBackwards'
           Grows == \A p \in Procs : newest'[p] \in Nat /\ newest[p] <= newest'[p]
<1>5. returned' = Nothing => NeverBackwards'
  BY NothingTyped DEF NeverBackwards
<1>6. UNCHANGED newest => Grows
  BY <1>1
<1>7. ASSUME NEW c \in Calls, Others(c), Grows, OwnOf(c)'
      PROVE  \A d \in Calls : OwnOf(d)'
  <2> SUFFICES ASSUME NEW d \in Calls, d # c PROVE OwnOf(d)'
    BY <1>7
  <2>1. /\ pc'[d] = pc[d] /\ cached'[d] = cached[d] /\ fetched'[d] = fetched[d]
        /\ floor'[d] = floor[d]
    BY <1>7 DEF Others
  <2>2. floor[d] <= newest'[Of[d]]
    BY <1>1, <1>7 DEF OwnOf
  <2>3. QED
    BY <1>1, <1>2, <2>1, <2>2 DEF OwnOf
<1>8. ASSUME NEW c \in Calls, Over(c), Grows
      PROVE  OwnOf(c)'
  <2>1. 0 <= newest'[Of[c]]
    BY <1>1, <1>8
  <2>2. QED
    BY <1>8, <2>1 DEF OwnOf, Over
<1>9. ASSUME NEW c \in Calls, NEW v \in Nat, NEW a, CallEnds(c, v, a),
             ~unguarded' => Floor(c) <= v
      PROVE  Right
  <2>1. Grows
    BY <1>1, <1>9 DEF CallEnds, Newer, Larger
  <2>2. returned'.version = v /\ returned'.floor = Floor(c)
    BY <1>9 DEF CallEnds
  <2>3. NeverBackwards'
    BY <1>3, <1>9, <2>2 DEF NeverBackwards
  <2>4. QED
    BY <1>7, <1>8, <1>9, <2>1, <2>3 DEF CallEnds
<1>10. ASSUME NEW c \in Calls, Thrown(c) PROVE Right
  BY <1>5, <1>6, <1>7, <1>8, <1>10 DEF Thrown
<1>11. ASSUME NEW c \in Calls, NEW place, NEW r, Goes(c, place, r), place # "setting",
              fetched[c] = 0, ~unguarded' /\ r # NoRecord => Floor(c) <= r.version
       PROVE  Right
  <2>1. OwnOf(c)'
    BY <1>3, <1>11 DEF OwnOf, Goes
  <2>2. QED
    BY <1>5, <1>6, <1>7, <1>11, <2>1 DEF Goes
<1>12. ASSUME NEW c \in Calls, NEW place, Moves(c, place),
              fetched'[c] # 0 \/ place = "setting" => floor[c] <= fetched'[c]
       PROVE  Right
  <2>1. OwnOf(c)'
    BY <1>1, <1>2, <1>12 DEF OwnOf, Moves
  <2>2. QED
    BY <1>5, <1>6, <1>7, <1>12, <2>1 DEF Moves
<1>13. ASSUME NEW c \in Calls, Find(c) PROVE Right
  <2>1. fetched[c] = 0
    BY <1>1, <1>13, FindDoes DEF FillingOf
  <2>2. \/ CallEnds(c, Got(Of[c]).version, Got(Of[c]).age) /\ Got(Of[c]) # NoRecord
        \/ Goes(c, "fetching", NoRecord)
        \/ Goes(c, "locking", Got(Of[c])) \/ Goes(c, "polling", Got(Of[c]))
    BY <1>13, FindDoes DEF Within
  <2>3. QED
    BY <1>1, <1>4, <1>9, <1>11, <2>1, <2>2
<1>14. \A c \in Calls : ~unguarded' /\ cached[c] # NoRecord /\ pc[c] # "idle"
                        => Floor(c) <= cached[c].version
  BY <1>1, <1>2 DEF OwnOf, Floor
<1>15. ASSUME NEW c \in Calls, Acquire(c) PROVE Right
  <2>1. fetched[c] = 0 /\ pc[c] # "idle"
    BY <1>1, <1>15, AcquireDoes DEF FillingOf
  <2>2. \/ CallEnds(c, cached[c].version, cached[c].age) /\ cached[c] # NoRecord
        \/ Thrown(c) \/ Goes(c, "fetching", NoRecord) \/ Goes(c, "polling", cached[c])
    BY <1>15, AcquireDoes
  <2>3. QED
    BY <1>1, <1>9, <1>10, <1>11, <1>14, <2>1, <2>2
<1>16. ASSUME NEW c \in Calls, Poll(c) PROVE Right
  <2>1. fetched[c] = 0 /\ pc[c] # "idle"
    BY <1>1, <1>16, PollDoes DEF FillingOf
  <2>2. \/ CallEnds(c, Got(Of[c]).version, Got(Of[c]).age) /\ Got(Of[c]) # NoRecord
        \/ Thrown(c) \/ Goes(c, "sleeping", cached[c]) \/ Goes(c, "retrying", cached[c])
    BY <1>16, PollDoes DEF Within
  <2>3. QED
    BY <1>1, <1>4, <1>9, <1>10, <1>11, <1>14, <2>1, <2>2
<1>17. ASSUME NEW c \in Calls, Answered(c) PROVE Right
  <2>1. floor[c] <= account
    BY <1>1 DEF OwnOf
  <2>2. QED
    BY <1>12, <1>17, <2>1, AnsweredDoes
<1>18. \A c \in Calls : (fetched[c] # 0 \/ pc[c] = "setting") /\ pc[c] # "idle"
                        => Floor(c) <= fetched[c]
  BY <1>1 DEF OwnOf, Floor
<1>19. ASSUME NEW c \in Calls, Set(c) PROVE Right
  <2>1. pc[c] = "setting" /\ floor[c] <= fetched[c] /\ Floor(c) <= fetched[c]
    BY <1>1, <1>18, <1>19, SetDoes DEF OwnOf
  <2>2. CallEnds(c, fetched[c], 0) \/ (Moves(c, "releasing") /\ UNCHANGED fetched)
    BY <1>19, SetDoes
  <2>3. QED
    BY <1>1, <1>9, <1>12, <2>1, <2>2
<1>20. ASSUME NEW c \in Calls, Release(c) \/ ReleaseFails(c) \/ RedisFails(c) PROVE Right
  <2>1. Thrown(c) \/ (CallEnds(c, fetched[c], 0) /\ fetched[c] # 0 /\ pc[c] = "releasing")
    BY <1>20, ReleaseDoes, RedisFailsDoes
  <2>2. QED
    BY <1>1, <1>9, <1>10, <1>18, <2>1
<1>21. ASSUME NEW c \in Calls, FillFails(c) PROVE Right
  BY <1>10, <1>12, <1>21, FillFailsDoes
<1>22. ASSUME NEW p \in Procs, Crash(p) PROVE Right
  <2>1. UNCHANGED <<newest, unguarded>> /\ returned' = Nothing /\ Perish(p)
    BY <1>22, CrashDoes
  <2>2. ASSUME NEW c \in Calls PROVE OwnOf(c)'
    <3>1. CASE Over(c)
      BY <1>6, <1>8, <2>1, <3>1
    <3>2. CASE /\ pc'[c] = pc[c] /\ cached'[c] = cached[c]
               /\ fetched'[c] = fetched[c] /\ floor'[c] = floor[c]
      BY <1>1, <2>1, <3>2 DEF OwnOf
    <3>3. QED
      BY <2>1, <3>1, <3>2 DEF Perish
  <2>3. QED
    BY <1>5, <2>1, <2>2
<1>23. ASSUME TimePasses PROVE Right
  <2>1. UNCHANGED <<fetched, floor, newest>> /\ returned' = Nothing
    BY <1>23, TickDoes
  <2>2. ASSUME NEW c \in Calls PROVE OwnOf(c)'
    <3>1. cached[c] \in Balances
      BY VersionsTyped
    <3>2. /\ cached'[c].version = cached[c].version
          /\ (cached'[c] = NoRecord <=> cached[c] = NoRecord)
      BY <1>23, <3>1, TickDoes, OlderTyped
    <3>3. pc'[c] = "setting" => pc[c] = "setting"
      BY <1>23, TickDoes
    <3>4. QED
      BY <1>1, <1>2, <2>1, <3>2, <3>3 DEF OwnOf
  <2>3. QED
    BY <1>5, <2>1, <2>2
<1>24. ASSUME Trade PROVE Right
  <2>1. UNCHANGED <<pc, cached, fetched, floor, newest, unguarded>> /\ returned' = Nothing
    BY <1>24, TradeDoes DEF call
  <2>2. QED
    BY <1>1, <1>5, <2>1 DEF OwnOf
<1>25. ASSUME UNCHANGED bcvars PROVE Right
  BY <1>1, <1>25 DEF bcvars, call, OwnOf, NeverBackwards
<1> HIDE DEF Right
<1>26. Right
  BY <1>13, <1>15, <1>16, <1>17, <1>19, <1>20, <1>21, <1>22, <1>23, <1>24, <1>25
     DEF BCNext, Step
<1>27. QED
  BY <1>26 DEF Right

\* if somebody is the leader, all others are followers
Roles == \A r \in RoleSets : \A p, q \in Procs : r[p] = "leader" /\ q # p => r[q] = "follower"

LEMMA StartsOrdered ==
  ASSUME Roles, BCInit
  PROVE  Filling /\ Newest /\ Own /\ NeverBackwards
<1>1. NoRecord.version = 0 /\ \A c \in Calls : Of[c] \in Procs
  BY BalanceTyped, Caller
<1>2. Filling
  BY SharedBalanceCacheAssumption
     DEF BCInit, Filling, RolesNow, LeadersAlone, FillingOf, Fills, RoleOf, Roles
<1>3. Newest
  BY <1>1 DEF BCInit, Newest, Below, KnownTo, SettingOf
<1>4. Own
  BY <1>1 DEF BCInit, Own, OwnOf, LocalOwn, Within
<1>5. NeverBackwards
  BY NothingTyped DEF BCInit, NeverBackwards
<1>6. QED
  BY <1>2, <1>3, <1>4, <1>5

\* No call of fetchBalance() returns an older balance than one its process was
\* given before it began, while one call at a time fills the record: for any
\* processes, overlapping calls, clocks and number of failed calls and crashes, if
\* nobody fills the cache beside a leader.
THEOREM NoProcessGoesBack ==
  ASSUME Roles
  PROVE  BCSpec => []NeverBackwards
<1> DEFINE NewestInv == CacheTyped /\ Filling /\ Newest /\ Own /\ NeverBackwards
<1>1. BCInit => NewestInv
  BY StartsRight, StartsOrdered
<1>2. NewestInv /\ [BCNext]_bcvars => NewestInv'
  <2> SUFFICES ASSUME NewestInv, [BCNext]_bcvars PROVE NewestInv'
    OBVIOUS
  <2>1. Own'
    BY StaysLocalOwn, StaysCallOwn DEF Own
  <2>2. QED
    BY <2>1, StaysTyped, StaysFilling, StaysNewest, StaysCallOwn
<1>3. QED
  BY <1>1, <1>2, PTL DEF BCSpec
-----------------------------------------------------------------------------
(* The bounds of the types: a record has the number of a state the account has *)
(* been in, and neither a record nor the lock outlives its expiry.             *)

Named(r) == r # NoRecord => r.version # 0
LockLives == lock \in [owner : Calls \cup {"lost"}, age : 0..(LockTtl - 1)] \cup {NoLock}
NamedOf(c) == /\ Named(cached[c])
              /\ fetched[c] <= MaxVersion /\ (pc[c] = "setting" => fetched[c] # 0)
GivenBounded == /\ returned.version <= MaxVersion /\ returned.floor <= MaxVersion
                /\ \A c \in Calls : floor[c] <= MaxVersion
Bounded ==
  /\ role \in RoleSets /\ clock \in Clocks /\ unguarded \in BOOLEAN /\ faults \in 0..MaxFaults
  /\ account \in 1..MaxVersion /\ data.version <= MaxVersion /\ Below(MaxVersion)
  /\ LockLives /\ Named(data) /\ GivenBounded
  /\ \A p \in Procs : Named(local[p])
  /\ \A c \in Calls : NamedOf(c)

\* a failure or a crash is counted, and nothing but a trade changes the account
LEMMA StaysCounted ==
  ASSUME CacheTyped, Bounded, [BCNext]_bcvars
  PROVE  unguarded' \in BOOLEAN /\ faults' \in 0..MaxFaults /\ account' \in 1..MaxVersion
<1>1. /\ unguarded \in BOOLEAN /\ faults \in 0..MaxFaults /\ account \in 1..MaxVersion
      /\ MaxVersion \in Nat /\ MaxFaults \in Nat
  BY SharedBalanceCacheAssumption DEF Bounded
<1>2. Fault => faults' \in 0..MaxFaults
  BY <1>1 DEF Fault
<1>3. ASSUME NEW c \in Calls, Find(c) \/ Step(c)
      PROVE  UNCHANGED <<faults, account>>
  BY <1>3 DEF Find, Step, Acquire, Poll, Answered, Set, Release
<1>4. ASSUME NEW c \in Calls, Find(c) PROVE unguarded' \in BOOLEAN
  <2>1. unguarded' = unguarded \/ unguarded' = (unguarded \/ \E d \in Calls : Fills(d))
    BY <1>4, FindDoes
  <2>2. (unguarded \/ \E d \in Calls : Fills(d)) \in BOOLEAN
    BY Zenon
  <2>3. QED
    BY <1>1, <2>1, <2>2, Zenon
<1>5. ASSUME NEW c \in Calls, Step(c) PROVE UNCHANGED unguarded
  BY <1>5 DEF Step, Acquire, Poll, Answered, Set, Release
<1>6. ASSUME NEW c \in Calls, FillFails(c) \/ RedisFails(c) \/ ReleaseFails(c)
      PROVE  Fault /\ UNCHANGED <<unguarded, account>>
  BY <1>6 DEF FillFails, RedisFails, ReleaseFails
<1>7. ASSUME NEW p \in Procs, Crash(p) PROVE Fault /\ UNCHANGED <<unguarded, account>>
  BY <1>7 DEF Crash
<1>8. ASSUME TimePasses PROVE unguarded' \in BOOLEAN /\ UNCHANGED <<faults, account>>
  <2>1. UNCHANGED <<faults, account>>
    BY <1>8 DEF TimePasses
  <2>2. unguarded' \in BOOLEAN
    BY <1>8, Zenon DEF TimePasses
  <2>3. QED
    BY <2>1, <2>2
<1>9. ASSUME Trade PROVE UNCHANGED <<unguarded, faults>> /\ account' \in 1..MaxVersion
  BY <1>1, <1>9 DEF Trade
<1>10. UNCHANGED bcvars => UNCHANGED <<unguarded, faults, account>>
  BY DEF bcvars
<1>11. QED
  BY <1>1, <1>2, <1>3, <1>4, <1>5, <1>6, <1>7, <1>8, <1>9, <1>10 DEF BCNext

LEMMA StaysLocked ==
  ASSUME LockLives, [BCNext]_bcvars
  PROVE  LockLives'
<1> DEFINE Held == [owner : Calls \cup {"lost"}, age : 0..(LockTtl - 1)]
<1>1. lock \in Held \cup {NoLock} /\ LockTtl \in Nat \ {0}
  BY SharedBalanceCacheAssumption DEF LockLives
<1>2. \A c \in Calls \cup {"lost"} : [owner |-> c, age |-> 0] \in Held
  BY <1>1
<1>3. ASSUME lock # NoLock PROVE [lock EXCEPT !.owner = "lost"] \in Held
  BY <1>1, <1>3
<1>4. \A c \in Calls : c # "none"
  BY SharedBalanceCacheAssumption
<1>5. \A c \in Calls : lock.owner = c => lock # NoLock
  BY <1>4 DEF NoLock
<1>6. ASSUME NEW c \in Calls, Find(c) \/ Poll(c) \/ Answered(c) \/ Set(c) \/ FillFails(c)
      PROVE  lock' = lock
  BY <1>6 DEF Find, Poll, Answered, Set, FillFails
<1>7. ASSUME NEW c \in Calls, Acquire(c) \/ Release(c) \/ RedisFails(c)
      PROVE  \/ lock' = lock \/ lock' = NoLock \/ lock' = [owner |-> c, age |-> 0]
             \/ lock' = [owner |-> "lost", age |-> 0]
  BY <1>7 DEF Acquire, Release, RedisFails
<1>8. ASSUME NEW c \in Calls, ReleaseFails(c)
      PROVE  \/ lock' = lock
             \/ lock # NoLock /\ lock' = [lock EXCEPT !.owner = "lost"]
  BY <1>5, <1>8 DEF ReleaseFails
<1>9. ASSUME NEW p \in Procs, Crash(p)
      PROVE  \/ lock' = lock
             \/ lock # NoLock /\ lock' = [lock EXCEPT !.owner = "lost"]
  BY <1>5, <1>9 DEF Crash
<1>10. ASSUME TimePasses PROVE lock' \in Held \cup {NoLock}
  <2>1. CASE lock = NoLock \/ lock.age + 1 = LockTtl
    BY <1>10, <2>1 DEF TimePasses, LockExpires
  <2>2. CASE lock # NoLock /\ lock.age + 1 # LockTtl
    <3>1. lock' = [lock EXCEPT !.age = lock.age + 1] /\ lock \in Held
      BY <1>1, <1>10, <2>2 DEF TimePasses, LockExpires
    <3>2. lock.age \in 0..(LockTtl - 1) /\ lock.age + 1 \in 0..(LockTtl - 1)
      BY <1>1, <2>2, <3>1
    <3>3. QED
      BY <3>1, <3>2
  <2>3. QED
    BY <2>1, <2>2
<1>11. Trade \/ UNCHANGED bcvars => lock' = lock
  BY DEF Trade, bcvars
<1> HIDE DEF Held
<1>12. [BCNext]_bcvars => lock' \in Held \cup {NoLock}
  BY <1>1, <1>2, <1>3, <1>6, <1>7, <1>8, <1>9, <1>10, <1>11 DEF BCNext, Step
<1>13. QED
  BY <1>12 DEF LockLives, Held

\* what is filled in has been fetched
LEMMA StaysNamed ==
  ASSUME CacheTyped, Bounded, [BCNext]_bcvars
  PROVE  Named(data)' /\ (\A p \in Procs : Named(local[p])') /\ \A c \in Calls : NamedOf(c)'
<1>1. /\ account # 0 /\ account <= MaxVersion /\ Named(data) /\ Named(NoRecord)
      /\ MaxVersion \in Nat /\ account \in Nat /\ 0 <= MaxVersion
      /\ \A p \in Procs : Named(local[p])
      /\ \A c \in Calls : /\ Named(cached[c]) /\ fetched[c] <= MaxVersion
                          /\ pc[c] = "setting" => fetched[c] # 0
  BY SharedBalanceCacheAssumption DEF Bounded, NamedOf, Named
<1>2. \A p \in Procs : Named(Got(p))
  BY <1>1, GotTyped
<1>3. \A c \in Calls : pc[c] = "setting" => Named(FilledBy(c))
  BY <1>1, FilledTyped DEF Named
<1>4. \A r \in Balances : Named(r) => Named(Older(r))
  BY OlderTyped DEF Named
<1>5. \A c \in Calls : fetched'[c] <= MaxVersion /\ (pc'[c] = "setting" => fetched'[c] # 0)
  BY <1>1, FetchedStep
<1>6. Named(data)'
  <2>1. Named(data') <=> Named(data)'
    BY DEF Named
  <2>2. CASE data'.version = data.version /\ (data' = NoRecord <=> data = NoRecord)
    BY <1>1, <2>1, <2>2 DEF Named
  <2>3. QED
    BY <1>1, <1>3, <2>1, <2>2, DataStep
<1>7. ASSUME NEW p \in Procs PROVE Named(local'[p])
  <2>1. local[p] \in Balances
    BY VersionsTyped
  <2>2. \A c \in Calls : Set(c) => Named(FilledBy(c))
    BY <1>3, SetDoes
  <2>3. QED
    BY <1>1, <1>4, <2>1, <2>2, LocalStep
<1> DEFINE All(f) == \A c \in Calls : Named(f[c])
<1>8. All(cached')
  <2>1. ASSUME NEW c \in Calls, Thrown(c) \/ \E v, a : CallEnds(c, v, a) PROVE All(cached')
    BY <1>1, <2>1 DEF Thrown, CallEnds, Others, Over
  <2>2. ASSUME NEW c \in Calls, NEW place, NEW r, Goes(c, place, r), Named(r)
        PROVE  All(cached')
    BY <1>1, <2>2 DEF Goes, Others
  <2>3. UNCHANGED cached => All(cached')
    BY <1>1
  <2>4. \A c \in Calls : Named(cached[c]) /\ Of[c] \in Procs
    BY <1>1, Caller
  <2>5. \A c \in Calls : \A place : Moves(c, place) => UNCHANGED cached
    BY DEF Moves
  <2>6. ASSUME NEW p \in Procs, Crash(p) PROVE All(cached')
    BY <1>1, <2>6, CrashDoes DEF Perish, Over
  <2>7. ASSUME TimePasses PROVE All(cached')
    BY <1>1, <1>4, <2>7, TickDoes DEF CacheTyped, CallTyped, All
  <2> HIDE DEF All
  <2>8. ASSUME NEW c \in Calls, Find(c) PROVE All(cached')
    BY <1>1, <1>2, <2>1, <2>2, <2>4, <2>8, FindDoes
  <2>9. ASSUME NEW c \in Calls, Acquire(c) PROVE All(cached')
    BY <1>1, <2>1, <2>2, <2>4, <2>9, AcquireDoes
  <2>10. ASSUME NEW c \in Calls, Poll(c) PROVE All(cached')
    BY <2>1, <2>2, <2>4, <2>10, PollDoes
  <2>11. ASSUME NEW c \in Calls, Answered(c) \/ Set(c) \/ FillFails(c) PROVE All(cached')
    BY <2>1, <2>3, <2>5, <2>11, AnsweredDoes, SetDoes, FillFailsDoes
  <2>12. ASSUME NEW c \in Calls, Release(c) \/ ReleaseFails(c) \/ RedisFails(c)
         PROVE  All(cached')
    BY <2>1, <2>12, ReleaseDoes, RedisFailsDoes
  <2>13. Trade \/ UNCHANGED bcvars => All(cached')
    BY <2>3 DEF Trade, bcvars, call
  <2>14. QED
    BY <2>6, <2>7, <2>8, <2>9, <2>10, <2>11, <2>12, <2>13 DEF BCNext, Step
<1>9. QED
  BY <1>5, <1>6, <1>7, <1>8 DEF NamedOf, Named

\* a call begins and ends with what is known
LEMMA StaysGiven ==
  ASSUME CacheTyped, Bounded, [BCNext]_bcvars
  PROVE  GivenBounded'
<1>1. /\ NoRecord.version <= MaxVersion /\ 0 <= MaxVersion /\ MaxVersion \in Nat
      /\ returned.version <= MaxVersion /\ returned.floor <= MaxVersion
      /\ \A p \in Procs : newest[p] <= MaxVersion /\ Got(p).version <= MaxVersion
      /\ \A c \in Calls : /\ fetched[c] <= MaxVersion /\ cached[c].version <= MaxVersion
                          /\ floor[c] <= MaxVersion /\ Of[c] \in Procs
  BY SharedBalanceCacheAssumption, BalanceTyped, GotTyped, Caller
     DEF Bounded, NamedOf, GivenBounded, Below, KnownTo
<1>2. \A c \in Calls : Floor(c) <= MaxVersion
  BY <1>1 DEF Floor
<1>3. ASSUME NEW c \in Calls, Others(c), floor'[c] <= MaxVersion,
             returned'.version <= MaxVersion, returned'.floor <= MaxVersion
      PROVE  GivenBounded'
  BY <1>1, <1>3 DEF GivenBounded, Others
<1>4. ASSUME NEW c \in Calls, NEW v, NEW a, CallEnds(c, v, a), v <= MaxVersion
      PROVE  GivenBounded'
  BY <1>1, <1>2, <1>3, <1>4 DEF CallEnds, Over
<1>5. ASSUME returned' = Nothing
      PROVE  returned'.version <= MaxVersion /\ returned'.floor <= MaxVersion
  BY <1>1, <1>5, NothingTyped
<1>6. ASSUME NEW c \in Calls, Thrown(c) PROVE GivenBounded'
  BY <1>1, <1>3, <1>5, <1>6 DEF Thrown, Over
<1>7. ASSUME NEW c \in Calls, NEW place, NEW r, Goes(c, place, r) PROVE GivenBounded'
  BY <1>2, <1>3, <1>5, <1>7 DEF Goes
<1>8. ASSUME NEW c \in Calls, NEW place, Moves(c, place) PROVE GivenBounded'
  BY <1>1, <1>3, <1>5, <1>8 DEF Moves
<1>9. ASSUME NEW c \in Calls, Find(c) \/ Acquire(c) \/ Poll(c) PROVE GivenBounded'
  <2>1. \/ CallEnds(c, Got(Of[c]).version, Got(Of[c]).age)
        \/ CallEnds(c, cached[c].version, cached[c].age)
        \/ Thrown(c) \/ \E place, r : Goes(c, place, r)
    BY <1>9, FindDoes, AcquireDoes, PollDoes
  <2>2. QED
    BY <1>1, <1>4, <1>6, <1>7, <2>1
<1>10. ASSUME NEW c \in Calls, \/ Answered(c) \/ Set(c) \/ Release(c)
                               \/ FillFails(c) \/ RedisFails(c) \/ ReleaseFails(c)
       PROVE  GivenBounded'
  <2>1. \/ CallEnds(c, fetched[c], 0) \/ Thrown(c) \/ \E place : Moves(c, place)
    BY <1>10, AnsweredDoes, SetDoes, ReleaseDoes, FillFailsDoes, RedisFailsDoes
  <2>2. QED
    BY <1>1, <1>4, <1>6, <1>8, <2>1
<1>11. ASSUME NEW p \in Procs, Crash(p) PROVE GivenBounded'
  <2>1. Perish(p) /\ returned' = Nothing
    BY <1>11, CrashDoes
  <2>2. \A c \in Calls : floor'[c] <= MaxVersion
    BY <1>1, <2>1 DEF Perish, Over
  <2>3. QED
    BY <1>5, <2>1, <2>2 DEF GivenBounded
<1>12. ASSUME TimePasses \/ Trade PROVE GivenBounded'
  <2>1. returned' = Nothing /\ UNCHANGED floor
    BY <1>12, TickDoes, TradeDoes DEF call
  <2>2. QED
    BY <1>1, <1>5, <2>1 DEF GivenBounded
<1>13. ASSUME UNCHANGED bcvars PROVE GivenBounded'
  BY <1>1, <1>13 DEF bcvars, call, GivenBounded
<1>14. QED
  BY <1>9, <1>10, <1>11, <1>12, <1>13 DEF BCNext, Step

LEMMA StaysBounded ==
  ASSUME CacheTyped, Bounded, [BCNext]_bcvars
  PROVE  Bounded'
<1>1. /\ MaxVersion \in Nat /\ data.version <= MaxVersion /\ Below(MaxVersion)
      /\ \A c \in Calls : fetched[c] <= MaxVersion
  BY SharedBalanceCacheAssumption DEF Bounded, NamedOf
<1>2. Below(MaxVersion)'
  <2>1. BelowNext(MaxVersion)
    BY <1>1, BelowStays
  <2>2. QED
    BY <2>1 DEF BelowNext, KnownNext, Below, KnownTo
<1>3. data'.version <= MaxVersion
  <2>1. NoRecord.version <= MaxVersion /\ \A c \in Calls : FilledBy(c).version <= MaxVersion
    BY <1>1, BalanceTyped, FilledTyped
  <2>2. QED
    BY <1>1, <2>1, DataStep
<1>4. UNCHANGED <<role, clock>>
  BY FetchedStep
<1>5. role' \in RoleSets /\ clock' \in Clocks
  BY <1>4 DEF Bounded
<1>6. LockLives'
  BY StaysLocked DEF Bounded
<1>7. QED
  BY <1>2, <1>3, <1>5, <1>6, StaysCounted, StaysNamed, StaysGiven DEF Bounded

\* The types of the cache: a record found anywhere carries the number of a state of
\* the account and the age its expiry allows, for any processes, calls, roles and
\* clocks.
THEOREM CacheTypes == BCSpec => []BCTypeOK
<1> DEFINE Inv == CacheTyped /\ Aged /\ StalenessBounded /\ Bounded
<1>1. BCInit => Inv
  <2> SUFFICES ASSUME BCInit PROVE Inv
    OBVIOUS
  <2>1. CacheTyped /\ Aged /\ StalenessBounded
    BY StartsRight
  <2>2. /\ MaxVersion \in Nat \ {0} /\ MaxFaults \in Nat
        /\ NoRecord.version = 0 /\ Named(NoRecord)
    BY SharedBalanceCacheAssumption, BalanceTyped DEF Named
  <2>3. Below(MaxVersion)
    BY <2>2 DEF BCInit, Below, KnownTo
  <2>4. (\A p \in Procs : Named(local[p])) /\ \A c \in Calls : NamedOf(c)
    BY <2>2 DEF BCInit, NamedOf
  <2>5. faults \in 0..MaxFaults /\ account \in 1..MaxVersion /\ data.version <= MaxVersion
    BY <2>2 DEF BCInit
  <2>6. /\ Named(data) /\ LockLives /\ role \in RoleSets /\ clock \in Clocks
        /\ unguarded \in BOOLEAN
    BY <2>2, Zenon DEF BCInit, LockLives
  <2>7. GivenBounded
    BY <2>2, NothingTyped DEF BCInit, GivenBounded
  <2>8. Bounded
    BY <2>3, <2>4, <2>5, <2>6, <2>7 DEF Bounded
  <2>9. QED
    BY <2>1, <2>8
<1>2. Inv /\ [BCNext]_bcvars => Inv'
  BY StaysTyped, StaysAged, StaysBounded
<1>3. Inv => BCTypeOK
  <2> SUFFICES ASSUME Inv PROVE BCTypeOK
    OBVIOUS
  <2>1. StaleMax \in Nat \ {0} /\ Wait \in Nat \ {0} /\ MaxVersion \in Nat \ {0}
    BY SharedBalanceCacheAssumption
  <2>2. ASSUME NEW r \in Balances, Named(r), r.version <= MaxVersion, NEW ages, r.age \in ages
        PROVE  r \in Records(Procs, ages)
    <3>1. CASE r = NoRecord
      BY <3>1 DEF Records
    <3>2. CASE r # NoRecord
      <4>1. r \in [version : Nat, age : Nat, by : Procs] /\ r.version \in 1..MaxVersion
        BY <2>1, <2>2, <3>2 DEF Balances, Named
      <4>2. r \in [version : 1..MaxVersion, age : ages, by : Procs]
        BY <2>2, <4>1
      <4>3. QED
        BY <4>2 DEF Records
    <3>3. QED
      BY <3>1, <3>2
  <2>3. data \in Records(Procs, 0..(StaleMax - 1))
    <3>1. data \in Balances /\ data.age \in Nat /\ data.age < StaleMax
      BY BalanceTyped DEF CacheTyped, Aged
    <3>2. data.age \in 0..(StaleMax - 1)
      BY <2>1, <3>1
    <3>3. QED
      BY <2>2, <3>1, <3>2 DEF Bounded
  <2>4. ASSUME NEW p \in Procs
        PROVE  local[p] \in Records(Procs, Nat) /\ newest[p] \in 1..MaxVersion
    <3>1. /\ local[p] \in Balances /\ local[p].age \in Nat /\ newest[p] \in Nat \ {0}
      BY BalanceTyped DEF CacheTyped, CallTyped
    <3>2. Named(local[p]) /\ local[p].version <= MaxVersion /\ newest[p] <= MaxVersion
      BY DEF Bounded, Below, KnownTo
    <3>3. local[p] \in Records(Procs, Nat)
      BY <2>2, <3>1, <3>2
    <3>4. QED
      BY <2>1, <3>1, <3>2, <3>3
  <2>5. ASSUME NEW c \in Calls
        PROVE  /\ cached[c] \in Records(Procs, 0..(StaleMax + Wait))
               /\ fetched[c] \in 0..MaxVersion /\ waited[c] \in 0..Wait
               /\ floor[c] \in 0..MaxVersion
    <3>1. /\ cached[c] \in Balances /\ cached[c].age \in Nat /\ Of[c] \in Procs
          /\ fetched[c] \in Nat /\ waited[c] \in Nat /\ floor[c] \in Nat
      BY BalanceTyped, Caller DEF CacheTyped, CallTyped
    <3>2. /\ NamedOf(c) /\ cached[c].version <= MaxVersion /\ floor[c] <= MaxVersion
          /\ cached[c].age < StaleMax + waited[c] /\ waited[c] <= Wait
      BY <3>1 DEF Bounded, Below, KnownTo, GivenBounded, Aged, AgedOf
    <3>3. cached[c].age \in 0..(StaleMax + Wait)
      BY <2>1, <3>1, <3>2
    <3>4. cached[c] \in Records(Procs, 0..(StaleMax + Wait))
      BY <2>2, <3>1, <3>2, <3>3 DEF NamedOf
    <3>5. QED
      BY <2>1, <3>1, <3>2, <3>4 DEF NamedOf
  <2>6. /\ fetched \in [Calls -> 0..MaxVersion] /\ waited \in [Calls -> 0..Wait]
        /\ floor \in [Calls -> 0..MaxVersion] /\ newest \in [Procs -> 1..MaxVersion]
    BY <2>4, <2>5 DEF CacheTyped, CallTyped
  <2>7. returned \in [to : Procs \cup {"none"}, version : 0..MaxVersion, age : Nat,
                      floor : 0..MaxVersion]
    <3>1. returned \in Answers /\ returned.version <= MaxVersion /\ returned.floor <= MaxVersion
      BY DEF CacheTyped, CallTyped, Bounded, GivenBounded
    <3>2. returned.version \in 0..MaxVersion /\ returned.floor \in 0..MaxVersion
      BY <2>1, <3>1 DEF Answers
    <3>3. QED
      BY <3>1, <3>2 DEF Answers
  <2>8. QED
    BY <2>3, <2>4, <2>5, <2>6, <2>7 DEF BCTypeOK, CacheTyped, CallTyped, CallPlaces, Bounded, LockLives
<1> HIDE DEF Inv
<1>4. QED
  BY <1>1, <1>2, <1>3, PTL DEF BCSpec
=============================================================================
