------------------------- MODULE Persistence_proofs -------------------------
(***************************************************************************)
(* What the program keeps outside its memory:                              *)
(*   RuntimePersistence, the records of orders and of the position in      *)
(*     Redis: what the persist calls that nobody waits for promise         *)
(*     together, for any orders, any number of calls under way and any     *)
(*     number of mishaps.  The argument is about the one queue of the      *)
(*     connection: a call may overtake an older one of its record in the   *)
(*     queue only by being a step behind it, and a call that finds a       *)
(*     record never takes the shorter way;                                 *)
(*   TradeWriter, the rows of the trades in ClickHouse: nothing is lost    *)
(*     before it is counted, and a reader finds the first trades.          *)
(***************************************************************************)
EXTENDS RuntimePersistence, TradeWriter, FiniteSetTheorems, SequenceTheorems, TLAPS

-----------------------------------------------------------------------------
(* RuntimePersistence *)

Call == [of : Records, step : {"look", "old", "insert", "update"},
         to : Statuses, amount : Nat, was : Statuses \cup {None}]
Record == [status : Statuses \cup {None}, amount : Nat]

Typing ==
    /\ order \in [Orders -> [ids : 0..MaxSubmits, sent : SUBSET Final]]
    /\ \A o \in Markets : order[o].ids <= 1
    /\ book \in Nat
    /\ hash \in [Records -> Record]
    /\ index \in [Records -> SUBSET Statuses]
    /\ wire \in Seq(Call)
    /\ newest \in [Records -> Statuses \cup {None}]
    /\ missed \subseteq Records
    /\ mishaps \in Nat

\* how far a call has come
Phase(c) == CASE c.step = "look" -> 0
              [] c.step \in {"old", "insert"} -> 1
              [] OTHER -> 2

\* an event of an order id has been sent
WasTold(orders, id, st) ==
    /\ id[2] <= orders[id[1]].ids
    /\ st # "submitted" => st \in orders[id[1]].sent

\* all that is known or under way of an order id comes from its events
OnlyTold ==
    \A id \in OrderIds :
       /\ \A st \in Statuses :
             hash[id].status = st \/ st \in index[id] \/ newest[id] = st
                => WasTold(order, id, st)
       /\ \A i \in DOMAIN wire : wire[i].of = id => WasTold(order, id, wire[i].to)

\* each event has one call, and what it writes was not there before
ToldOnce ==
    \A i \in DOMAIN wire : wire[i].of \in OrderIds =>
       /\ hash[wire[i].of].status # wire[i].to
       /\ wire[i].step = "update" => wire[i].was # wire[i].to
       /\ \A j \in DOMAIN wire :
             wire[j].of = wire[i].of /\ wire[j].to = wire[i].to => j = i

OldExists ==
    \A i \in DOMAIN wire : wire[i].step \in {"old", "update"} => Exists(wire[i].of)

\* no call of the record is carried out after the one at i
IsLast(i) ==
    \A j \in DOMAIN wire : wire[j].of = wire[i].of /\ j # i =>
       /\ j < i => Phase(wire[j]) >= Phase(wire[i])
       /\ j > i => Phase(wire[j]) > Phase(wire[i])
       /\ wire[i].step = "insert" => wire[j].step = "insert"

Settled(r) ==
    /\ Quiet(r)
    /\ IF r = Position THEN hash[r] = [status |-> "open", amount |-> book]
                       ELSE newest[r] \in index[r]

\* the call at i is that of the newest event of r, and will be the last
Brings(i, r) ==
    /\ wire[i].of = r /\ wire[i].to = newest[r]
    /\ r = Position => wire[i].amount = book
    /\ IsLast(i)

Expected(r) ==
    /\ r \notin missed
    /\ IF r = Position THEN newest[r] = "open" ELSE newest[r] # None

NewestArrives ==
    \A r \in Records : Expected(r) => Settled(r) \/ \E i \in DOMAIN wire : Brings(i, r)

\* the call of a submission is carried out before any other of its id
SubmittedFirst ==
    \A i \in DOMAIN wire : wire[i].to = "submitted" =>
       /\ wire[i].of \in OrderIds
       /\ ~Exists(wire[i].of) /\ index[wire[i].of] = {}
       /\ wire[i].step \in {"look", "insert"}
       /\ \A j \in DOMAIN wire : wire[j].of = wire[i].of /\ j # i =>
             /\ wire[j].step \in {"look", "insert"}
             /\ j < i => wire[j].step = "look" /\ wire[i].step = "insert"
             /\ wire[i].step = "look" => wire[j].step = "look"

IInv == /\ Typing
        /\ OnlyTold
        /\ ToldOnce
        /\ OldExists
        /\ NewestArrives
        /\ SubmittedFirst

------------------------------------------------------------------------------
(* Calls and the queue *)

LEMMA Constants ==
  /\ Limits \subseteq Orders /\ Markets \subseteq Orders
  /\ Position \notin OrderIds /\ OrderIds \subseteq Records /\ Position \in Records
  /\ MaxSubmits \in Nat /\ MaxSubmits > 0
BY RuntimePersistenceAssumption DEF Orders, OrderIds, Records

\* An order id is an order and a number.
LEMMA IdParts ==
  ASSUME NEW id \in OrderIds
  PROVE  id[1] \in Orders /\ id[2] \in 0..MaxSubmits
BY DEF OrderIds

LEMMA NoneIsNoStatus == None \notin Statuses
BY DEF None, Statuses, Final

\* The fields of a call.
LEMMA CallTyped ==
  ASSUME Typing, NEW i \in DOMAIN wire
  PROVE  /\ wire[i] \in Call /\ i \in 1..Len(wire) /\ i \in Nat
         /\ wire[i].of \in Records /\ wire[i].to \in Statuses
         /\ wire[i].step \in {"look", "old", "insert", "update"}
         /\ wire[i].amount \in Nat /\ wire[i].was \in Statuses \cup {None}
<1>1. wire \in Seq(Call)
  BY DEF Typing
<1>2. DOMAIN wire = 1..Len(wire) /\ wire[i] \in Call
  BY <1>1, LenProperties, ElementOfSeq
<1>3. QED
  BY <1>2 DEF Call

\* The phase of each step.
LEMMA Phases ==
  ASSUME NEW c \in Call
  PROVE  /\ Phase(c) \in 0..2
         /\ Phase(c) = 0 <=> c.step = "look"
         /\ Phase(c) = 1 <=> c.step \in {"old", "insert"}
         /\ Phase(c) = 2 <=> c.step = "update"
BY DEF Phase, Call

\* Where a call of the queue after a step comes from: the others move up, and
\* the head's call may have sent its next command d.
Shifts(d) ==
    /\ wire \in Seq(Call) /\ wire' \in Seq(Call)
    /\ 1 \in DOMAIN wire /\ DOMAIN wire = 1..Len(wire) /\ Len(wire) \in Nat
    /\ DOMAIN wire' = 1..Len(wire')
    /\ Len(wire') \in {Len(wire) - 1, Len(wire)}
    /\ \A j \in 1..Len(wire') :
          wire'[j] = IF j < Len(wire) THEN wire[j + 1] ELSE d

\* What is behind the head.
LEMMA BehindHead ==
  ASSUME Typing, 1 \in DOMAIN wire
  PROVE  /\ wire \in Seq(Call) /\ Len(wire) \in Nat /\ DOMAIN wire = 1..Len(wire)
         /\ Len(wire) >= 1
         /\ RemoveAt(wire, 1) \in Seq(Call)
         /\ Len(RemoveAt(wire, 1)) = Len(wire) - 1
         /\ \A j \in 1..Len(wire) - 1 : RemoveAt(wire, 1)[j] = wire[j + 1]
<1>1. wire \in Seq(Call)
  BY DEF Typing
<1>2. Len(wire) \in Nat /\ DOMAIN wire = 1..Len(wire) /\ Len(wire) >= 1
  BY <1>1, LenProperties
<1> DEFINE rest == SubSeq(wire, 2, Len(wire))
<1>3. /\ rest \in Seq(Call) /\ Len(rest) = Len(wire) - 1
      /\ \A j \in 1..Len(wire) - 1 : rest[j] = wire[j + 1]
  BY <1>1, <1>2
<1>4. RemoveAt(wire, 1) = SubSeq(wire, 1, 0) \o rest
  BY DEF RemoveAt
<1>5. SubSeq(wire, 1, 0) = <<>>
  BY <1>1, SubSeqEmpty
<1>6. <<>> \o rest = rest
  BY <1>3, ConcatEmptySeq
<1>7. QED
  BY <1>1, <1>2, <1>3, <1>4, <1>5, <1>6

\* The call at the head ends.
LEMMA HeadEnds ==
  ASSUME Typing, 1 \in DOMAIN wire, Rest(1, <<>>)
  PROVE  Shifts(wire[1]) /\ Len(wire') = Len(wire) - 1
<1> DEFINE rest == RemoveAt(wire, 1)
<1>1. wire' = rest
  BY BehindHead, ConcatEmptySeq DEF Rest
<1> HIDE DEF rest
<1>2. /\ rest \in Seq(Call) /\ Len(rest) = Len(wire) - 1
      /\ \A j \in 1..Len(wire) - 1 : rest[j] = wire[j + 1]
  BY BehindHead DEF rest
<1>3. DOMAIN rest = 1..Len(rest)
  BY <1>2, LenProperties
<1>4. QED
  BY <1>1, <1>2, <1>3, BehindHead DEF Shifts

\* The call at the head sends its next command.
LEMMA HeadGoesOn ==
  ASSUME Typing, 1 \in DOMAIN wire, NEW d \in Call, Rest(1, <<d>>)
  PROVE  Shifts(d) /\ Len(wire') = Len(wire) /\ wire'[Len(wire)] = d
<1> DEFINE rest == RemoveAt(wire, 1)
<1>1. wire' = rest \o <<d>>
  BY DEF Rest
<1> HIDE DEF rest
<1>2. /\ rest \in Seq(Call) /\ Len(rest) = Len(wire) - 1
      /\ \A j \in 1..Len(wire) - 1 : rest[j] = wire[j + 1]
      /\ Len(wire) \in Nat /\ Len(wire) >= 1
  BY BehindHead DEF rest
<1>3. /\ <<d>> \in Seq(Call) /\ Len(<<d>>) = 1 /\ <<d>>[1] = d
  OBVIOUS
<1>4. /\ rest \o <<d>> \in Seq(Call) /\ Len(rest \o <<d>>) = Len(rest) + 1
      /\ \A j \in 1..Len(rest) + 1 :
            (rest \o <<d>>)[j] = IF j <= Len(rest) THEN rest[j] ELSE <<d>>[j - Len(rest)]
  BY <1>2, <1>3, ConcatProperties
<1>5. /\ wire' \in Seq(Call) /\ Len(wire') = Len(wire)
      /\ \A j \in 1..Len(wire) : wire'[j] = IF j < Len(wire) THEN wire[j + 1] ELSE d
  BY <1>1, <1>2, <1>3, <1>4
<1>6. DOMAIN wire' = 1..Len(wire')
  BY <1>5, LenProperties
<1>7. QED
  BY <1>2, <1>5, <1>6, BehindHead DEF Shifts

\* A command is answered, or fails: what every such step has in common.
Answered(d) ==
    /\ Shifts(d)
    /\ d.of = wire[1].of /\ d.to = wire[1].to /\ d.amount = wire[1].amount
    /\ order' = order /\ book' = book /\ newest' = newest
    /\ missed \subseteq missed'
    /\ \A r \in Records : r # wire[1].of => hash'[r] = hash[r] /\ index'[r] = index[r]
    /\ wire[1].step \in {"look", "old"} => hash' = hash /\ index' = index
    /\ Len(wire') = Len(wire) =>
          /\ wire[1].step \in {"look", "old"}
          /\ d \in Call /\ Phase(d) = Phase(wire[1]) + 1
          /\ wire[1].step = "look" => (d.step = "insert" <=> ~Exists(wire[1].of))

Origin(j) == IF j < Len(wire) THEN j + 1 ELSE 1

LEMMA Origins ==
  ASSUME NEW d, Answered(d)
  PROVE  /\ \A j \in DOMAIN wire' :
               /\ j \in Nat /\ Origin(j) \in DOMAIN wire
               /\ wire'[j].of = wire[Origin(j)].of
               /\ wire'[j].to = wire[Origin(j)].to
               /\ wire'[j].amount = wire[Origin(j)].amount
               /\ \/ j < Len(wire) /\ wire'[j] = wire[j + 1] /\ Origin(j) = j + 1
                  \/ /\ j = Len(wire) /\ wire'[j] = d /\ Origin(j) = 1
                     /\ Len(wire') = Len(wire)
         /\ \A j, k \in DOMAIN wire' : Origin(j) = Origin(k) => j = k
         /\ \A i \in DOMAIN wire : i # 1 =>
               /\ i - 1 \in DOMAIN wire' /\ wire'[i - 1] = wire[i]
               /\ i > 1 /\ i \in Nat /\ Origin(i - 1) = i
<1>1. /\ 1 \in DOMAIN wire /\ DOMAIN wire = 1..Len(wire) /\ Len(wire) \in Nat
      /\ DOMAIN wire' = 1..Len(wire') /\ Len(wire') \in {Len(wire) - 1, Len(wire)}
      /\ \A j \in 1..Len(wire') :
            wire'[j] = IF j < Len(wire) THEN wire[j + 1] ELSE d
  BY DEF Answered, Shifts
<1> DEFINE n == Len(wire)
           m == Len(wire')
<1>2. n \in Nat /\ n >= 1 /\ m \in Nat /\ (m = n - 1 \/ m = n)
  <2>1. n \in Nat /\ 1 \in 1..n /\ m \in {n - 1, n}
    BY <1>1
  <2> HIDE DEF n, m
  <2>2. QED
    BY <2>1
<1>3. ASSUME NEW j \in DOMAIN wire'
      PROVE  /\ j \in Nat /\ Origin(j) \in DOMAIN wire
             /\ \/ j < n /\ wire'[j] = wire[j + 1] /\ Origin(j) = j + 1
                \/ j = n /\ wire'[j] = d /\ Origin(j) = 1 /\ m = n
  <2>1. j \in 1..m /\ wire'[j] = IF j < n THEN wire[j + 1] ELSE d
    BY <1>1
  <2>2. Origin(j) = IF j < n THEN j + 1 ELSE 1
    BY DEF Origin
  <2>3. DOMAIN wire = 1..n
    BY <1>1
  <2> HIDE DEF n, m
  <2>4. CASE j < n
    BY <1>2, <2>1, <2>2, <2>3, <2>4
  <2>5. CASE ~(j < n)
    BY <1>2, <2>1, <2>2, <2>3, <2>5
  <2>6. QED
    BY <2>4, <2>5
<1>4. \A j \in DOMAIN wire' : /\ wire'[j].of = wire[Origin(j)].of
                              /\ wire'[j].to = wire[Origin(j)].to
                              /\ wire'[j].amount = wire[Origin(j)].amount
  BY <1>3 DEF Answered
<1>5. ASSUME NEW j \in DOMAIN wire', NEW k \in DOMAIN wire', Origin(j) = Origin(k)
      PROVE  j = k
  <2>1. j \in 1..m /\ k \in 1..m
    BY <1>1
  <2>2. /\ Origin(j) = IF j < n THEN j + 1 ELSE 1
        /\ Origin(k) = IF k < n THEN k + 1 ELSE 1
    BY DEF Origin
  <2> HIDE DEF n, m
  <2>3. CASE j < n /\ k < n
    <3>1. j + 1 = k + 1
      BY <1>5, <2>2, <2>3, Zenon
    <3>2. QED
      BY <1>2, <2>1, <3>1
  <2>4. CASE ~(j < n) /\ ~(k < n)
    BY <1>2, <2>1, <2>4
  <2>5. CASE (j < n /\ ~(k < n)) \/ (~(j < n) /\ k < n)
    <3>1. j + 1 = 1 \/ k + 1 = 1
      BY <1>5, <2>2, <2>5, Zenon
    <3>2. QED
      BY <1>2, <2>1, <3>1
  <2>6. QED
    BY <2>3, <2>4, <2>5
<1>6. ASSUME NEW i \in DOMAIN wire, i # 1
      PROVE  /\ i - 1 \in DOMAIN wire' /\ wire'[i - 1] = wire[i]
             /\ i > 1 /\ i \in Nat /\ Origin(i - 1) = i
  <2>1. i \in 1..n
    BY <1>1
  <2>2. i \in Nat /\ i > 1 /\ i - 1 \in 1..m /\ i - 1 < n /\ (i - 1) + 1 = i
    <3> HIDE DEF n, m
    <3>1. QED
      BY <1>2, <1>6, <2>1
  <2>3. wire'[i - 1] = wire[(i - 1) + 1] /\ i - 1 \in DOMAIN wire'
    BY <1>1, <2>2
  <2>4. Origin(i - 1) = (i - 1) + 1
    BY <2>2 DEF Origin
  <2>5. QED
    BY <2>2, <2>3, <2>4
<1>7. QED
  BY <1>3, <1>4, <1>5, <1>6

------------------------------------------------------------------------------
(* What each conjunct needs of an answer *)

LEMMA AnsweredTold ==
  ASSUME OnlyTold, NEW d, Answered(d),
         \A id \in OrderIds : \A st \in Statuses :
            hash'[id].status = st \/ st \in index'[id] => WasTold(order, id, st)
  PROVE  OnlyTold'
<1>1. \A id, st : WasTold(order', id, st) <=> WasTold(order, id, st)
  BY DEF WasTold, Answered
<1>2. \A id \in OrderIds : \A st \in Statuses : newest'[id] = st => WasTold(order, id, st)
  BY DEF OnlyTold, Answered
<1>3. \A id \in OrderIds : \A j \in DOMAIN wire' :
         wire'[j].of = id => WasTold(order, id, wire'[j].to)
  BY Origins DEF OnlyTold
<1>4. QED
  BY <1>1, <1>2, <1>3 DEF OnlyTold

LEMMA AnsweredOnce ==
  ASSUME ToldOnce, NEW d, Answered(d),
         \A j \in DOMAIN wire' : wire'[j].of \in OrderIds =>
            /\ hash'[wire'[j].of].status # wire'[j].to
            /\ wire'[j].step = "update" => wire'[j].was # wire'[j].to
  PROVE  ToldOnce'
<1>1. ASSUME NEW j \in DOMAIN wire', NEW k \in DOMAIN wire', wire'[j].of \in OrderIds,
             wire'[k].of = wire'[j].of, wire'[k].to = wire'[j].to
      PROVE  k = j
  <2>1. /\ Origin(j) \in DOMAIN wire /\ Origin(k) \in DOMAIN wire
        /\ wire[Origin(j)].of \in OrderIds
        /\ wire[Origin(k)].of = wire[Origin(j)].of
        /\ wire[Origin(k)].to = wire[Origin(j)].to
    BY <1>1, Origins
  <2>2. Origin(k) = Origin(j)
    BY <2>1 DEF ToldOnce
  <2>3. QED
    BY <2>2, Origins
<1>2. QED
  BY <1>1 DEF ToldOnce

\* The last call of its record stays the last, moving up.
LEMMA LastMovesUp ==
  ASSUME Typing, NEW d, Answered(d), NEW i \in DOMAIN wire, i # 1, IsLast(i)
  PROVE  IsLast(i - 1)'
<1>1. i - 1 \in DOMAIN wire' /\ wire'[i - 1] = wire[i] /\ i > 1 /\ i \in Nat
  BY Origins
<1>2. SUFFICES ASSUME NEW j \in DOMAIN wire', wire'[j].of = wire[i].of, j # i - 1
               PROVE  /\ j < i - 1 => Phase(wire'[j]) >= Phase(wire[i])
                      /\ j > i - 1 => Phase(wire'[j]) > Phase(wire[i])
                      /\ wire[i].step = "insert" => wire'[j].step = "insert"
  BY <1>1 DEF IsLast
<1>3. CASE j < Len(wire) /\ wire'[j] = wire[j + 1] /\ Origin(j) = j + 1
  <2>1. j \in Nat /\ j + 1 \in DOMAIN wire /\ j + 1 # i /\ wire[j + 1].of = wire[i].of
    BY <1>1, <1>2, <1>3, Origins
  <2>2. /\ j + 1 < i => Phase(wire[j + 1]) >= Phase(wire[i])
        /\ j + 1 > i => Phase(wire[j + 1]) > Phase(wire[i])
        /\ wire[i].step = "insert" => wire[j + 1].step = "insert"
    BY <2>1 DEF IsLast
  <2>3. QED
    BY <1>1, <1>3, <2>1, <2>2
<1>4. CASE /\ j = Len(wire) /\ wire'[j] = d /\ Origin(j) = 1
           /\ Len(wire') = Len(wire)
  <2>1. /\ wire[1].step \in {"look", "old"} /\ Phase(d) = Phase(wire[1]) + 1
        /\ d.of = wire[1].of /\ 1 \in DOMAIN wire /\ DOMAIN wire = 1..Len(wire)
        /\ Len(wire) \in Nat
    BY <1>4 DEF Answered, Shifts
  <2>2. Phase(wire[1]) \in Nat /\ Phase(wire[i]) \in Nat
    BY <2>1, CallTyped, Phases
  <2>3. wire[1].of = wire[i].of /\ 1 < i /\ 1 # i
    BY <1>1, <1>2, <1>4, <2>1
  <2>4. /\ Phase(wire[1]) >= Phase(wire[i])
        /\ wire[i].step = "insert" => wire[1].step = "insert"
    BY <2>1, <2>3 DEF IsLast
  <2>5. Phase(d) > Phase(wire[i]) /\ wire[i].step # "insert" /\ ~(j < i - 1)
    BY <1>1, <1>4, <2>1, <2>2, <2>4
  <2>6. QED
    BY <1>4, <2>5
<1>5. QED
  BY <1>3, <1>4, Origins

\* When the head is the last of its record and goes on, it is the last again.
LEMMA LastGoesOn ==
  ASSUME Typing, OldExists, NEW d, Answered(d), IsLast(1),
         NEW n, n = Len(wire), Len(wire') = n
  PROVE  n \in DOMAIN wire' /\ wire'[n] = d /\ IsLast(n)'
<1>1. /\ 1 \in DOMAIN wire /\ DOMAIN wire = 1..Len(wire) /\ Len(wire) \in Nat
      /\ DOMAIN wire' = 1..Len(wire')
      /\ d.of = wire[1].of /\ d \in Call
      /\ wire[1].step \in {"look", "old"} /\ Phase(d) = Phase(wire[1]) + 1
      /\ wire[1].step = "look" => (d.step = "insert" <=> ~Exists(wire[1].of))
  BY DEF Answered, Shifts
<1>2. n \in DOMAIN wire' /\ wire'[n] = d
  BY <1>1, Origins
<1>3. SUFFICES ASSUME NEW j \in DOMAIN wire', wire'[j].of = d.of, j # n
               PROVE  /\ j < n => Phase(wire'[j]) >= Phase(d)
                      /\ j > n => Phase(wire'[j]) > Phase(d)
                      /\ d.step = "insert" => wire'[j].step = "insert"
  BY <1>2 DEF IsLast
<1>4. j < n /\ wire'[j] = wire[j + 1] /\ j + 1 \in DOMAIN wire /\ j \in Nat /\ j + 1 # 1
  BY <1>1, <1>3, Origins
<1>5. Phase(wire[j + 1]) > Phase(wire[1])
  BY <1>1, <1>3, <1>4 DEF IsLast
<1>6. Phase(wire[j + 1]) \in Nat /\ Phase(wire[1]) \in Nat /\ wire[j + 1] \in Call
      /\ wire[1] \in Call
  BY <1>1, <1>4, CallTyped, Phases
<1>7. Phase(wire'[j]) >= Phase(d)
  BY <1>1, <1>4, <1>5, <1>6
<1>8. ASSUME d.step = "insert"
      PROVE  wire[j + 1].step = "insert"
  <2>1. Phase(d) = 1 /\ Phase(wire[1]) = 0
    BY <1>1, <1>6, <1>8, Phases
  <2>2. wire[1].step = "look" /\ ~Exists(wire[1].of)
    BY <1>1, <1>6, <1>8, <2>1, Phases
  <2>3. wire[j + 1].step \notin {"old", "update"}
    BY <1>1, <1>3, <1>4, <2>2 DEF OldExists
  <2>4. wire[j + 1].step # "look"
    BY <1>5, <1>6, <2>1, Phases
  <2>5. QED
    BY <1>6, <2>3, <2>4 DEF Call
<1>9. QED
  BY <1>1, <1>4, <1>7, <1>8

LEMMA QuietStays ==
  ASSUME NEW d, Answered(d), NEW r, Quiet(r)
  PROVE  Quiet(r)'
<1>1. ASSUME NEW j \in DOMAIN wire'
      PROVE  wire'[j].of # r
  <2>1. Origin(j) \in DOMAIN wire /\ wire'[j].of = wire[Origin(j)].of
    BY Origins
  <2>2. QED
    BY <2>1 DEF Quiet
<1>2. QED
  BY <1>1 DEF Quiet

LEMMA AnsweredArrives ==
  ASSUME Typing, OldExists, NewestArrives, NEW d, Answered(d),
         \A r \in Records : Brings(1, r) /\ Expected(r)'
            => Len(wire') = Len(wire) \/ Settled(r)'
  PROVE  NewestArrives'
<1> SUFFICES ASSUME NEW r \in Records, Expected(r)'
             PROVE  Settled(r)' \/ \E i \in DOMAIN wire' : Brings(i, r)'
  BY DEF NewestArrives
<1>1. /\ book' = book /\ newest' = newest /\ missed \subseteq missed'
      /\ 1 \in DOMAIN wire
  BY DEF Answered, Shifts
<1>2. Expected(r)
  BY <1>1 DEF Expected
<1>3. CASE Settled(r)
  <2>1. r # wire[1].of
    BY <1>1, <1>3 DEF Settled, Quiet
  <2>2. hash'[r] = hash[r] /\ index'[r] = index[r]
    BY <2>1 DEF Answered
  <2>3. Quiet(r)'
    BY <1>3, QuietStays DEF Settled
  <2>4. Settled(r)'
    BY <1>1, <1>3, <2>2, <2>3 DEF Settled
  <2>5. QED
    BY <2>4
<1>4. ASSUME NEW i \in DOMAIN wire, Brings(i, r), i # 1
      PROVE  \E k \in DOMAIN wire' : Brings(k, r)'
  <2>1. i - 1 \in DOMAIN wire' /\ wire'[i - 1] = wire[i]
    BY <1>4, Origins
  <2>2. IsLast(i - 1)'
    BY <1>4, LastMovesUp DEF Brings
  <2>3. Brings(i - 1, r)'
    BY <1>1, <1>4, <2>1, <2>2 DEF Brings
  <2>4. QED
    BY <2>1, <2>3
<1>5. CASE Brings(1, r)
  <2>1. CASE Settled(r)'
    BY <2>1
  <2>2. CASE Len(wire') = Len(wire)
    <3>1. PICK n : n = Len(wire)
      OBVIOUS
    <3>2. n \in DOMAIN wire' /\ wire'[n] = d /\ IsLast(n)'
      BY <1>5, <2>2, <3>1, LastGoesOn DEF Brings
    <3>3. d.of = wire[1].of /\ d.to = wire[1].to /\ d.amount = wire[1].amount
      BY DEF Answered
    <3>4. Brings(n, r)'
      BY <1>1, <1>5, <3>2, <3>3 DEF Brings
    <3>5. QED
      BY <3>2, <3>4
  <2>3. QED
    BY <1>5, <2>1, <2>2
<1>6. Settled(r) \/ \E i \in DOMAIN wire : Brings(i, r)
  BY <1>2 DEF NewestArrives
<1>7. QED
  BY <1>3, <1>4, <1>5, <1>6

LEMMA AnsweredFirst ==
  ASSUME Typing, SubmittedFirst, NEW d, Answered(d)
  PROVE  SubmittedFirst'
<1>1. /\ 1 \in DOMAIN wire /\ DOMAIN wire = 1..Len(wire) /\ Len(wire) \in Nat
      /\ Len(wire') = Len(wire) =>
            /\ wire[1].step \in {"look", "old"}
            /\ wire[1].step = "look" => (d.step = "insert" <=> ~Exists(wire[1].of))
      /\ \A r \in Records : r # wire[1].of => hash'[r] = hash[r] /\ index'[r] = index[r]
      /\ wire[1].step \in {"look", "old"} => hash' = hash /\ index' = index
  BY DEF Answered, Shifts
<1> SUFFICES ASSUME NEW j \in DOMAIN wire', wire'[j].to = "submitted"
             PROVE  /\ wire'[j].of \in OrderIds
                    /\ hash'[wire'[j].of].status = None /\ index'[wire'[j].of] = {}
                    /\ wire'[j].step \in {"look", "insert"}
                    /\ \A k \in DOMAIN wire' : wire'[k].of = wire'[j].of /\ k # j =>
                          /\ wire'[k].step \in {"look", "insert"}
                          /\ k < j => wire'[k].step = "look" /\ wire'[j].step = "insert"
                          /\ wire'[j].step = "look" => wire'[k].step = "look"
  BY DEF SubmittedFirst, Exists
<1> DEFINE i == Origin(j)
           r == wire'[j].of
<1>2. i \in DOMAIN wire /\ wire[i].of = r /\ wire[i].to = "submitted"
  BY Origins
<1>3. /\ r \in OrderIds /\ ~Exists(r) /\ index[r] = {}
      /\ wire[i].step \in {"look", "insert"}
      /\ \A k \in DOMAIN wire : wire[k].of = r /\ k # i =>
             /\ wire[k].step \in {"look", "insert"}
             /\ k < i => wire[k].step = "look" /\ wire[i].step = "insert"
             /\ wire[i].step = "look" => wire[k].step = "look"
  BY <1>2 DEF SubmittedFirst
<1>4. r \in Records
  BY <1>3, Constants
<1>5. CASE j < Len(wire) /\ wire'[j] = wire[j + 1] /\ i = j + 1
  <2>1. j \in Nat /\ 1 < i /\ 1 # i
    <3>1. j \in 1..Len(wire')
      BY DEF Answered, Shifts
    <3>2. j \in Nat /\ j >= 1
      BY <3>1, Origins
    <3>3. QED
      BY <1>5, <3>2
  <2>2. wire[1].of = r => wire[1].step = "look" /\ wire[i].step = "insert"
    BY <1>1, <1>3, <2>1
  <2>3. hash'[r] = hash[r] /\ index'[r] = index[r]
    BY <1>1, <1>4, <2>2
  <2>4. ASSUME NEW k \in DOMAIN wire', wire'[k].of = r, k # j
        PROVE  /\ wire'[k].step \in {"look", "insert"}
               /\ k < j => wire'[k].step = "look" /\ wire'[j].step = "insert"
               /\ wire'[j].step = "look" => wire'[k].step = "look"
    <3>1. CASE k < Len(wire) /\ wire'[k] = wire[k + 1] /\ Origin(k) = k + 1
      <4>1. k \in Nat /\ k + 1 \in DOMAIN wire /\ k + 1 # i
        BY <1>5, <2>4, <3>1, Origins
      <4>2. /\ wire[k + 1].step \in {"look", "insert"}
            /\ k + 1 < i => wire[k + 1].step = "look" /\ wire[i].step = "insert"
            /\ wire[i].step = "look" => wire[k + 1].step = "look"
        BY <1>3, <2>4, <3>1, <4>1
      <4>3. k < j => k + 1 < i
        BY <1>5, <2>1, <4>1
      <4>4. wire'[j] = wire[i]
        BY <1>5
      <4>5. QED
        BY <3>1, <4>2, <4>3, <4>4
    <3>2. CASE k = Len(wire) /\ wire'[k] = d /\ Origin(k) = 1 /\ Len(wire') = Len(wire)
      <4>1. wire[1].of = r
        BY <2>4, <3>2, Origins
      <4>2. d.step = "insert" /\ wire[i].step = "insert"
        BY <1>1, <1>3, <2>2, <3>2, <4>1
      <4>3. ~(k < j)
        BY <1>1, <1>5, <2>1, <3>2
      <4>4. QED
        BY <1>5, <3>2, <4>2, <4>3
    <3>3. QED
      BY <2>4, <3>1, <3>2, Origins
  <2>5. QED
    BY <1>3, <1>5, <2>3, <2>4 DEF Exists
<1>6. CASE j = Len(wire) /\ wire'[j] = d /\ i = 1 /\ Len(wire') = Len(wire)
  <2>1. wire[1].step = "look" /\ d.step = "insert" /\ hash' = hash /\ index' = index
    BY <1>1, <1>2, <1>3, <1>6
  <2>2. ASSUME NEW k \in DOMAIN wire', wire'[k].of = r, k # j
        PROVE  wire'[k].step = "look"
    <3>1. wire'[k] = wire[Origin(k)] /\ Origin(k) \in DOMAIN wire /\ Origin(k) # 1
      BY <1>6, <2>2, Origins
    <3>2. wire[Origin(k)].of = r
      BY <2>2, <3>1
    <3>3. QED
      BY <1>3, <1>6, <2>1, <3>1, <3>2
  <2>3. QED
    BY <1>3, <1>6, <2>1, <2>2 DEF Exists
<1>7. QED
  BY <1>5, <1>6, Origins

------------------------------------------------------------------------------
(* The answers, one by one *)

\* a command that goes on with another step of its call
LEMMA CallGoesOn ==
  ASSUME NEW c \in Call, NEW step \in {"look", "old", "insert", "update"},
         NEW was \in Statuses \cup {None}
  PROVE  /\ [c EXCEPT !.step = step] \in Call
         /\ [c EXCEPT !.step = step, !.was = was] \in Call
BY DEF Call

LEMMA HashTyped ==
  ASSUME Typing, NEW r \in Records
  PROVE  /\ hash[r] \in Record /\ hash[r].status \in Statuses \cup {None}
         /\ hash[r].amount \in Nat
         /\ index[r] \in SUBSET Statuses /\ newest[r] \in Statuses \cup {None}
<1>1. hash[r] \in Record /\ index[r] \in SUBSET Statuses /\ newest[r] \in Statuses \cup {None}
  BY DEF Typing
<1>2. QED
  BY <1>1 DEF Record

\* getById(): the call goes on to read or to insert, or had nothing to close.
LEMMA GetByIdAnswered ==
  ASSUME Typing, 1 \in DOMAIN wire, GetById(1)
  PROVE  \E d : /\ Answered(d)
                /\ hash' = hash /\ index' = index /\ missed' = missed /\ mishaps' = mishaps
                /\ wire[1].step = "look"
                /\ wire[1].to # "closed" => Len(wire') = Len(wire)
                /\ Len(wire') = Len(wire)
                     => d.step # "update" /\ (d.step = "old" => Exists(wire[1].of))
<1> DEFINE c == wire[1]
           old == [c EXCEPT !.step = "old"]
           insert == [c EXCEPT !.step = "insert"]
<1>1. /\ c \in Call /\ c.of \in Records /\ c.step = "look"
      /\ order' = order /\ book' = book /\ newest' = newest
      /\ hash' = hash /\ index' = index /\ missed' = missed /\ mishaps' = mishaps
  BY CallTyped DEF GetById
<1>2. /\ old \in Call /\ old.step = "old" /\ Phase(old) = 1
      /\ old.of = c.of /\ old.to = c.to /\ old.amount = c.amount
      /\ insert \in Call /\ insert.step = "insert" /\ Phase(insert) = 1
      /\ insert.of = c.of /\ insert.to = c.to /\ insert.amount = c.amount
      /\ Phase(c) = 0
  BY <1>1 DEF Phase, Call
<1>3. Rest(1, AfterLook(c))
  BY DEF GetById
<1>4. AfterLook(c) = IF c.to = "closed"
                     THEN IF hash[c.of].status = "open" THEN <<old>> ELSE <<>>
                     ELSE IF Exists(c.of) THEN <<old>> ELSE <<insert>>
  BY DEF AfterLook
<1>5. hash[c.of].status = "open" => Exists(c.of)
  BY DEF Exists, None
<1> HIDE DEF old, insert
<1>6. CASE AfterLook(c) = <<old>> /\ Exists(c.of)
  <2>1. Shifts(old) /\ Len(wire') = Len(wire)
    BY <1>2, <1>3, <1>6, HeadGoesOn
  <2>2. Answered(old)
    BY <1>1, <1>2, <1>6, <2>1 DEF Answered
  <2>3. QED
    BY <1>1, <1>2, <1>6, <2>1, <2>2
<1>7. CASE AfterLook(c) = <<insert>> /\ ~Exists(c.of)
  <2>1. Shifts(insert) /\ Len(wire') = Len(wire)
    BY <1>2, <1>3, <1>7, HeadGoesOn
  <2>2. Answered(insert)
    BY <1>1, <1>2, <1>7, <2>1 DEF Answered
  <2>3. QED
    BY <1>1, <1>2, <1>7, <2>1, <2>2
<1>8. CASE AfterLook(c) = <<>> /\ c.to = "closed"
  <2>1. Shifts(c) /\ Len(wire') = Len(wire) - 1 /\ Len(wire) \in Nat
    BY <1>3, <1>8, HeadEnds, BehindHead
  <2>2. Len(wire') # Len(wire)
    BY <2>1
  <2>3. Answered(c)
    BY <1>1, <2>1, <2>2 DEF Answered
  <2>4. QED
    BY <1>1, <1>8, <2>2, <2>3
<1>9. QED
  BY <1>4, <1>5, <1>6, <1>7, <1>8

\* The first half of update(): the status that will be left behind is read.
LEMMA ReadOldAnswered ==
  ASSUME Typing, 1 \in DOMAIN wire, ReadOld(1)
  PROVE  \E d : /\ Answered(d)
                /\ hash' = hash /\ index' = index /\ missed' = missed /\ mishaps' = mishaps
                /\ wire[1].step = "old"
                /\ Exists(wire[1].of) => Len(wire') = Len(wire)
                /\ Len(wire') = Len(wire)
                     => /\ d.step = "update" /\ Exists(wire[1].of)
                        /\ d.was = hash[wire[1].of].status
<1> DEFINE c == wire[1]
           was == hash[c.of].status
           update == [c EXCEPT !.step = "update", !.was = was]
<1>1. /\ c \in Call /\ c.of \in Records /\ c.step = "old"
      /\ order' = order /\ book' = book /\ newest' = newest
      /\ hash' = hash /\ index' = index /\ missed' = missed /\ mishaps' = mishaps
  BY CallTyped DEF ReadOld
<1>2. was \in Statuses \cup {None}
  BY <1>1, HashTyped
<1>3. /\ update \in Call /\ update.step = "update" /\ Phase(update) = 2
      /\ update.of = c.of /\ update.to = c.to /\ update.amount = c.amount
      /\ update.was = was /\ Phase(c) = 1
  <2> HIDE DEF was
  <2>1. QED
    BY <1>1, <1>2 DEF Phase, Call
<1>4. Rest(1, IF Exists(c.of) THEN <<update>> ELSE <<>>)
  BY DEF ReadOld
<1> HIDE DEF update
<1>5. CASE Exists(c.of)
  <2>1. Rest(1, <<update>>)
    BY <1>4, <1>5
  <2>2. Shifts(update) /\ Len(wire') = Len(wire)
    BY <1>3, <2>1, HeadGoesOn
  <2>3. Answered(update)
    BY <1>1, <1>3, <2>2 DEF Answered
  <2>4. QED
    BY <1>1, <1>3, <1>5, <2>2, <2>3
<1>6. CASE ~Exists(c.of)
  <2>1. Rest(1, <<>>)
    BY <1>4, <1>6
  <2>2. Shifts(c) /\ Len(wire') = Len(wire) - 1 /\ Len(wire) \in Nat
    BY <2>1, HeadEnds, BehindHead
  <2>3. Len(wire') # Len(wire)
    BY <2>2
  <2>4. Answered(c)
    BY <1>1, <2>2, <2>3 DEF Answered
  <2>5. QED
    BY <1>1, <1>6, <2>3, <2>4
<1>7. QED
  BY <1>5, <1>6

\* insert() ends the call, and the record is what it says.
LEMMA InsertAnswered ==
  ASSUME Typing, 1 \in DOMAIN wire, Insert(1)
  PROVE  /\ Answered(wire[1]) /\ Len(wire') # Len(wire) /\ wire[1].step = "insert"
         /\ hash'[wire[1].of] = [status |-> wire[1].to, amount |-> wire[1].amount]
         /\ index'[wire[1].of] = index[wire[1].of] \cup {wire[1].to}
         /\ hash' \in [Records -> Record] /\ index' \in [Records -> SUBSET Statuses]
         /\ missed' = missed /\ mishaps' = mishaps
<1> DEFINE c == wire[1]
           r == c.of
           fields == [status |-> c.to, amount |-> c.amount]
<1>1. /\ c \in Call /\ r \in Records /\ c.to \in Statuses /\ c.amount \in Nat
  BY CallTyped
<1>2. fields \in Record /\ index[r] \cup {c.to} \in SUBSET Statuses
  BY <1>1, HashTyped DEF Record
<1>3. /\ hash' = [hash EXCEPT ![r] = fields]
      /\ index' = [index EXCEPT ![r] = index[r] \cup {c.to}]
      /\ c.step = "insert" /\ Rest(1, <<>>)
      /\ order' = order /\ book' = book /\ newest' = newest
      /\ missed' = missed /\ mishaps' = mishaps
  BY DEF Insert
<1>4. /\ Shifts(c) /\ Len(wire') = Len(wire) - 1 /\ Len(wire) \in Nat
  BY <1>3, HeadEnds, BehindHead
<1>5. Len(wire') # Len(wire)
  BY <1>4
<1>6. /\ hash \in [Records -> Record] /\ index \in [Records -> SUBSET Statuses]
  BY DEF Typing
<1>7. /\ hash' \in [Records -> Record] /\ index' \in [Records -> SUBSET Statuses]
      /\ hash'[r] = fields /\ index'[r] = index[r] \cup {c.to}
      /\ \A q \in Records : q # r => hash'[q] = hash[q] /\ index'[q] = index[q]
  <2> HIDE DEF r, fields
  <2>1. QED
    BY <1>1, <1>2, <1>3, <1>6
<1>8. Answered(c)
  BY <1>3, <1>4, <1>5, <1>7 DEF Answered
<1>9. QED
  BY <1>3, <1>5, <1>7, <1>8

\* The second half of update() ends the call; the record may have refused the
\* fields, the index has moved.
LEMMA UpdateAnswered ==
  ASSUME Typing, 1 \in DOMAIN wire, Update(1)
  PROVE  /\ Answered(wire[1]) /\ Len(wire') # Len(wire) /\ wire[1].step = "update"
         /\ \/ hash'[wire[1].of] = Written(wire[1])
            \/ wire[1].of # Position /\ hash'[wire[1].of] = hash[wire[1].of]
         /\ index'[wire[1].of] = Reindexed(wire[1], index[wire[1].of])
         /\ hash' \in [Records -> Record] /\ index' \in [Records -> SUBSET Statuses]
         /\ missed' = missed /\ mishaps' = mishaps
<1> DEFINE c == wire[1]
           r == c.of
           fields == Written(c)
           set == Reindexed(c, index[r])
<1>1. /\ c \in Call /\ r \in Records /\ c.to \in Statuses /\ c.amount \in Nat
  BY CallTyped
<1>2. fields \in Record /\ set \in SUBSET Statuses
  BY <1>1, HashTyped DEF Record, Written, Reindexed
<1>3. /\ \/ hash' = [hash EXCEPT ![r] = fields]
         \/ r # Position /\ hash' = hash
      /\ index' = [index EXCEPT ![r] = set]
      /\ c.step = "update" /\ Rest(1, <<>>)
      /\ order' = order /\ book' = book /\ newest' = newest
      /\ missed' = missed /\ mishaps' = mishaps
  BY DEF Update, HasNull
<1>4. /\ Shifts(c) /\ Len(wire') = Len(wire) - 1 /\ Len(wire) \in Nat
  BY <1>3, HeadEnds, BehindHead
<1>5. Len(wire') # Len(wire)
  BY <1>4
<1>6. /\ hash \in [Records -> Record] /\ index \in [Records -> SUBSET Statuses]
  BY DEF Typing
<1>7. /\ hash' \in [Records -> Record] /\ index' \in [Records -> SUBSET Statuses]
      /\ hash'[r] = fields \/ (r # Position /\ hash'[r] = hash[r])
      /\ index'[r] = set
      /\ \A q \in Records : q # r => hash'[q] = hash[q] /\ index'[q] = index[q]
  <2> HIDE DEF r, fields, set
  <2>1. QED
    BY <1>1, <1>2, <1>3, <1>6
<1>8. Answered(c)
  BY <1>3, <1>4, <1>5, <1>7 DEF Answered
<1>9. QED
  BY <1>3, <1>5, <1>7, <1>8

\* A command that fails ends its call, and its record is known to miss it.
LEMMA FailsAnswered ==
  ASSUME Typing, 1 \in DOMAIN wire, CommandFails(1)
  PROVE  /\ Answered(wire[1]) /\ Len(wire') # Len(wire)
         /\ hash' = hash /\ index' = index /\ wire[1].of \in missed'
         /\ missed' \subseteq Records /\ mishaps' \in Nat
<1>1. /\ Rest(1, <<>>) /\ missed' = missed \cup {wire[1].of}
      /\ order' = order /\ book' = book /\ newest' = newest
      /\ hash' = hash /\ index' = index
  BY DEF CommandFails
<1>2. Shifts(wire[1]) /\ Len(wire') = Len(wire) - 1 /\ Len(wire) \in Nat
  BY <1>1, HeadEnds, BehindHead
<1>3. Len(wire') # Len(wire)
  BY <1>2
<1>4. wire[1].of \in Records /\ missed \subseteq Records /\ mishaps' \in Nat
  BY CallTyped DEF CommandFails, Mishap, Typing
<1>5. Answered(wire[1])
  BY <1>1, <1>2, <1>3 DEF Answered
<1>6. QED
  BY <1>1, <1>3, <1>4, <1>5

\* the events of an order id: it is never said to be open or closed
LEMMA EventsOfIds ==
  ASSUME Typing, OnlyTold, NEW i \in DOMAIN wire, wire[i].of \in OrderIds
  PROVE  WasTold(order, wire[i].of, wire[i].to) /\ wire[i].to # "closed"
<1> DEFINE id == wire[i].of
<1>1. WasTold(order, id, wire[i].to)
  BY DEF OnlyTold
<1>2. order[id[1]].sent \subseteq Final
  BY IdParts DEF Typing
<1>3. QED
  BY <1>1, <1>2 DEF WasTold, Final

LEMMA AnsweredTyped ==
  ASSUME Typing, NEW d, Answered(d),
         hash' \in [Records -> Record], index' \in [Records -> SUBSET Statuses],
         missed' \subseteq Records, mishaps' \in Nat
  PROVE  Typing'
<1>1. /\ wire' \in Seq(Call) /\ order' = order /\ book' = book /\ newest' = newest
  BY DEF Answered, Shifts
<1>2. QED
  BY <1>1 DEF Typing

\* An answer that leaves the records alone.
LEMMA ReadingTold ==
  ASSUME Typing, OnlyTold, NEW d, Answered(d), hash' = hash, index' = index
  PROVE  OnlyTold'
<1>1. \A id \in OrderIds : \A st \in Statuses :
         hash'[id].status = st \/ st \in index'[id] => WasTold(order, id, st)
  BY DEF OnlyTold
<1>2. QED
  BY <1>1, AnsweredTold

\* what follows the command at the head that reads writes nothing that was there
LEMMA ReadingOnce ==
  ASSUME ToldOnce, OldExists, NEW d, Answered(d), hash' = hash,
         Len(wire') = Len(wire) =>
            /\ d.step = "update" => d.was = hash[d.of].status
            /\ d.step \in {"old", "update"} => Exists(d.of)
  PROVE  ToldOnce' /\ OldExists'
<1>1. ASSUME NEW j \in DOMAIN wire', wire'[j].of \in OrderIds
      PROVE  /\ hash'[wire'[j].of].status # wire'[j].to
             /\ wire'[j].step = "update" => wire'[j].was # wire'[j].to
  <2>1. /\ Origin(j) \in DOMAIN wire /\ wire'[j].of = wire[Origin(j)].of
        /\ wire'[j].to = wire[Origin(j)].to
    BY Origins
  <2>2. hash[wire'[j].of].status # wire'[j].to
    BY <1>1, <2>1 DEF ToldOnce
  <2>3. CASE wire'[j] = wire[Origin(j)]
    BY <1>1, <2>1, <2>2, <2>3 DEF ToldOnce
  <2>4. CASE wire'[j] = d /\ Len(wire') = Len(wire)
    BY <2>2, <2>4
  <2>5. QED
    BY <2>3, <2>4, Origins
<1>2. ASSUME NEW j \in DOMAIN wire', wire'[j].step \in {"old", "update"}
      PROVE  Exists(wire'[j].of)
  <2>1. Origin(j) \in DOMAIN wire
    BY Origins
  <2>2. CASE wire'[j] = wire[Origin(j)]
    BY <1>2, <2>1, <2>2 DEF OldExists
  <2>3. CASE wire'[j] = d /\ Len(wire') = Len(wire)
    BY <1>2, <2>3
  <2>4. QED
    BY <2>2, <2>3, Origins
<1>3. OldExists'
  BY <1>2 DEF OldExists, Exists
<1>4. QED
  BY <1>1, <1>3, AnsweredOnce

LEMMA GetByIdKeeps ==
  ASSUME IInv, 1 \in DOMAIN wire, GetById(1)
  PROVE  IInv'
<1>1. /\ Typing /\ OnlyTold /\ ToldOnce /\ OldExists /\ NewestArrives /\ SubmittedFirst
  BY DEF IInv
<1>2. PICK d : /\ Answered(d)
               /\ hash' = hash /\ index' = index /\ missed' = missed /\ mishaps' = mishaps
               /\ wire[1].step = "look"
               /\ wire[1].to # "closed" => Len(wire') = Len(wire)
               /\ Len(wire') = Len(wire)
                    => d.step # "update" /\ (d.step = "old" => Exists(wire[1].of))
  BY <1>1, GetByIdAnswered
<1>3. d.of = wire[1].of
  BY <1>2 DEF Answered
<1>4. Typing'
  BY <1>1, <1>2, AnsweredTyped DEF Typing
<1>5. OnlyTold'
  BY <1>1, <1>2, ReadingTold
<1>6. ToldOnce' /\ OldExists'
  BY <1>1, <1>2, <1>3, ReadingOnce
<1>7. \A r \in Records : Brings(1, r) /\ Expected(r)' => Len(wire') = Len(wire)
  <2> SUFFICES ASSUME NEW r \in Records, Brings(1, r), Expected(r)'
               PROVE  wire[1].to # "closed"
    BY <1>2
  <2>1. wire[1].of = r /\ wire[1].to = newest[r] /\ newest' = newest
    BY <1>2 DEF Brings, Answered
  <2>2. CASE r = Position
    BY <2>1, <2>2 DEF Expected
  <2>3. CASE r \in OrderIds
    BY <1>1, <2>1, <2>3, EventsOfIds
  <2>4. QED
    BY <2>2, <2>3 DEF Records
<1>8. NewestArrives'
  BY <1>1, <1>2, <1>7, AnsweredArrives
<1>9. SubmittedFirst'
  BY <1>1, <1>2, AnsweredFirst
<1>10. QED
  BY <1>4, <1>5, <1>6, <1>8, <1>9 DEF IInv

LEMMA ReadOldKeeps ==
  ASSUME IInv, 1 \in DOMAIN wire, ReadOld(1)
  PROVE  IInv'
<1>1. /\ Typing /\ OnlyTold /\ ToldOnce /\ OldExists /\ NewestArrives /\ SubmittedFirst
  BY DEF IInv
<1>2. PICK d : /\ Answered(d)
               /\ hash' = hash /\ index' = index /\ missed' = missed /\ mishaps' = mishaps
               /\ wire[1].step = "old"
               /\ Exists(wire[1].of) => Len(wire') = Len(wire)
               /\ Len(wire') = Len(wire)
                    => /\ d.step = "update" /\ Exists(wire[1].of)
                       /\ d.was = hash[wire[1].of].status
  BY <1>1, ReadOldAnswered
<1>3. d.of = wire[1].of
  BY <1>2 DEF Answered
<1>4. Typing'
  BY <1>1, <1>2, AnsweredTyped DEF Typing
<1>5. OnlyTold'
  BY <1>1, <1>2, ReadingTold
<1>6. ToldOnce' /\ OldExists'
  BY <1>1, <1>2, <1>3, ReadingOnce
<1>7. Len(wire') = Len(wire)
  BY <1>1, <1>2 DEF OldExists
<1>8. NewestArrives'
  BY <1>1, <1>2, <1>7, AnsweredArrives
<1>9. SubmittedFirst'
  BY <1>1, <1>2, AnsweredFirst
<1>10. QED
  BY <1>4, <1>5, <1>6, <1>8, <1>9 DEF IInv

LEMMA CommandFailsKeeps ==
  ASSUME IInv, 1 \in DOMAIN wire, CommandFails(1)
  PROVE  IInv'
<1>1. /\ Typing /\ OnlyTold /\ ToldOnce /\ OldExists /\ NewestArrives /\ SubmittedFirst
  BY DEF IInv
<1>2. /\ Answered(wire[1]) /\ Len(wire') # Len(wire)
      /\ hash' = hash /\ index' = index /\ wire[1].of \in missed'
      /\ missed' \subseteq Records /\ mishaps' \in Nat
  BY <1>1, FailsAnswered
<1>3. Typing'
  BY <1>1, <1>2, AnsweredTyped DEF Typing
<1>4. OnlyTold'
  BY <1>1, <1>2, ReadingTold
<1>5. ToldOnce' /\ OldExists'
  BY <1>1, <1>2, ReadingOnce
<1>6. \A r \in Records : ~(Brings(1, r) /\ Expected(r)')
  BY <1>2 DEF Brings, Expected
<1>7. NewestArrives'
  BY <1>1, <1>2, <1>6, AnsweredArrives
<1>8. SubmittedFirst'
  BY <1>1, <1>2, AnsweredFirst
<1>9. QED
  BY <1>3, <1>4, <1>5, <1>7, <1>8 DEF IInv

\* Without the head's call the queue is what was behind it.
LEMMA BehindTheHead ==
  ASSUME NEW d, Answered(d), Len(wire') # Len(wire), NEW j \in DOMAIN wire'
  PROVE  /\ j + 1 \in DOMAIN wire /\ j + 1 # 1 /\ wire'[j] = wire[j + 1]
         /\ 1 \in DOMAIN wire
<1>1. wire'[j] = wire[j + 1] /\ Origin(j) = j + 1 /\ Origin(j) \in DOMAIN wire /\ j \in Nat
  BY Origins
<1>2. j \in 1..Len(wire') /\ 1 \in DOMAIN wire
  BY DEF Answered, Shifts
<1>3. j >= 1
  BY <1>1, <1>2
<1>4. j + 1 # 1
  BY <1>1, <1>3
<1>5. QED
  BY <1>1, <1>2, <1>4

\* A command that ends its call with writing.
LEMMA WritingKeeps ==
  ASSUME IInv, NEW c, c = wire[1], Answered(c), Len(wire') # Len(wire),
         hash' \in [Records -> Record], index' \in [Records -> SUBSET Statuses],
         missed' = missed, mishaps' = mishaps,
         hash'[c.of].status = c.to \/ hash'[c.of] = hash[c.of],
         index'[c.of] \subseteq index[c.of] \cup {c.to},
         \A r \in Records : Brings(1, r) /\ Expected(r)' => Settled(r)'
  PROVE  IInv'
<1>1. /\ Typing /\ OnlyTold /\ ToldOnce /\ OldExists /\ NewestArrives /\ SubmittedFirst
  BY DEF IInv
<1>2. /\ 1 \in DOMAIN wire /\ c \in Call /\ c.of \in Records /\ c.to \in Statuses
  BY <1>1, CallTyped DEF Answered, Shifts
<1>3. \A r \in Records : r # c.of => hash'[r] = hash[r] /\ index'[r] = index[r]
  BY DEF Answered
<1>4. Typing'
  BY <1>1, AnsweredTyped DEF Typing
<1>5. OnlyTold'
  <2>1. ASSUME NEW id \in OrderIds, NEW st \in Statuses,
               hash'[id].status = st \/ st \in index'[id]
        PROVE  WasTold(order, id, st)
    <3>1. \/ hash[id].status = st \/ st \in index[id]
          \/ id = c.of /\ st = c.to
      BY <1>3, <2>1, Constants
    <3>2. QED
      BY <1>1, <1>2, <2>1, <3>1, EventsOfIds DEF OnlyTold
  <2>2. QED
    BY <1>1, <2>1, AnsweredTold
<1>6. ToldOnce'
  <2>1. ASSUME NEW j \in DOMAIN wire', wire'[j].of \in OrderIds
        PROVE  /\ hash'[wire'[j].of].status # wire'[j].to
               /\ wire'[j].step = "update" => wire'[j].was # wire'[j].to
    <3>1. j + 1 \in DOMAIN wire /\ j + 1 # 1 /\ wire'[j] = wire[j + 1]
      BY BehindTheHead
    <3>2. /\ hash[wire[j + 1].of].status # wire[j + 1].to
          /\ wire[j + 1].step = "update" => wire[j + 1].was # wire[j + 1].to
          /\ wire[1].of = wire[j + 1].of => wire[1].to # wire[j + 1].to
      BY <1>1, <1>2, <2>1, <3>1 DEF ToldOnce
    <3>3. wire[j + 1].of \in Records
      BY <2>1, <3>1, Constants
    <3>4. QED
      BY <1>3, <3>1, <3>2, <3>3
  <2>2. QED
    BY <1>1, <2>1, AnsweredOnce
<1>7. OldExists'
  <2> SUFFICES ASSUME NEW j \in DOMAIN wire', wire'[j].step \in {"old", "update"}
               PROVE  hash'[wire'[j].of].status # None
    BY DEF OldExists, Exists
  <2>1. j + 1 \in DOMAIN wire /\ wire'[j] = wire[j + 1]
    BY BehindTheHead
  <2>2. wire[j + 1].of \in Records /\ hash[wire[j + 1].of].status # None
    BY <1>1, <2>1, CallTyped DEF OldExists, Exists
  <2>3. QED
    BY <1>2, <1>3, <2>1, <2>2, NoneIsNoStatus
<1>8. NewestArrives'
  BY <1>1, AnsweredArrives
<1>9. SubmittedFirst'
  BY <1>1, AnsweredFirst
<1>10. QED
  BY <1>4, <1>5, <1>6, <1>7, <1>8, <1>9 DEF IInv

\* The last call of a record is alone when it comes to write.
LEMMA LastIsAlone ==
  ASSUME Typing, NEW c, c = wire[1], Answered(c), Len(wire') # Len(wire),
         IsLast(1), c.step \in {"insert", "update"}
  PROVE  Quiet(c.of)'
<1> SUFFICES ASSUME NEW j \in DOMAIN wire', wire'[j].of = c.of
             PROVE  FALSE
  BY DEF Quiet
<1>1. j + 1 \in DOMAIN wire /\ j + 1 # 1 /\ wire'[j] = wire[j + 1] /\ 1 \in DOMAIN wire
  BY BehindTheHead
<1>2. /\ wire[j + 1] \in Call /\ c \in Call /\ j + 1 \in 1..Len(wire) /\ j + 1 > 1
  BY <1>1, CallTyped
<1>3. /\ Phase(wire[j + 1]) > Phase(c)
      /\ c.step = "insert" => wire[j + 1].step = "insert"
  BY <1>1, <1>2 DEF IsLast
<1>4. /\ Phase(c) \in {1, 2} /\ Phase(wire[j + 1]) \in 0..2
      /\ c.step = "update" => Phase(c) = 2
      /\ c.step = "insert" => Phase(c) = 1
      /\ wire[j + 1].step = "insert" => Phase(wire[j + 1]) = 1
  BY <1>2, Phases
<1>5. QED
  BY <1>3, <1>4

LEMMA InsertKeeps ==
  ASSUME IInv, 1 \in DOMAIN wire, Insert(1)
  PROVE  IInv'
<1>1. PICK c : c = wire[1]
  OBVIOUS
<1>2. /\ Answered(c) /\ Len(wire') # Len(wire) /\ c.step = "insert"
      /\ hash'[c.of] = [status |-> c.to, amount |-> c.amount]
      /\ index'[c.of] = index[c.of] \cup {c.to}
      /\ hash' \in [Records -> Record] /\ index' \in [Records -> SUBSET Statuses]
      /\ missed' = missed /\ mishaps' = mishaps
  BY <1>1, InsertAnswered DEF IInv
<1>3. ASSUME NEW r \in Records, Brings(1, r), Expected(r)'
      PROVE  Settled(r)'
  <2>1. /\ c.of = r /\ c.to = newest[r] /\ (r = Position => c.amount = book)
        /\ book' = book /\ newest' = newest
        /\ r = Position => c.to = "open"
    BY <1>1, <1>2, <1>3 DEF Brings, Answered, Expected
  <2>2. Quiet(r)'
    BY <1>1, <1>2, <1>3, <2>1, LastIsAlone DEF IInv, Brings
  <2>3. QED
    BY <1>2, <2>1, <2>2 DEF Settled
<1>4. QED
  BY <1>1, <1>2, <1>3, WritingKeeps

LEMMA UpdateKeeps ==
  ASSUME IInv, 1 \in DOMAIN wire, Update(1)
  PROVE  IInv'
<1>1. PICK c : c = wire[1]
  OBVIOUS
<1>2. /\ Answered(c) /\ Len(wire') # Len(wire) /\ c.step = "update"
      /\ hash'[c.of] = Written(c) \/ (c.of # Position /\ hash'[c.of] = hash[c.of])
      /\ index'[c.of] = Reindexed(c, index[c.of])
      /\ hash' \in [Records -> Record] /\ index' \in [Records -> SUBSET Statuses]
      /\ missed' = missed /\ mishaps' = mishaps
  BY <1>1, UpdateAnswered DEF IInv
<1>3. /\ Written(c).status = c.to
      /\ c.to = "open" => Written(c) = [status |-> "open", amount |-> c.amount]
  BY DEF Written
<1>4. /\ Reindexed(c, index[c.of]) \subseteq index[c.of] \cup {c.to}
      /\ c.to # c.was => c.to \in Reindexed(c, index[c.of])
  BY DEF Reindexed
<1>5. ASSUME NEW r \in Records, Brings(1, r), Expected(r)'
      PROVE  Settled(r)'
  <2>1. /\ c.of = r /\ c.to = newest[r] /\ (r = Position => c.amount = book)
        /\ book' = book /\ newest' = newest
        /\ r = Position => c.to = "open"
    BY <1>1, <1>2, <1>5 DEF Brings, Answered, Expected
  <2>2. Quiet(r)'
    BY <1>1, <1>2, <1>5, <2>1, LastIsAlone DEF IInv, Brings
  <2>3. CASE r = Position
    BY <1>2, <1>3, <2>1, <2>2, <2>3 DEF Settled
  <2>4. CASE r \in OrderIds
    <3>1. c.to # c.was
      BY <1>1, <1>2, <2>1, <2>4 DEF IInv, ToldOnce
    <3>2. r # Position
      BY <2>4, Constants
    <3>3. QED
      BY <1>2, <1>4, <2>1, <2>2, <3>1, <3>2 DEF Settled
  <2>5. QED
    BY <2>3, <2>4 DEF Records
<1>6. hash'[c.of].status = c.to \/ hash'[c.of] = hash[c.of]
  BY <1>2, <1>3
<1>7. QED
  BY <1>1, <1>2, <1>4, <1>5, <1>6, WritingKeeps

------------------------------------------------------------------------------
(* The events *)

\* The records told get one new call each, behind all that are under way.
Tells(told) ==
    /\ wire' \in Seq(Call)
    /\ DOMAIN wire \subseteq DOMAIN wire'
    /\ \A i \in DOMAIN wire : wire'[i] = wire[i]
    /\ \A k \in DOMAIN wire' \ DOMAIN wire :
          /\ \A i \in DOMAIN wire : i < k
          /\ wire'[k].of \in told /\ wire'[k].to = newest'[wire'[k].of]
          /\ wire'[k].step = "look"
          /\ wire'[k].of = Position => wire'[k].amount = book'
          /\ \A m \in DOMAIN wire' \ DOMAIN wire : wire'[m].of = wire'[k].of => m = k
    /\ \A r \in told : \E k \in DOMAIN wire' \ DOMAIN wire : wire'[k].of = r
    /\ newest' \in [Records -> Statuses \cup {None}]
    /\ \A r \in Records \ told : newest'[r] = newest[r]
    /\ hash' = hash /\ index' = index /\ mishaps' = mishaps
    /\ missed' = missed \ told

\* All that was not yet sent of an id goes to the end of the queue.
LEMMA EventKeeps ==
  ASSUME IInv, Typing', NEW told, Tells(told),
         Position \notin told => book' = book,
         Position \in told => newest'[Position] # "submitted",
         \A id \in OrderIds : \A st : WasTold(order, id, st) => WasTold(order', id, st),
         \A id \in told \cap OrderIds :
            /\ WasTold(order', id, newest'[id]) /\ ~WasTold(order, id, newest'[id])
            /\ newest'[id] = "submitted" => \A st : ~WasTold(order, id, st)
  PROVE  IInv'
<1> DEFINE New == DOMAIN wire' \ DOMAIN wire
<1>1. /\ Typing /\ OnlyTold /\ ToldOnce /\ OldExists /\ NewestArrives /\ SubmittedFirst
  BY DEF IInv
<1>2. /\ \A i \in DOMAIN wire : i \in DOMAIN wire' /\ wire'[i] = wire[i]
      /\ \A k \in New :
            /\ \A i \in DOMAIN wire : i < k
            /\ wire'[k].of \in told /\ wire'[k].to = newest'[wire'[k].of]
            /\ wire'[k].step = "look"
            /\ wire'[k].of = Position => wire'[k].amount = book'
            /\ \A m \in New : wire'[m].of = wire'[k].of => m = k
      /\ \A r \in told : \E k \in New : wire'[k].of = r
      /\ \A r \in Records \ told : newest'[r] = newest[r]
      /\ hash' = hash /\ index' = index /\ missed' = missed \ told
  BY DEF Tells
<1>3. \A k \in New : k \in DOMAIN wire' /\ k \notin DOMAIN wire
  OBVIOUS
<1>4. \A j \in DOMAIN wire' : j \in DOMAIN wire \/ j \in New
  OBVIOUS
<1>5. \A j \in DOMAIN wire' : /\ wire'[j].of \in Records /\ wire'[j].to \in Statuses
                              /\ wire'[j] \in Call
  <2>1. wire' \in Seq(Call)
    BY DEF Tells
  <2>2. \A j \in DOMAIN wire' : wire'[j] \in Call
    BY <2>1, LenProperties, ElementOfSeq
  <2>3. QED
    BY <2>2 DEF Call
<1>6. \A i \in DOMAIN wire : /\ wire[i] \in Call /\ wire[i].to \in Statuses
                             /\ i \in Nat
  BY <1>1, CallTyped
<1> HIDE DEF New
<1>7. OnlyTold'
  <2>1. \A id \in OrderIds : \A st \in Statuses :
           hash'[id].status = st \/ st \in index'[id] => WasTold(order', id, st)
    BY <1>1, <1>2 DEF OnlyTold
  <2>2. ASSUME NEW id \in OrderIds, NEW st \in Statuses, newest'[id] = st
        PROVE  WasTold(order', id, st)
    BY <1>1, <1>2, <2>2, Constants DEF OnlyTold
  <2>3. ASSUME NEW id \in OrderIds, NEW j \in DOMAIN wire', wire'[j].of = id
        PROVE  WasTold(order', id, wire'[j].to)
    <3>1. CASE j \in DOMAIN wire
      <4>1. WasTold(order, id, wire[j].to) /\ wire'[j].to = wire[j].to
        BY <1>1, <1>2, <2>3, <3>1 DEF OnlyTold
      <4>2. QED
        BY <4>1
    <3>2. CASE j \in New
      <4>1. id \in told \cap OrderIds /\ wire'[j].to = newest'[id]
        BY <1>2, <2>3, <3>2
      <4>2. QED
        BY <4>1
    <3>3. QED
      BY <1>4, <3>1, <3>2
  <2>4. QED
    BY <2>1, <2>2, <2>3 DEF OnlyTold
<1>8. ASSUME NEW id \in told \cap OrderIds
      PROVE  /\ hash[id].status # newest'[id]
             /\ \A i \in DOMAIN wire : wire[i].of = id => wire[i].to # newest'[id]
             /\ newest'[id] \in Statuses
             /\ newest'[id] = "submitted" =>
                   /\ hash[id].status = None /\ index[id] = {}
                   /\ \A i \in DOMAIN wire : wire[i].of # id
  <2>1. ~WasTold(order, id, newest'[id]) /\ (newest'[id] = "submitted" => \A st : ~WasTold(order, id, st))
    OBVIOUS
  <2>2. PICK k \in New : wire'[k].of = id
    BY <1>2
  <2>3. newest'[id] \in Statuses
    BY <1>2, <1>3, <1>5, <2>2
  <2>4. \A st \in Statuses : hash[id].status = st \/ st \in index[id] => WasTold(order, id, st)
    BY <1>1 DEF OnlyTold
  <2>5. \A i \in DOMAIN wire : wire[i].of = id => WasTold(order, id, wire[i].to)
    BY <1>1 DEF OnlyTold
  <2>6. hash[id].status \in Statuses \cup {None} /\ index[id] \in SUBSET Statuses
    BY <1>1, HashTyped, Constants
  <2>7. QED
    BY <2>1, <2>3, <2>4, <2>5, <2>6
<1>9. ToldOnce'
  <2> SUFFICES ASSUME NEW j \in DOMAIN wire', wire'[j].of \in OrderIds
               PROVE  /\ hash'[wire'[j].of].status # wire'[j].to
                      /\ wire'[j].step = "update" => wire'[j].was # wire'[j].to
                      /\ \A k \in DOMAIN wire' :
                           wire'[k].of = wire'[j].of /\ wire'[k].to = wire'[j].to => k = j
    BY DEF ToldOnce
  <2>1. CASE j \in DOMAIN wire
    <3>1. /\ wire'[j] = wire[j] /\ hash[wire[j].of].status # wire[j].to
          /\ wire[j].step = "update" => wire[j].was # wire[j].to
          /\ \A k \in DOMAIN wire :
                wire[k].of = wire[j].of /\ wire[k].to = wire[j].to => k = j
      BY <1>1, <1>2, <2>1 DEF ToldOnce
    <3>2. \A k \in New : ~(wire'[k].of = wire[j].of /\ wire'[k].to = wire[j].to)
      BY <1>2, <1>8, <2>1, <3>1
    <3>3. QED
      BY <1>2, <1>4, <3>1, <3>2
  <2>2. CASE j \in New
    <3>1. wire'[j].of \in told \cap OrderIds /\ wire'[j].to = newest'[wire'[j].of]
          /\ wire'[j].step = "look"
      BY <1>2, <2>2
    <3>2. \A k \in DOMAIN wire : ~(wire[k].of = wire'[j].of /\ wire[k].to = wire'[j].to)
      BY <1>8, <3>1
    <3>3. hash[wire'[j].of].status # wire'[j].to
      BY <1>8, <3>1
    <3>4. QED
      BY <1>2, <1>4, <2>2, <3>1, <3>2, <3>3
  <2>3. QED
    BY <1>4, <2>1, <2>2
<1>10. OldExists'
  <2>1. ASSUME NEW j \in DOMAIN wire', wire'[j].step \in {"old", "update"}
        PROVE  hash[wire'[j].of].status # None
    <3>1. j \in DOMAIN wire
      BY <1>2, <1>4, <2>1
    <3>2. QED
      BY <1>1, <1>2, <2>1, <3>1 DEF OldExists, Exists
  <2>2. QED
    BY <1>2, <2>1 DEF OldExists, Exists
<1>11. NewestArrives'
  <2> SUFFICES ASSUME NEW r \in Records, Expected(r)'
               PROVE  Settled(r)' \/ \E i \in DOMAIN wire' : Brings(i, r)'
    BY DEF NewestArrives
  <2>1. CASE r \in told
    <3>1. PICK k \in New : wire'[k].of = r
      BY <1>2, <2>1
    <3>2. /\ wire'[k].to = newest'[r] /\ wire'[k].step = "look"
          /\ r = Position => wire'[k].amount = book'
          /\ k \in DOMAIN wire'
      BY <1>2, <1>3, <3>1
    <3>3. ASSUME NEW j \in DOMAIN wire', wire'[j].of = r, j # k
          PROVE  /\ j < k => Phase(wire'[j]) >= Phase(wire'[k])
                 /\ j > k => Phase(wire'[j]) > Phase(wire'[k])
      <4>1. j \in DOMAIN wire /\ j < k /\ j \in Nat
        BY <1>2, <1>4, <1>6, <3>1, <3>3
      <4>2. Phase(wire'[j]) \in 0..2 /\ Phase(wire'[k]) = 0
        BY <1>5, <3>2, Phases
      <4>3. k \in Nat
        BY <3>2, LenProperties DEF Tells
      <4>4. QED
        BY <4>1, <4>2, <4>3
    <3>4. IsLast(k)'
      BY <3>1, <3>2, <3>3 DEF IsLast
    <3>5. Brings(k, r)'
      BY <3>1, <3>2, <3>4 DEF Brings
    <3>6. QED
      BY <3>2, <3>5
  <2>2. CASE r \notin told
    <3>1. /\ newest'[r] = newest[r] /\ hash'[r] = hash[r] /\ index'[r] = index[r]
          /\ r = Position => book' = book
          /\ Expected(r)
      BY <1>2, <2>2 DEF Expected
    <3>2. \A j \in DOMAIN wire' : wire'[j].of = r => j \in DOMAIN wire /\ wire'[j] = wire[j]
      BY <1>2, <1>4, <2>2
    <3>3. CASE Settled(r)
      <4>1. Quiet(r)'
        BY <3>2, <3>3 DEF Settled, Quiet
      <4>2. Settled(r)'
        BY <3>1, <3>3, <4>1 DEF Settled
      <4>3. QED
        BY <4>2
    <3>4. ASSUME NEW i \in DOMAIN wire, Brings(i, r)
          PROVE  \E k \in DOMAIN wire' : Brings(k, r)'
      <4>1. i \in DOMAIN wire' /\ wire'[i] = wire[i] /\ wire[i].of = r
        BY <1>2, <3>4 DEF Brings
      <4>2. IsLast(i)'
        BY <3>2, <3>4, <4>1 DEF Brings, IsLast
      <4>3. Brings(i, r)'
        BY <3>1, <3>4, <4>1, <4>2 DEF Brings
      <4>4. QED
        BY <4>1, <4>3
    <3>5. QED
      BY <1>1, <3>1, <3>3, <3>4 DEF NewestArrives
  <2>3. QED
    BY <2>1, <2>2
<1>12. SubmittedFirst'
  <2> SUFFICES ASSUME NEW j \in DOMAIN wire', wire'[j].to = "submitted"
               PROVE  /\ wire'[j].of \in OrderIds
                      /\ hash'[wire'[j].of].status = None /\ index'[wire'[j].of] = {}
                      /\ wire'[j].step \in {"look", "insert"}
                      /\ \A k \in DOMAIN wire' : wire'[k].of = wire'[j].of /\ k # j =>
                            /\ wire'[k].step \in {"look", "insert"}
                            /\ k < j => wire'[k].step = "look" /\ wire'[j].step = "insert"
                            /\ wire'[j].step = "look" => wire'[k].step = "look"
    BY DEF SubmittedFirst, Exists
  <2>1. CASE j \in DOMAIN wire
    <3>1. /\ wire'[j] = wire[j] /\ wire[j].of \in OrderIds
          /\ hash[wire[j].of].status = None /\ index[wire[j].of] = {}
          /\ wire[j].step \in {"look", "insert"}
          /\ \A k \in DOMAIN wire : wire[k].of = wire[j].of /\ k # j =>
                /\ wire[k].step \in {"look", "insert"}
                /\ k < j => wire[k].step = "look" /\ wire[j].step = "insert"
                /\ wire[j].step = "look" => wire[k].step = "look"
      BY <1>1, <1>2, <2>1 DEF SubmittedFirst, Exists
    <3>2. ASSUME NEW k \in New
          PROVE  wire'[k].step = "look" /\ ~(k < j)
      <4>1. k \in Nat /\ j \in Nat
        BY <1>3, LenProperties DEF Tells
      <4>2. j < k /\ wire'[k].step = "look"
        BY <1>2, <2>1
      <4>3. QED
        BY <4>1, <4>2
    <3>3. QED
      BY <1>2, <1>4, <3>1, <3>2
  <2>2. CASE j \in New
    <3>1. wire'[j].of \in told /\ newest'[wire'[j].of] = "submitted" /\ wire'[j].step = "look"
      BY <1>2, <2>2
    <3>2. wire'[j].of \in OrderIds
      BY <1>5, <3>1 DEF Records
    <3>3. /\ hash[wire'[j].of].status = None /\ index[wire'[j].of] = {}
          /\ \A i \in DOMAIN wire : wire[i].of # wire'[j].of
      BY <1>8, <3>1, <3>2
    <3>4. \A k \in DOMAIN wire' : wire'[k].of = wire'[j].of => k = j
      BY <1>2, <1>4, <2>2, <3>3
    <3>5. QED
      BY <1>2, <3>1, <3>2, <3>3, <3>4
  <2>3. QED
    BY <1>4, <2>1, <2>2
<1>13. QED
  BY <1>7, <1>9, <1>10, <1>11, <1>12 DEF IInv

\* calls sent after those on the wire
LEMMA SentAfter ==
  ASSUME NEW before \in Seq(Call), NEW calls \in Seq(Call)
  PROVE  /\ before \o calls \in Seq(Call)
         /\ Len(before \o calls) = Len(before) + Len(calls)
         /\ Len(before) \in Nat /\ DOMAIN before = 1..Len(before)
         /\ DOMAIN (before \o calls) = 1..(Len(before) + Len(calls))
         /\ \A j \in 1..(Len(before) + Len(calls)) :
               (before \o calls)[j] =
                  IF j <= Len(before) THEN before[j] ELSE calls[j - Len(before)]
<1>1. /\ before \o calls \in Seq(Call)
      /\ Len(before \o calls) = Len(before) + Len(calls)
  BY ConcatProperties
<1>2. \A j \in 1..(Len(before) + Len(calls)) :
         (before \o calls)[j] =
            IF j <= Len(before) THEN before[j] ELSE calls[j - Len(before)]
  BY ConcatProperties
<1>3. Len(before) \in Nat /\ DOMAIN before = 1..Len(before)
  BY LenProperties
<1>4. DOMAIN (before \o calls) = 1..Len(before \o calls)
  BY <1>1, LenProperties
<1> QED  BY <1>1, <1>2, <1>3, <1>4

\* Persist() with one call, for an order id.
LEMMA PersistOne ==
  ASSUME Typing, NEW c \in Call, c.step = "look", c.of # Position, Persist(<<c>>)
  PROVE  /\ Tells({c.of}) /\ newest'[c.of] = c.to
         /\ newest'[Position] = newest[Position]
         /\ missed' \subseteq Records /\ wire' \in Seq(Call)
<1> DEFINE calls == <<c>>
           told == {calls[i].of : i \in DOMAIN calls}
<1>1. wire \in Seq(Call) /\ c.of \in Records /\ c.to \in Statuses
  BY DEF Typing, Call
<1>2. calls \in Seq(Call) /\ Len(calls) = 1 /\ calls[1] = c /\ DOMAIN calls = {1}
  OBVIOUS
<1>3. told = {c.of} /\ ToSet(calls) = {c}
  BY <1>2 DEF ToSet
<1>4. /\ wire' = wire \o calls
      /\ newest' = [r \in Records |->
                       IF r \in told THEN (CHOOSE x \in ToSet(calls) : x.of = r).to
                       ELSE newest[r]]
      /\ missed' = missed \ told
      /\ hash' = hash /\ index' = index /\ mishaps' = mishaps
  BY DEF Persist
<1> HIDE DEF calls, told
<1>5. (CHOOSE x \in {c} : x.of = c.of) = c
  OBVIOUS
<1>6. /\ newest'[c.of] = c.to /\ \A r \in Records : r # c.of => newest'[r] = newest[r]
      /\ newest' \in [Records -> Statuses \cup {None}]
  <2>1. newest' = [r \in Records |-> IF r = c.of THEN c.to ELSE newest[r]]
    BY <1>3, <1>4, <1>5
  <2>2. QED
    BY <1>1, <2>1, HashTyped
<1>7. /\ wire' \in Seq(Call) /\ Len(wire') = Len(wire) + 1 /\ Len(wire) \in Nat
      /\ DOMAIN wire = 1..Len(wire) /\ DOMAIN wire' = 1..Len(wire')
      /\ \A j \in 1..Len(wire) + 1 :
            wire'[j] = IF j <= Len(wire) THEN wire[j] ELSE calls[j - Len(wire)]
  BY <1>1, <1>2, <1>4, SentAfter
<1>8. /\ \A j \in DOMAIN wire : j \in DOMAIN wire' /\ wire'[j] = wire[j]
      /\ \A k \in DOMAIN wire' \ DOMAIN wire :
            k = Len(wire) + 1 /\ wire'[k] = c /\ \A i \in DOMAIN wire : i < k
      /\ Len(wire) + 1 \in DOMAIN wire' \ DOMAIN wire
  BY <1>2, <1>7
<1>9. missed' \subseteq Records /\ Position \in Records
  BY <1>4, Constants DEF Typing
<1>10. \A k \in DOMAIN wire' \ DOMAIN wire :
         /\ \A i \in DOMAIN wire : i < k
         /\ wire'[k].of \in told /\ wire'[k].to = newest'[wire'[k].of]
         /\ wire'[k].step = "look"
         /\ wire'[k].of = Position => wire'[k].amount = book'
         /\ \A m \in DOMAIN wire' \ DOMAIN wire : wire'[m].of = wire'[k].of => m = k
  BY <1>3, <1>6, <1>8
<1>11. \A r \in told : \E k \in DOMAIN wire' \ DOMAIN wire : wire'[k].of = r
  BY <1>3, <1>8
<1>12. Tells(told)
  BY <1>3, <1>4, <1>6, <1>7, <1>8, <1>10, <1>11 DEF Tells
<1>13. QED
  BY <1>3, <1>6, <1>7, <1>9, <1>12

\* Persist() with the call of an order id and that of the position.
LEMMA PersistTwo ==
  ASSUME Typing, NEW c \in Call, c.step = "look", c.of # Position,
         NEW p \in Call, p.step = "look", p.of = Position, p.amount = book',
         Persist(<<c, p>>)
  PROVE  /\ Tells({c.of, Position})
         /\ newest'[c.of] = c.to /\ newest'[Position] = p.to
         /\ missed' \subseteq Records /\ wire' \in Seq(Call)
<1> DEFINE calls == <<c, p>>
           told == {calls[i].of : i \in DOMAIN calls}
<1>1. /\ wire \in Seq(Call) /\ c.of \in Records /\ c.to \in Statuses /\ p.to \in Statuses
      /\ Position \in Records
  BY Constants DEF Typing, Call
<1>2. /\ calls \in Seq(Call) /\ Len(calls) = 2 /\ calls[1] = c /\ calls[2] = p
      /\ DOMAIN calls = {1, 2}
  OBVIOUS
<1>3. told = {c.of, Position} /\ ToSet(calls) = {c, p}
  BY <1>2 DEF ToSet
<1>4. /\ wire' = wire \o calls
      /\ newest' = [r \in Records |->
                       IF r \in told THEN (CHOOSE x \in ToSet(calls) : x.of = r).to
                       ELSE newest[r]]
      /\ missed' = missed \ told
      /\ hash' = hash /\ index' = index /\ mishaps' = mishaps
  BY DEF Persist
<1> HIDE DEF calls, told
<1>5. /\ (CHOOSE x \in {c, p} : x.of = c.of) = c
      /\ (CHOOSE x \in {c, p} : x.of = Position) = p
  OBVIOUS
<1>6. /\ newest'[c.of] = c.to /\ newest'[Position] = p.to
      /\ \A r \in Records : r \notin told => newest'[r] = newest[r]
      /\ newest' \in [Records -> Statuses \cup {None}]
  <2>1. newest' = [r \in Records |-> IF r = c.of THEN c.to
                                      ELSE IF r = Position THEN p.to ELSE newest[r]]
    BY <1>3, <1>4, <1>5
  <2>2. QED
    BY <1>1, <1>3, <2>1, HashTyped
<1>7. /\ wire' \in Seq(Call) /\ Len(wire') = Len(wire) + 2 /\ Len(wire) \in Nat
      /\ DOMAIN wire = 1..Len(wire) /\ DOMAIN wire' = 1..Len(wire')
      /\ \A j \in 1..Len(wire) + 2 :
            wire'[j] = IF j <= Len(wire) THEN wire[j] ELSE calls[j - Len(wire)]
  <2>1. /\ wire' \in Seq(Call) /\ Len(wire') = Len(wire) + Len(calls)
        /\ \A j \in 1..Len(wire) + Len(calls) :
              wire'[j] = IF j <= Len(wire) THEN wire[j] ELSE calls[j - Len(wire)]
    BY <1>1, <1>2, <1>4, SentAfter
  <2>2. Len(wire) \in Nat /\ DOMAIN wire = 1..Len(wire) /\ DOMAIN wire' = 1..Len(wire')
    BY <1>1, <2>1, LenProperties
  <2>3. QED
    BY <1>2, <2>1, <2>2
<1>8. /\ \A j \in DOMAIN wire : j \in DOMAIN wire' /\ wire'[j] = wire[j]
      /\ \A k \in DOMAIN wire' \ DOMAIN wire :
            /\ \/ k = Len(wire) + 1 /\ wire'[k] = c
               \/ k = Len(wire) + 2 /\ wire'[k] = p
            /\ \A i \in DOMAIN wire : i < k
      /\ Len(wire) + 1 \in DOMAIN wire' \ DOMAIN wire /\ wire'[Len(wire) + 1] = c
      /\ Len(wire) + 2 \in DOMAIN wire' \ DOMAIN wire /\ wire'[Len(wire) + 2] = p
  BY <1>2, <1>7
<1>9. missed' \subseteq Records
  BY <1>4 DEF Typing
<1>10. \A k \in DOMAIN wire' \ DOMAIN wire :
         /\ \A i \in DOMAIN wire : i < k
         /\ wire'[k].of \in told /\ wire'[k].to = newest'[wire'[k].of]
         /\ wire'[k].step = "look"
         /\ wire'[k].of = Position => wire'[k].amount = book'
         /\ \A m \in DOMAIN wire' \ DOMAIN wire : wire'[m].of = wire'[k].of => m = k
  BY <1>3, <1>6, <1>8
<1>11. \A r \in told : \E k \in DOMAIN wire' \ DOMAIN wire : wire'[k].of = r
  BY <1>3, <1>8
<1>12. Tells(told)
  BY <1>4, <1>6, <1>7, <1>8, <1>10, <1>11 DEF Tells
<1>13. QED
  BY <1>3, <1>6, <1>7, <1>9, <1>12

\* An order moves on: no id loses an event, and only its own ids get one.
LEMMA OrderMoves ==
  ASSUME Typing, NEW o \in Orders, NEW n \in 0..MaxSubmits, order[o].ids <= n,
         NEW sent \in SUBSET Final, order[o].sent \subseteq sent,
         o \in Markets => n <= 1,
         order' = [order EXCEPT ![o] = [ids |-> n, sent |-> sent]]
  PROVE  /\ order' \in [Orders -> [ids : 0..MaxSubmits, sent : SUBSET Final]]
         /\ \A q \in Markets : order'[q].ids <= 1
         /\ \A id \in OrderIds : \A st : WasTold(order, id, st) => WasTold(order', id, st)
         /\ order'[o].ids = n /\ order'[o].sent = sent
<1> DEFINE r == [ids |-> n, sent |-> sent]
<1>1. r \in [ids : 0..MaxSubmits, sent : SUBSET Final] /\ r.ids = n /\ r.sent = sent
  OBVIOUS
<1>2. order' = [order EXCEPT ![o] = r]
  OBVIOUS
<1>3. /\ order \in [Orders -> [ids : 0..MaxSubmits, sent : SUBSET Final]]
      /\ \A q \in Markets : order[q].ids <= 1
  BY DEF Typing
<1> HIDE DEF r
<1>4. /\ order' \in [Orders -> [ids : 0..MaxSubmits, sent : SUBSET Final]]
      /\ order'[o] = r /\ \A q \in Orders : q # o => order'[q] = order[q]
  BY <1>1, <1>2, <1>3
<1>5. \A q \in Markets : order'[q].ids <= 1
  BY <1>1, <1>3, <1>4, Constants
<1>6. ASSUME NEW id \in OrderIds, NEW st, WasTold(order, id, st)
      PROVE  WasTold(order', id, st)
  <2>1. id[1] \in Orders /\ id[2] \in Nat
    BY IdParts, Constants
  <2>2. CASE id[1] # o
    BY <1>4, <1>6, <2>1, <2>2 DEF WasTold
  <2>3. CASE id[1] = o
    <3>1. order[o].ids \in Nat /\ n \in Nat
      BY <1>3, Constants
    <3>2. QED
      BY <1>1, <1>4, <1>6, <2>1, <2>3, <3>1 DEF WasTold
  <2>4. QED
    BY <2>2, <2>3
<1>7. QED
  BY <1>1, <1>4, <1>5, <1>6

LEMMA OrderFields ==
  ASSUME Typing, NEW o \in Orders
  PROVE  /\ order[o] = [ids |-> order[o].ids, sent |-> order[o].sent]
         /\ order[o].ids \in 0..MaxSubmits /\ order[o].ids \in Nat
         /\ order[o].sent \in SUBSET Final
<1>1. order[o] \in [ids : 0..MaxSubmits, sent : SUBSET Final]
  BY DEF Typing
<1>2. QED
  BY <1>1, Constants

\* a call that begins
LEMMA LookTyped ==
  ASSUME NEW r \in Records, NEW to \in Statuses, NEW amount \in Nat
  PROVE  /\ Look(r, to, amount) \in Call
         /\ Look(r, to, amount).of = r /\ Look(r, to, amount).to = to
         /\ Look(r, to, amount).step = "look" /\ Look(r, to, amount).amount = amount
BY DEF Look, Call

LEMMA SubmittedKeeps ==
  ASSUME IInv, NEW o \in Orders, Submitted(o)
  PROVE  IInv'
<1> DEFINE n == order[o].ids + 1
           id == <<o, n>>
           c == Look(id, "submitted", 0)
<1>1. /\ Typing /\ o \in Limits /\ n <= MaxSubmits /\ book' = book
      /\ order' = [order EXCEPT ![o].ids = n] /\ Persist(<<c>>)
  BY DEF IInv, Submitted, PersistOrder
<1>2. n \in 0..MaxSubmits /\ n \in Nat /\ order[o].ids <= n /\ ~(n <= order[o].ids)
      /\ order[o].sent \in SUBSET Final
  <2>1. order[o].ids \in Nat /\ order[o].sent \in SUBSET Final
    BY <1>1, OrderFields
  <2>2. \A k \in Nat : k + 1 \in Nat /\ k <= k + 1 /\ ~(k + 1 <= k)
    OBVIOUS
  <2>3. n \in Nat /\ order[o].ids <= n /\ ~(n <= order[o].ids)
    BY <2>1, <2>2
  <2>4. n \in 0..MaxSubmits
    <3> HIDE DEF n
    <3>1. QED
      BY <1>1, <2>3, Constants
  <2>5. QED
    BY <2>1, <2>3, <2>4
<1>3. o \notin Markets
  BY <1>1, RuntimePersistenceAssumption
<1>4. order' = [order EXCEPT ![o] = [ids |-> n, sent |-> order[o].sent]]
  <2>1. [order[o] EXCEPT !.ids = n] = [ids |-> n, sent |-> order[o].sent]
    <3>1. order[o] \in [ids : 0..MaxSubmits, sent : SUBSET Final]
      BY <1>1 DEF Typing
    <3>2. QED
      <4> HIDE DEF n
      <4>1. QED
        BY <3>1
  <2>2. order' = [order EXCEPT ![o] = [order[o] EXCEPT !.ids = n]]
    BY <1>1 DEF Typing
  <2>3. QED
    BY <2>1, <2>2
<1>5. id \in OrderIds /\ id \in Records /\ id # Position /\ "submitted" \in Statuses
      /\ id[1] = o /\ id[2] = n
  BY <1>2, Constants DEF OrderIds, Statuses
<1> HIDE DEF n, id
<1>6. /\ order' \in [Orders -> [ids : 0..MaxSubmits, sent : SUBSET Final]]
      /\ \A q \in Markets : order'[q].ids <= 1
      /\ \A i \in OrderIds : \A st : WasTold(order, i, st) => WasTold(order', i, st)
      /\ order'[o].ids = n
  BY <1>1, <1>2, <1>3, <1>4, OrderMoves
<1>7. /\ c \in Call /\ c.of = id /\ c.to = "submitted" /\ c.step = "look"
  BY <1>5, LookTyped
<1> HIDE DEF c
<1>8. /\ Tells({id}) /\ newest'[id] = "submitted"
      /\ newest'[Position] = newest[Position]
      /\ missed' \subseteq Records /\ wire' \in Seq(Call)
  BY <1>1, <1>5, <1>7, PersistOne
<1>9. Typing'
  BY <1>1, <1>6, <1>8 DEF Typing, Tells
<1>10. /\ WasTold(order', id, "submitted")
       /\ \A st : ~WasTold(order, id, st)
  BY <1>2, <1>5, <1>6 DEF WasTold
<1>11. \A i \in {id} \cap OrderIds :
          /\ WasTold(order', i, newest'[i]) /\ ~WasTold(order, i, newest'[i])
          /\ newest'[i] = "submitted" => \A st : ~WasTold(order, i, st)
  BY <1>8, <1>10
<1>12. Position \notin {id}
  BY <1>5
<1>13. QED
  BY <1>1, <1>6, <1>8, <1>9, <1>11, <1>12, EventKeeps

\* An order ends with an event that it did not have: it is sent for the id.
LEMMA EndMoves ==
  ASSUME IInv, NEW o \in Orders, NEW n \in 0..MaxSubmits, order[o].ids <= n,
         o \in Markets => n <= 1,
         NEW to \in Final, to \notin order[o].sent, Ended(o, n, to),
         NEW id, id = <<o, n>>
  PROVE  /\ order' \in [Orders -> [ids : 0..MaxSubmits, sent : SUBSET Final]]
         /\ \A q \in Markets : order'[q].ids <= 1
         /\ \A i \in OrderIds : \A st : WasTold(order, i, st) => WasTold(order', i, st)
         /\ WasTold(order', id, to) /\ ~WasTold(order, id, to) /\ to # "submitted"
         /\ id \in OrderIds /\ id \in Records /\ id # Position /\ to \in Statuses
<1>1. Typing
  BY DEF IInv
<1> DEFINE all == order[o].sent \cup {to}
<1>2. /\ all \in SUBSET Final /\ order[o].sent \subseteq all
      /\ order' = [order EXCEPT ![o] = [ids |-> n, sent |-> all]]
  <2>1. order[o].sent \in SUBSET Final
    BY <1>1, OrderFields
  <2>2. order \in [Orders -> [ids : 0..MaxSubmits, sent : SUBSET Final]]
    BY <1>1 DEF Typing
  <2>3. QED
    BY <2>1, <2>2 DEF Ended
<1>3. to \in all
  OBVIOUS
<1> HIDE DEF all
<1>4. /\ order' \in [Orders -> [ids : 0..MaxSubmits, sent : SUBSET Final]]
      /\ \A q \in Markets : order'[q].ids <= 1
      /\ \A i \in OrderIds : \A st : WasTold(order, i, st) => WasTold(order', i, st)
      /\ order'[o].ids = n /\ order'[o].sent = all
  BY <1>1, <1>2, OrderMoves
<1>5. /\ id \in OrderIds /\ id \in Records /\ id # Position /\ to \in Statuses
      /\ id[1] = o /\ id[2] = n /\ to # "submitted" /\ n <= n
  BY Constants DEF OrderIds, Statuses, Final
<1>6. WasTold(order', id, to) /\ ~WasTold(order, id, to)
  BY <1>3, <1>4, <1>5 DEF WasTold
<1>7. QED
  BY <1>4, <1>5, <1>6

LEMMA EndedUnfilledKeeps ==
  ASSUME IInv, NEW o \in Orders, NEW to \in Final, EndedUnfilled(o, to)
  PROVE  IInv'
<1> DEFINE n == order[o].ids
           id == <<o, n>>
           c == Look(id, to, 0)
<1>1. /\ Typing /\ book' = book /\ to \notin order[o].sent
      /\ Ended(o, n, to) /\ Persist(<<c>>)
  BY DEF IInv, EndedUnfilled, PersistOrder
<1>2. n \in 0..MaxSubmits /\ n <= n /\ (o \in Markets => n <= 1)
  <2>1. n \in Nat /\ n \in 0..MaxSubmits
    BY <1>1, OrderFields
  <2>2. o \in Markets => n <= 1
    BY <1>1 DEF Typing
  <2>3. QED
    BY <2>1, <2>2
<1>3. /\ order' \in [Orders -> [ids : 0..MaxSubmits, sent : SUBSET Final]]
      /\ \A q \in Markets : order'[q].ids <= 1
      /\ \A i \in OrderIds : \A st : WasTold(order, i, st) => WasTold(order', i, st)
      /\ WasTold(order', id, to) /\ ~WasTold(order, id, to) /\ to # "submitted"
      /\ id \in OrderIds /\ id \in Records /\ id # Position /\ to \in Statuses
  BY <1>1, <1>2, EndMoves
<1> HIDE DEF n, id
<1>4. /\ c \in Call /\ c.of = id /\ c.to = to /\ c.step = "look"
  BY <1>3, LookTyped
<1> HIDE DEF c
<1>5. /\ Tells({id}) /\ newest'[id] = to
      /\ newest'[Position] = newest[Position]
      /\ missed' \subseteq Records /\ wire' \in Seq(Call)
  BY <1>1, <1>3, <1>4, PersistOne
<1>6. Typing'
  BY <1>1, <1>3, <1>5 DEF Typing, Tells
<1>7. \A i \in {id} \cap OrderIds :
         /\ WasTold(order', i, newest'[i]) /\ ~WasTold(order, i, newest'[i])
         /\ newest'[i] = "submitted" => \A st : ~WasTold(order, i, st)
  BY <1>3, <1>5
<1>8. Position \notin {id}
  BY <1>3
<1>9. QED
  BY <1>1, <1>3, <1>5, <1>6, <1>7, <1>8, EventKeeps

LEMMA FilledKeeps ==
  ASSUME IInv, NEW o \in Orders, Filled(o)
  PROVE  IInv'
<1> DEFINE n == IF o \in Markets THEN 1 ELSE order[o].ids
           id == <<o, n>>
           amount == Applied(o)
           st == IF amount > 0 THEN "open" ELSE "closed"
           c == Look(id, "filled", 0)
           p == Look(Position, st, amount)
<1>1. /\ Typing /\ book' = amount /\ Active(o)
      /\ Ended(o, n, "filled") /\ Persist(<<c, p>>)
  BY DEF IInv, Filled, PersistOrder, SyncPosition
<1>2. n \in 0..MaxSubmits /\ order[o].ids <= n /\ (o \in Markets => n <= 1)
  <2>1. order[o].ids \in Nat /\ order[o].ids \in 0..MaxSubmits
    BY <1>1, OrderFields
  <2>2. o \in Markets => order[o].ids <= 1
    BY <1>1 DEF Typing
  <2>3. QED
    BY <2>1, <2>2, Constants
<1>3. amount \in Nat
  BY <1>1 DEF Typing, Applied
<1>4. "filled" \in Final /\ "filled" \notin order[o].sent
  BY <1>1 DEF Active, Final
<1>5. /\ order' \in [Orders -> [ids : 0..MaxSubmits, sent : SUBSET Final]]
      /\ \A q \in Markets : order'[q].ids <= 1
      /\ \A i \in OrderIds : \A x : WasTold(order, i, x) => WasTold(order', i, x)
      /\ WasTold(order', id, "filled") /\ ~WasTold(order, id, "filled")
      /\ id \in OrderIds /\ id \in Records /\ id # Position /\ "filled" \in Statuses
  BY <1>1, <1>2, <1>4, EndMoves
<1>6. st \in Statuses /\ st # "submitted"
  BY DEF Statuses
<1> HIDE DEF n, id, amount, st
<1>7. /\ c \in Call /\ c.of = id /\ c.to = "filled" /\ c.step = "look"
      /\ p \in Call /\ p.of = Position /\ p.to = st /\ p.step = "look"
      /\ p.amount = amount
  BY <1>3, <1>5, <1>6, LookTyped, Constants
<1> HIDE DEF c, p
<1>8. /\ Tells({id, Position}) /\ newest'[id] = "filled" /\ newest'[Position] = st
      /\ missed' \subseteq Records /\ wire' \in Seq(Call)
  BY <1>1, <1>5, <1>7, PersistTwo
<1>9. Typing'
  BY <1>1, <1>3, <1>5, <1>8 DEF Typing, Tells
<1>10. \A i \in {id, Position} \cap OrderIds :
         /\ WasTold(order', i, newest'[i]) /\ ~WasTold(order, i, newest'[i])
         /\ newest'[i] = "submitted" => \A x : ~WasTold(order, i, x)
  BY <1>5, <1>8, Constants
<1>11. QED
  BY <1>5, <1>6, <1>8, <1>9, <1>10, EventKeeps

\* A restart drops every call, and says so of their records.
LEMMA RestartKeeps ==
  ASSUME IInv, Restart
  PROVE  IInv'
<1>1. /\ Typing /\ OnlyTold /\ ToldOnce /\ OldExists /\ NewestArrives /\ SubmittedFirst
  BY DEF IInv
<1>2. /\ order' = [o \in Orders |-> IF order[o] = Unsent THEN Unsent
                                     ELSE [order[o] EXCEPT !.sent = Final]]
      /\ book' = 0 /\ wire' = <<>> /\ hash' = hash /\ index' = index
      /\ missed' = missed \cup {wire[i].of : i \in DOMAIN wire}
      /\ newest' = [newest EXCEPT ![Position] = None]
      /\ mishaps' = mishaps + 1
  BY DEF Restart, Mishap
<1>3. /\ wire' \in Seq(Call) /\ DOMAIN wire' = {}
  BY <1>2
<1>4. ASSUME NEW o \in Orders
      PROVE  /\ order'[o] \in [ids : 0..MaxSubmits, sent : SUBSET Final]
             /\ order'[o].ids = order[o].ids /\ order[o].sent \subseteq order'[o].sent
  <2>1. order[o] \in [ids : 0..MaxSubmits, sent : SUBSET Final]
    BY <1>1 DEF Typing
  <2>2. order'[o] = IF order[o] = Unsent THEN Unsent
                    ELSE [order[o] EXCEPT !.sent = Final]
    BY <1>2
  <2>3. CASE order[o] = Unsent
    BY <2>1, <2>2, <2>3
  <2>4. CASE order[o] # Unsent
    BY <2>1, <2>2, <2>4
  <2>5. QED
    BY <2>3, <2>4
<1>5. order' \in [Orders -> [ids : 0..MaxSubmits, sent : SUBSET Final]]
  BY <1>2, <1>4
<1>6. /\ newest' \in [Records -> Statuses \cup {None}] /\ newest'[Position] = None
      /\ \A id \in OrderIds : newest'[id] = newest[id]
  BY <1>1, <1>2, Constants DEF Typing
<1>7. missed' \subseteq Records
  BY <1>1, <1>2, CallTyped DEF Typing
<1>8. Typing'
  <2>1. \A q \in Markets : order'[q].ids <= 1
    BY <1>1, <1>4, Constants DEF Typing
  <2>2. book' \in Nat /\ mishaps' \in Nat
    BY <1>1, <1>2 DEF Typing
  <2>3. QED
    BY <1>1, <1>2, <1>3, <1>5, <1>6, <1>7, <2>1, <2>2 DEF Typing
<1>9. OnlyTold'
  <2>1. \A id \in OrderIds : \A st : WasTold(order, id, st) => WasTold(order', id, st)
    BY <1>4, IdParts DEF WasTold
  <2>2. QED
    BY <1>1, <1>2, <1>3, <1>6, <2>1 DEF OnlyTold
<1>10. ToldOnce' /\ OldExists' /\ SubmittedFirst'
  BY <1>3 DEF ToldOnce, OldExists, SubmittedFirst
<1>11. NewestArrives'
  <2> SUFFICES ASSUME NEW r \in Records, Expected(r)'
               PROVE  Settled(r)'
    BY DEF NewestArrives
  <2>1. r # Position
    BY <1>6 DEF Expected, None
  <2>2. r \in OrderIds /\ newest'[r] = newest[r]
    BY <1>6, <2>1 DEF Records
  <2>3. Expected(r) /\ \A i \in DOMAIN wire : wire[i].of # r
    BY <1>2, <2>1, <2>2 DEF Expected
  <2>4. Settled(r)
    BY <1>1, <2>3 DEF NewestArrives, Brings
  <2>5. Quiet(r)'
    BY <1>3 DEF Quiet
  <2>6. QED
    BY <1>2, <2>1, <2>2, <2>4, <2>5 DEF Settled
<1>12. QED
  BY <1>8, <1>9, <1>10, <1>11 DEF IInv

------------------------------------------------------------------------------
(* The theorems *)

LEMMA InitIInv ==
  ASSUME Init
  PROVE  IInv
<1>1. /\ DOMAIN wire = {} /\ wire \in Seq(Call)
  BY DEF Init
<1>2. Typing
  BY <1>1, Constants DEF Init, Typing, Unsent, Record
<1>3. \A id \in OrderIds : hash[id].status = None /\ index[id] = {} /\ newest[id] = None
  BY Constants DEF Init
<1>4. OnlyTold
  BY <1>1, <1>3, NoneIsNoStatus DEF OnlyTold
<1>5. ToldOnce /\ OldExists /\ SubmittedFirst
  BY <1>1 DEF ToldOnce, OldExists, SubmittedFirst
<1>6. \A r \in Records : ~Expected(r)
  BY Constants DEF Init, Expected, None
<1>7. QED
  BY <1>2, <1>4, <1>5, <1>6 DEF IInv, NewestArrives

\* Only the command at the head is answered, or fails.
LEMMA ConnectionAnswersHead ==
  ASSUME Answer \/ Connection(CommandFails)
  PROVE  /\ 1 \in DOMAIN wire
         /\ GetById(1) \/ ReadOld(1) \/ Insert(1) \/ Update(1) \/ CommandFails(1)
BY DEF Answer, Connection, Answerable

LEMMA NextIInv ==
  ASSUME IInv, [Next]_vars
  PROVE  IInv'
<1>1. ASSUME NEW o \in Orders, Submitted(o)
      PROVE  IInv'
  BY <1>1, SubmittedKeeps
<1>2. ASSUME NEW o \in Orders, Filled(o)
      PROVE  IInv'
  BY <1>2, FilledKeeps
<1>3. ASSUME NEW o \in Orders, NEW to \in Final, EndedUnfilled(o, to)
      PROVE  IInv'
  BY <1>3, EndedUnfilledKeeps
<1>4. CASE Answer \/ Connection(CommandFails)
  BY <1>4, ConnectionAnswersHead, GetByIdKeeps, ReadOldKeeps, InsertKeeps,
     UpdateKeeps, CommandFailsKeeps
<1>5. CASE Restart
  BY <1>5, RestartKeeps
<1>6. CASE UNCHANGED vars
  BY <1>6 DEF vars, IInv, Typing, OnlyTold, WasTold, ToldOnce, OldExists, Exists,
     NewestArrives, Expected, Settled, Quiet, Brings, IsLast, Phase, SubmittedFirst
<1>7. QED
  BY <1>1, <1>2, <1>3, <1>4, <1>5, <1>6 DEF Next

\* The invariant of the whole argument: what a record's last event said is what its
\* commands bring there, through whatever is under way on the one connection.
THEOREM Inductive == Spec => []IInv
<1>1. Init => IInv
  BY InitIInv
<1>2. IInv /\ [Next]_vars => IInv'
  BY NextIInv
<1>3. QED
  BY <1>1, <1>2, PTL DEF Spec

\* When no call of an order id is under way, the id is in the status set of
\* its newest event unless a command failed since, however the calls of
\* _persistOrderState overlapped: the last call stays behind the others, and
\* when two insert the record the later one is the later event's.
THEOREM StoredOrdersAreFound == Spec => []NewestIsIndexed
<1>1. IInv => NewestIsIndexed
  <2> SUFFICES ASSUME IInv, NEW id \in OrderIds,
                      Quiet(id), newest[id] # None, id \notin missed
               PROVE  newest[id] \in index[id]
    BY DEF NewestIsIndexed
  <2>1. id # Position /\ id \in Records
    BY Constants
  <2>2. Expected(id)
    BY <2>1 DEF Expected
  <2>3. Settled(id)
    BY <2>1, <2>2 DEF IInv, NewestArrives, Brings, Quiet
  <2>4. QED
    BY <2>1, <2>3 DEF Settled
<1>2. QED
  BY <1>1, Inductive, PTL

\* When no sync of the position is under way and none failed, the record of
\* an open position has the book's amount: the sync of the last fill, which
\* read the book before it read the record, is the last that writes it.
THEOREM StoredPositionIsTheBook == Spec => []PositionFollowsBook
<1>1. IInv => PositionFollowsBook
  <2> SUFFICES ASSUME IInv, Quiet(Position), newest[Position] = "open",
                      Position \notin missed
               PROVE  hash[Position] = [status |-> "open", amount |-> book]
    BY DEF PositionFollowsBook
  <2>1. Expected(Position) /\ Position \in Records
    BY Constants DEF Expected
  <2>2. Settled(Position)
    BY <2>1 DEF IInv, NewestArrives, Brings, Quiet
  <2>3. QED
    BY <2>2 DEF Settled
<1>2. QED
  BY <1>1, Inductive, PTL

\* An order id that reached a final status set is never put back into the
\* set of the open orders: the call of its submission, the only one that
\* could, is answered while the id is in no set at all.
THEOREM NoneReopens == Spec => NoWayBack
<1>1. ASSUME IInv, [Next]_vars
      PROVE  \A id \in OrderIds :
                index[id] \cap Final # {} /\ "submitted" \in index'[id]
                  => "submitted" \in index[id]
  <2>1. CASE index' = index
    BY <2>1
  <2>2. ASSUME 1 \in DOMAIN wire, NEW c, c = wire[1], Answered(c),
               index'[c.of] \subseteq index[c.of] \cup {c.to}
        PROVE  \A id \in OrderIds :
                  index[id] \cap Final # {} /\ "submitted" \in index'[id]
                    => "submitted" \in index[id]
    <3> SUFFICES ASSUME NEW id \in OrderIds, index[id] \cap Final # {},
                        "submitted" \in index'[id], "submitted" \notin index[id]
                 PROVE  FALSE
      OBVIOUS
    <3>1. id = c.of
      BY <2>2, Constants DEF Answered
    <3>2. c.to = "submitted"
      BY <2>2, <3>1
    <3>3. index[id] = {}
      BY <1>1, <2>2, <3>1, <3>2 DEF IInv, SubmittedFirst
    <3>4. QED
      BY <3>3
  <2>3. CASE \E o \in Orders : \/ Submitted(o) \/ Filled(o)
                               \/ \E to \in Final : EndedUnfilled(o, to)
    <3>1. index' = index
      BY <2>3 DEF Submitted, Filled, EndedUnfilled, Persist
    <3>2. QED
      BY <2>1, <3>1
  <2>4. CASE Answer \/ Connection(CommandFails)
    <3>1. /\ 1 \in DOMAIN wire
          /\ GetById(1) \/ ReadOld(1) \/ Insert(1) \/ Update(1) \/ CommandFails(1)
      BY <2>4, ConnectionAnswersHead
    <3>2. PICK c : c = wire[1]
      OBVIOUS
    <3>3. Typing
      BY <1>1 DEF IInv
    <3>4. CASE GetById(1) \/ ReadOld(1) \/ CommandFails(1)
      BY <2>1, <3>4 DEF GetById, ReadOld, CommandFails
    <3>5. CASE Insert(1)
      BY <2>2, <3>1, <3>2, <3>3, <3>5, InsertAnswered
    <3>6. CASE Update(1)
      <4>1. Answered(c) /\ index'[c.of] = Reindexed(c, index[c.of])
        BY <3>1, <3>2, <3>3, <3>6, UpdateAnswered
      <4>2. index'[c.of] \subseteq index[c.of] \cup {c.to}
        BY <4>1 DEF Reindexed
      <4>3. QED
        BY <2>2, <3>1, <3>2, <4>1, <4>2
    <3>7. QED
      BY <3>1, <3>4, <3>5, <3>6
  <2>5. CASE Restart \/ UNCHANGED vars
    BY <2>1, <2>5 DEF Restart, vars
  <2>6. QED
    BY <1>1, <2>3, <2>4, <2>5 DEF Next
<1>2. QED
  BY <1>1, Inductive, PTL DEF Spec, NoWayBack

-----------------------------------------------------------------------------
(* The bounds of the types: the book holds no more than was bought, and so     *)
(* does every amount under way or at rest.                                     *)

FilledOrders == {o \in Orders : "filled" \in order[o].sent}
Capped == /\ book <= Cardinality(FilledOrders)
          /\ \A i \in DOMAIN wire : wire[i].amount \in Amounts
          /\ \A r \in Records : hash[r].amount \in Amounts
          /\ mishaps <= MaxMishaps

LEMMA FilledCount ==
  /\ IsFiniteSet(FilledOrders) /\ Cardinality(FilledOrders) \in Nat
  /\ Cardinality(FilledOrders) <= Cardinality(Orders) /\ Cardinality(Orders) \in Nat
<1>1. IsFiniteSet(Orders) /\ FilledOrders \in SUBSET Orders
  BY RuntimePersistenceAssumption DEF FilledOrders
<1>2. QED
  BY <1>1, FS_Subset, FS_CardinalityType

\* orders that are filled stay so while their number only grows
LEMMA CountGrows ==
  ASSUME NEW S \in SUBSET Orders, FilledOrders \subseteq S
  PROVE  Cardinality(FilledOrders) <= Cardinality(S) /\ Cardinality(S) \in Nat
<1>1. IsFiniteSet(Orders)
  BY RuntimePersistenceAssumption
<1>2. IsFiniteSet(S)
  BY <1>1, FS_Subset
<1>3. QED
  BY <1>2, FS_Subset, FS_CardinalityType

\* what persist calls add to the queue
LEMMA PersistCapped ==
  ASSUME Typing, Capped, NEW calls \in Seq(Call), Persist(calls),
         \A i \in DOMAIN calls : calls[i].amount \in Amounts
  PROVE  /\ \A i \in DOMAIN wire' : wire'[i].amount \in Amounts
         /\ hash' = hash /\ mishaps' = mishaps
<1>1. wire \in Seq(Call) /\ wire' = wire \o calls /\ hash' = hash /\ mishaps' = mishaps
  BY DEF Typing, Persist
<1>2. /\ Len(wire) \in Nat /\ DOMAIN wire = 1..Len(wire)
      /\ Len(calls) \in Nat /\ DOMAIN calls = 1..Len(calls)
      /\ DOMAIN wire' = 1..(Len(wire) + Len(calls))
      /\ \A j \in 1..(Len(wire) + Len(calls)) :
            wire'[j] = IF j <= Len(wire) THEN wire[j] ELSE calls[j - Len(wire)]
  BY <1>1, SentAfter, LenProperties
<1>3. ASSUME NEW j \in DOMAIN wire' PROVE wire'[j].amount \in Amounts
  <2>1. j \in 1..(Len(wire) + Len(calls))
    BY <1>2
  <2>2. CASE j <= Len(wire)
    <3>1. j \in DOMAIN wire /\ wire'[j] = wire[j]
      BY <1>2, <2>1, <2>2
    <3>2. QED
      BY <3>1 DEF Capped
  <2>3. CASE ~(j <= Len(wire))
    <3>1. j - Len(wire) \in DOMAIN calls /\ wire'[j] = calls[j - Len(wire)]
      BY <1>2, <2>1, <2>3
    <3>2. QED
      BY <3>1
  <2>4. QED
    BY <2>2, <2>3
<1>4. QED
  BY <1>1, <1>3

LEMMA UnfilledCapped ==
  ASSUME IInv, Capped, NEW o \in Orders,
         Submitted(o) \/ \E to \in Final : EndedUnfilled(o, to)
  PROVE  Capped'
<1>1. Typing /\ order \in [Orders -> [ids : 0..MaxSubmits, sent : SUBSET Final]]
  BY DEF IInv, Typing
<1>2. book' = book /\ book \in Nat
  BY <1>1 DEF Submitted, EndedUnfilled, Typing
<1>3. PICK r \in Records, to \in Statuses : Persist(<<Look(r, to, 0)>>)
  <2>1. ASSUME Submitted(o)
        PROVE  \E r \in Records, to \in Statuses : Persist(<<Look(r, to, 0)>>)
    <3>1. order[o].ids + 1 \in 0..MaxSubmits
      BY <1>1, <2>1, OrderFields, Constants DEF Submitted
    <3>2. <<o, order[o].ids + 1>> \in Records /\ "submitted" \in Statuses
      BY <3>1 DEF Records, OrderIds, Statuses
    <3>3. QED
      BY <2>1, <3>2 DEF Submitted, PersistOrder
  <2>2. ASSUME NEW to \in Final, EndedUnfilled(o, to)
        PROVE  \E r \in Records, st \in Statuses : Persist(<<Look(r, st, 0)>>)
    <3>1. <<o, order[o].ids>> \in Records /\ to \in Statuses
      BY <1>1, OrderFields DEF Records, OrderIds, Statuses
    <3>2. QED
      BY <2>2, <3>1 DEF EndedUnfilled, PersistOrder
  <2>3. QED
    BY <2>1, <2>2
<1>4. 0 \in Amounts
  BY FilledCount DEF Amounts
<1> DEFINE c == Look(r, to, 0)
<1>5. c \in Call /\ c.amount = 0
  BY LookTyped
<1>6. Persist(<<c>>)
  BY <1>3
<1> HIDE DEF c
<1>7. <<c>> \in Seq(Call) /\ \A i \in DOMAIN <<c>> : <<c>>[i].amount \in Amounts
  BY <1>4, <1>5
<1>8. /\ \A i \in DOMAIN wire' : wire'[i].amount \in Amounts
      /\ hash' = hash /\ mishaps' = mishaps
  BY <1>1, <1>6, <1>7, PersistCapped
<1>9. FilledOrders \subseteq FilledOrders' /\ FilledOrders' \in SUBSET Orders
  <2>1. ASSUME NEW q \in Orders PROVE order[q].sent \subseteq order'[q].sent
    <3>1. \/ order' = [order EXCEPT ![o].ids = order[o].ids + 1]
          \/ \E st : order' = [order EXCEPT ![o] =
                                  [ids |-> order[o].ids, sent |-> order[o].sent \cup {st}]]
      BY <1>1 DEF Submitted, EndedUnfilled, Ended
    <3>2. CASE q # o
      BY <1>1, <3>1, <3>2
    <3>3. CASE q = o
      <4>1. CASE order' = [order EXCEPT ![o].ids = order[o].ids + 1]
        BY <1>1, <3>3, <4>1
      <4>2. ASSUME NEW st, order' = [order EXCEPT ![o] =
                               [ids |-> order[o].ids, sent |-> order[o].sent \cup {st}]]
            PROVE  order[q].sent \subseteq order'[q].sent
        BY <1>1, <3>3, <4>2
      <4>3. QED
        BY <3>1, <4>1, <4>2
    <3>4. QED
      BY <3>2, <3>3
  <2>2. QED
    BY <2>1 DEF FilledOrders, Orders
<1>10. book' <= Cardinality(FilledOrders')
  BY <1>2, <1>9, FilledCount, CountGrows DEF Capped
<1>11. QED
  BY <1>8, <1>10 DEF Capped, Amounts, Orders, Records, OrderIds

LEMMA FilledCapped ==
  ASSUME IInv, Capped, NEW o \in Orders, Filled(o)
  PROVE  Capped'
<1> DEFINE n == IF o \in Markets THEN 1 ELSE order[o].ids
           amount == Applied(o)
           st == IF amount > 0 THEN "open" ELSE "closed"
           c == Look(<<o, n>>, "filled", 0)
           p == Look(Position, st, amount)
<1>1. /\ Typing /\ order \in [Orders -> [ids : 0..MaxSubmits, sent : SUBSET Final]]
      /\ book \in Nat /\ book <= Cardinality(FilledOrders)
  BY DEF IInv, Typing, Capped
<1>2. /\ book' = amount /\ "filled" \notin order[o].sent
      /\ Ended(o, n, "filled") /\ Persist(<<c, p>>)
  BY DEF Filled, Active, PersistOrder, SyncPosition
<1>3. amount \in Nat /\ amount <= book + 1
  BY <1>1 DEF Applied
<1>4. n \in 0..MaxSubmits
  BY <1>1, OrderFields, Constants
<1>5. order' = [order EXCEPT ![o] = [ids |-> n, sent |-> order[o].sent \cup {"filled"}]]
  BY <1>1, <1>2 DEF Ended
<1> HIDE DEF n
<1>6. /\ FilledOrders' = FilledOrders \cup {o} /\ o \notin FilledOrders
      /\ FilledOrders' \in SUBSET Orders
  <2>1. /\ "filled" \in order'[o].sent
        /\ \A q \in Orders : q # o => order'[q] = order[q]
    BY <1>1, <1>5
  <2>2. QED
    BY <1>2, <2>1 DEF FilledOrders, Orders
<1>7. Cardinality(FilledOrders') = Cardinality(FilledOrders) + 1
  BY <1>6, FilledCount, FS_AddElement
<1>8. amount <= Cardinality(FilledOrders') /\ amount \in Amounts /\ 0 \in Amounts
  <2>1. Cardinality(FilledOrders') <= Cardinality(Orders)
    BY <1>6, RuntimePersistenceAssumption, FS_Subset
  <2> HIDE DEF amount
  <2>2. QED
    BY <1>1, <1>3, <1>7, <2>1, FilledCount DEF Amounts
<1>9. /\ <<o, n>> \in Records /\ Position \in Records
      /\ {"filled", "open", "closed"} \subseteq Statuses
  BY <1>4 DEF Records, OrderIds, Statuses, Final
<1>10. st \in Statuses
  BY <1>9
<1> HIDE DEF amount, st
<1>11. c \in Call /\ p \in Call /\ c.amount = 0 /\ p.amount = amount
  BY <1>3, <1>9, <1>10, LookTyped
<1> HIDE DEF c, p
<1>12. <<c, p>> \in Seq(Call) /\ \A i \in DOMAIN <<c, p>> : <<c, p>>[i].amount \in Amounts
  <2>1. <<c, p>> \in Seq(Call) /\ DOMAIN <<c, p>> = {1, 2} /\ <<c, p>>[1] = c /\ <<c, p>>[2] = p
    BY <1>11
  <2>2. QED
    BY <1>8, <1>11, <2>1
<1>13. /\ \A i \in DOMAIN wire' : wire'[i].amount \in Amounts
       /\ hash' = hash /\ mishaps' = mishaps
  BY <1>1, <1>2, <1>12, PersistCapped
<1>14. QED
  BY <1>2, <1>8, <1>13 DEF Capped, Amounts, Orders, Records, OrderIds

\* an answer writes into a record what a call under way carries
LEMMA AnsweredCapped ==
  ASSUME IInv, Capped, Answer \/ Connection(CommandFails)
  PROVE  Capped'
<1>1. /\ Typing /\ 1 \in DOMAIN wire
      /\ GetById(1) \/ ReadOld(1) \/ Insert(1) \/ Update(1) \/ CommandFails(1)
  BY ConnectionAnswersHead DEF IInv
<1>2. wire[1].amount \in Amounts /\ wire[1].of \in Records
  BY <1>1, CallTyped DEF Capped
<1>3. ASSUME NEW d, Answered(d)
      PROVE  /\ \A i \in DOMAIN wire' : wire'[i].amount \in Amounts
             /\ FilledOrders' = FilledOrders /\ book' = book
  BY <1>3, Origins DEF Capped, Answered, FilledOrders, Orders
<1>4. \E d : Answered(d)
  BY <1>1, GetByIdAnswered, ReadOldAnswered, InsertAnswered, UpdateAnswered, FailsAnswered
<1>5. \A r \in Records : hash'[r].amount \in Amounts
  <2>1. CASE GetById(1) \/ ReadOld(1) \/ CommandFails(1)
    BY <2>1 DEF GetById, ReadOld, CommandFails, Capped
  <2>2. ASSUME Answered(wire[1]), hash'[wire[1].of].amount \in Amounts
        PROVE  \A r \in Records : hash'[r].amount \in Amounts
    BY <2>2 DEF Answered, Capped
  <2>3. CASE Insert(1)
    BY <1>1, <1>2, <2>2, <2>3, InsertAnswered
  <2>4. CASE Update(1)
    <3>1. Written(wire[1]).amount \in Amounts
      BY <1>2 DEF Written, Capped
    <3>2. QED
      BY <1>1, <1>2, <2>2, <2>4, <3>1, UpdateAnswered DEF Capped
  <2>5. QED
    BY <1>1, <2>1, <2>3, <2>4
<1>6. mishaps' <= MaxMishaps
  <2>1. mishaps' = mishaps \/ (mishaps < MaxMishaps /\ mishaps' = mishaps + 1)
    BY <1>1 DEF GetById, ReadOld, Insert, Update, CommandFails, Mishap
  <2>2. mishaps \in Nat /\ MaxMishaps \in Nat /\ mishaps <= MaxMishaps
    BY <1>1, RuntimePersistenceAssumption DEF Typing, Capped
  <2>3. QED
    BY <2>1, <2>2
<1>7. QED
  BY <1>3, <1>4, <1>5, <1>6 DEF Capped, Amounts, Orders, Records, OrderIds

LEMMA RestartCapped ==
  ASSUME IInv, Capped, Restart
  PROVE  Capped'
<1>1. book' = 0 /\ wire' = <<>> /\ hash' = hash
  BY DEF Restart
<1>2. mishaps' <= MaxMishaps
  <2>1. mishaps < MaxMishaps /\ mishaps' = mishaps + 1
    BY DEF Restart, Mishap
  <2>2. mishaps \in Nat /\ MaxMishaps \in Nat
    BY RuntimePersistenceAssumption DEF IInv, Typing
  <2>3. QED
    BY <2>1, <2>2
<1>3. 0 <= Cardinality(FilledOrders')
  <2>1. FilledOrders' \in SUBSET Orders /\ IsFiniteSet(Orders)
    BY RuntimePersistenceAssumption DEF FilledOrders, Orders
  <2>2. IsFiniteSet(FilledOrders')
    BY <2>1, FS_Subset
  <2>3. QED
    BY <2>2, FS_CardinalityType
<1>4. \A i \in DOMAIN wire' : wire'[i].amount \in Amounts
  <2>1. DOMAIN wire' = {}
    BY <1>1
  <2>2. QED
    BY <2>1
<1>5. \A r \in Records : hash'[r].amount \in Amounts
  BY <1>1 DEF Capped
<1>6. book' <= Cardinality(FilledOrders')
  BY <1>1, <1>3
<1>7. QED
  BY <1>2, <1>4, <1>5, <1>6 DEF Capped, Amounts, Orders, Records, OrderIds

\* The types of the records: nothing under way or at rest has a larger amount than there
\* are orders, for any orders, overlapping calls, failures and restarts.
THEOREM RecordTypes == Spec => []TypeOK
<1>1. Init => Capped
  <2> SUFFICES ASSUME Init PROVE Capped
    OBVIOUS
  <2>1. 0 \in Amounts /\ 0 <= Cardinality(FilledOrders) /\ MaxMishaps \in Nat
    BY FilledCount, RuntimePersistenceAssumption DEF Amounts
  <2>2. book = 0 /\ mishaps = 0 /\ DOMAIN wire = {} /\ \A r \in Records : hash[r].amount = 0
    BY DEF Init
  <2>3. QED
    BY <2>1, <2>2 DEF Capped
<1>2. IInv /\ Capped /\ [Next]_vars => Capped'
  <2> SUFFICES ASSUME IInv, Capped, [Next]_vars PROVE Capped'
    OBVIOUS
  <2>1. CASE UNCHANGED vars
    BY <2>1 DEF vars, Capped, FilledOrders, Amounts, Orders, Records, OrderIds
  <2>2. QED
    BY <2>1, UnfilledCapped, FilledCapped, AnsweredCapped, RestartCapped DEF Next
<1>3. IInv /\ Capped => TypeOK
  <2> SUFFICES ASSUME IInv, Capped PROVE TypeOK
    OBVIOUS
  <2>1. Typing
    BY DEF IInv
  <2>2. book \in Amounts /\ mishaps \in 0..MaxMishaps
    <3>1. book \in Nat /\ book <= Cardinality(FilledOrders) /\ mishaps \in Nat
          /\ mishaps <= MaxMishaps /\ MaxMishaps \in Nat
      BY <2>1, RuntimePersistenceAssumption DEF Typing, Capped
    <3>2. QED
      BY <3>1, FilledCount DEF Amounts
  <2>3. hash \in [Records -> [status : Statuses \cup {None}, amount : Amounts]]
    <3>1. ASSUME NEW r \in Records
          PROVE  hash[r] \in [status : Statuses \cup {None}, amount : Amounts]
      <4>1. hash[r] \in Record /\ hash[r].amount \in Amounts
        BY <2>1, HashTyped DEF Capped
      <4>2. QED
        BY <4>1 DEF Record
    <3>2. hash \in [Records -> Record]
      BY <2>1 DEF Typing
    <3>3. QED
      BY <3>1, <3>2
  <2>4. wire \in Seq(Command)
    <3>1. ASSUME NEW i \in DOMAIN wire PROVE wire[i] \in Command
      <4>1. wire[i] \in Call /\ wire[i].amount \in Amounts
        BY <2>1, CallTyped DEF Capped
      <4>2. QED
        BY <4>1 DEF Call, Command
    <3>2. wire \in Seq(Call) /\ DOMAIN wire = 1..Len(wire) /\ Len(wire) \in Nat
      BY <2>1, LenProperties DEF Typing
    <3>3. wire \in [1..Len(wire) -> Command]
      BY <3>1, <3>2
    <3>4. QED
      BY <3>2, <3>3
  <2>5. QED
    BY <2>1, <2>2, <2>3, <2>4 DEF Typing, TypeOK
<1>4. QED
  BY <1>1, <1>2, <1>3, Inductive, PTL DEF Spec

-----------------------------------------------------------------------------
(* TradeWriter *)

Job == [step : Steps, batch : Seq(Nat), retries : Int, flush : BOOLEAN, then : Steps, due : Nat]

WriterTyped ==
  /\ async \in BOOLEAN /\ buffer \in Seq(Nat) /\ isFlushing \in BOOLEAN
  /\ written \in Nat /\ accepted \in Nat /\ (async => written <= accepted)
  /\ jobs \in [Procs -> Job]
  /\ db \in Seq(Nat)
  /\ \A l \in late : l.batch \in Seq(Nat)

-----------------------------------------------------------------------------
(* Consecutive trades *)

LEMMA IdsAre ==
  ASSUME NEW a \in Nat, NEW b \in Nat, a <= b
  PROVE  /\ Ids(a, b) \in Seq(Nat) /\ Len(Ids(a, b)) = b - a
         /\ \A i \in 1..(b - a) : Ids(a, b)[i] = a + i
         /\ Range(Ids(a, b)) = (a + 1)..b
         /\ Ids(a, b) = <<>> <=> a = b
<1>1. b - a \in Nat
  OBVIOUS
<1>2. Ids(a, b) = [i \in 1..(b - a) |-> a + i]
  BY DEF Ids
<1>3. \A i \in 1..(b - a) : a + i \in Nat
  OBVIOUS
<1>4. Ids(a, b) \in Seq(Nat) /\ Len(Ids(a, b)) = b - a /\ DOMAIN Ids(a, b) = 1..(b - a)
  BY <1>1, <1>2, <1>3
<1>5. \A i \in 1..(b - a) : Ids(a, b)[i] = a + i
  BY <1>2
<1>6. Range(Ids(a, b)) = (a + 1)..b
  <2>1. ASSUME NEW x \in (a + 1)..b PROVE x \in Range(Ids(a, b))
    <3>1. x - a \in 1..(b - a) /\ a + (x - a) = x
      OBVIOUS
    <3>2. QED
      BY <1>4, <1>5, <3>1 DEF Range
  <2>2. ASSUME NEW x \in Range(Ids(a, b)) PROVE x \in (a + 1)..b
    <3>1. PICK i \in 1..(b - a) : x = a + i
      BY <1>4, <1>5, <2>2 DEF Range
    <3>2. QED
      BY <3>1
  <2>3. QED
    BY <2>1, <2>2
<1>7. Ids(a, b) = <<>> <=> a = b
  BY <1>4, EmptySeq
<1>8. QED
  BY <1>4, <1>5, <1>6, <1>7

LEMMA IdsJoin ==
  ASSUME NEW a \in Nat, NEW b \in Nat, NEW c \in Nat, a <= b, b <= c
  PROVE  Ids(a, b) \o Ids(b, c) = Ids(a, c)
<1> DEFINE x == Ids(a, b)
           y == Ids(b, c)
           z == Ids(a, c)
<1>1. /\ x \in Seq(Nat) /\ Len(x) = b - a /\ \A i \in 1..(b - a) : x[i] = a + i
      /\ y \in Seq(Nat) /\ Len(y) = c - b /\ \A i \in 1..(c - b) : y[i] = b + i
      /\ z \in Seq(Nat) /\ Len(z) = c - a /\ \A i \in 1..(c - a) : z[i] = a + i
  <2>1. a <= c
    OBVIOUS
  <2>2. x \in Seq(Nat) /\ Len(x) = b - a /\ \A i \in 1..(b - a) : x[i] = a + i
    BY IdsAre
  <2>3. y \in Seq(Nat) /\ Len(y) = c - b /\ \A i \in 1..(c - b) : y[i] = b + i
    BY IdsAre
  <2>4. z \in Seq(Nat) /\ Len(z) = c - a /\ \A i \in 1..(c - a) : z[i] = a + i
    BY <2>1, IdsAre
  <2>5. QED
    BY <2>2, <2>3, <2>4
<1> HIDE DEF x, y, z
<1>2. /\ x \o y \in Seq(Nat) /\ Len(x \o y) = c - a
      /\ \A i \in 1..(c - a) : (x \o y)[i] = IF i <= b - a THEN x[i] ELSE y[i - (b - a)]
  <2>1. x \in Seq(Nat) /\ y \in Seq(Nat) /\ Len(x) = b - a /\ Len(y) = c - b
    BY <1>1
  <2>2. /\ x \o y \in Seq(Nat) /\ Len(x \o y) = Len(x) + Len(y)
        /\ \A i \in 1..(Len(x) + Len(y)) :
             (x \o y)[i] = IF i <= Len(x) THEN x[i] ELSE y[i - Len(x)]
    BY <2>1, ConcatProperties
  <2>3. (b - a) + (c - b) = c - a
    OBVIOUS
  <2>4. QED
    BY <2>1, <2>2, <2>3
<1>3. \A i \in 1..(c - a) : (x \o y)[i] = a + i
  <2>1. TAKE i \in 1..(c - a)
  <2>2. CASE i <= b - a
    <3>1. i \in 1..(b - a)
      BY <2>2
    <3>2. QED
      BY <1>1, <1>2, <2>2, <3>1
  <2>3. CASE i > b - a
    <3>1. i - (b - a) \in 1..(c - b) /\ b + (i - (b - a)) = a + i
      BY <2>3
    <3>2. ~(i <= b - a)
      BY <2>3
    <3>3. QED
      BY <1>1, <1>2, <3>1, <3>2
  <2>4. (i <= b - a) \/ (i > b - a)
    OBVIOUS
  <2>5. QED
    BY <2>2, <2>3, <2>4
<1>4. x \o y = z
  <2>1. x \o y \in Seq(Nat) /\ z \in Seq(Nat) /\ Len(x \o y) = Len(z)
    BY <1>1, <1>2
  <2>2. \A i \in 1..Len(x \o y) : (x \o y)[i] = z[i]
    BY <1>1, <1>2, <1>3
  <2>3. QED
    BY <2>1, <2>2, SeqEqual
<1>5. QED
  BY <1>4 DEF x, y, z

LEMMA RangeJoin ==
  ASSUME NEW x \in Seq(Nat), NEW y \in Seq(Nat)
  PROVE  Range(x \o y) = Range(x) \cup Range(y)
<1>1. /\ x \o y \in Seq(Nat) /\ Len(x \o y) = Len(x) + Len(y) /\ Len(x) \in Nat /\ Len(y) \in Nat
      /\ DOMAIN (x \o y) = 1..(Len(x) + Len(y)) /\ DOMAIN x = 1..Len(x) /\ DOMAIN y = 1..Len(y)
      /\ \A i \in 1..(Len(x) + Len(y)) :
           (x \o y)[i] = IF i <= Len(x) THEN x[i] ELSE y[i - Len(x)]
  OBVIOUS
<1>2. ASSUME NEW e \in Range(x \o y) PROVE e \in Range(x) \cup Range(y)
  <2>1. PICK i \in 1..(Len(x) + Len(y)) : e = (x \o y)[i]
    BY <1>1, <1>2 DEF Range
  <2>2. CASE i <= Len(x)
    BY <1>1, <2>1, <2>2 DEF Range
  <2>3. CASE i > Len(x)
    <3>1. i - Len(x) \in 1..Len(y) /\ e = y[i - Len(x)]
      BY <1>1, <2>1, <2>3
    <3>2. QED
      BY <1>1, <3>1 DEF Range
  <2>4. QED
    BY <1>1, <2>2, <2>3
<1>3. ASSUME NEW e \in Range(x) PROVE e \in Range(x \o y)
  <2>1. PICK i \in 1..Len(x) : e = x[i]
    BY <1>1, <1>3 DEF Range
  <2>2. i \in 1..(Len(x) + Len(y)) /\ (x \o y)[i] = e
    BY <1>1, <2>1
  <2>3. QED
    BY <1>1, <2>2 DEF Range
<1>4. ASSUME NEW e \in Range(y) PROVE e \in Range(x \o y)
  <2>1. PICK i \in 1..Len(y) : e = y[i]
    BY <1>1, <1>4 DEF Range
  <2>2. /\ Len(x) + i \in 1..(Len(x) + Len(y)) /\ ~(Len(x) + i <= Len(x)) /\ Len(x) + i - Len(x) = i
    BY <1>1, <2>1
  <2>3. (x \o y)[Len(x) + i] = e
    BY <1>1, <2>1, <2>2
  <2>4. QED
    BY <1>1, <2>2, <2>3 DEF Range
<1>5. QED
  BY <1>2, <1>3, <1>4

-----------------------------------------------------------------------------
(* The invariant *)

\* isFlushing is up exactly while a flush is awaited, and one is at a time
OneFlush ==
  /\ isFlushing <=> \E p \in Procs : jobs[p].flush
  /\ \A p, q \in Procs : jobs[p].flush /\ jobs[q].flush => p = q

\* where a flush may be, and what a process that awaits no insert has written
Resting == {"idle", "check", "stopping"}
JobRight(p) ==
  /\ jobs[p].then \in Resting
  /\ jobs[p].flush => jobs[p].step \notin Resting
  /\ async /\ jobs[p].step \notin Resting => jobs[p].flush
  /\ jobs[p].step \in Resting => Range(jobs[p].batch) \subseteq Range(db)
JobsRight == \A p \in Procs : JobRight(p)

\* the trades that are not counted yet: those of the flush, then those of the buffer
Flight == async =>
  /\ ~isFlushing => buffer = Ids(written, accepted)
  /\ \A p \in Procs : jobs[p].flush =>
       \E m \in written..accepted : jobs[p].batch = Ids(written, m) /\ buffer = Ids(m, accepted)

\* the table holds the first trades, at least those that are counted, and an insert
\* that may still arrive begins with one that is counted or comes next
Prefix == async =>
  /\ \E k \in written..accepted : Range(db) = 1..k
  /\ \A l \in late : \E a \in 0..written, b \in 0..accepted : a <= b /\ l.batch = Ids(a, b)

WriterInv == WriterTyped /\ OneFlush /\ JobsRight /\ Flight /\ Prefix

-----------------------------------------------------------------------------
(* What the actions do to the jobs *)

Others(p) == \A q \in Procs : q # p => jobs'[q] = jobs[q]

\* p awaits no insert any more
Rests(p) == /\ jobs' \in [Procs -> Job] /\ Others(p)
            /\ jobs'[p].step \in Resting /\ jobs'[p].batch = <<>> /\ ~jobs'[p].flush
            /\ jobs'[p].then \in Resting
\* p awaits the insert of b, in flush() or directly
Inserts(p, b, f) == /\ jobs' \in [Procs -> Job] /\ Others(p)
                    /\ jobs'[p].step = "insert" /\ jobs'[p].batch = b /\ jobs'[p].flush = f
                    /\ jobs'[p].then \in Resting
\* b stays in the buffer or goes into a flush of p
HandsOn(p, b) ==
  \/ buffer' = b /\ UNCHANGED isFlushing /\ Rests(p)
  \/ ~isFlushing /\ isFlushing' = TRUE /\ buffer' = <<>> /\ Inserts(p, b, TRUE)

LEMMA IdleTyped == /\ Idle \in Job /\ Resting \subseteq Steps
                   /\ "insert" \in Steps /\ "delay" \in Steps
                   /\ "insert" \notin Resting /\ "delay" \notin Resting
BY EmptySeq DEF Idle, Job, Resting, Steps

LEMMA Flushes ==
  ASSUME WriterTyped, NEW p \in Procs, NEW b \in Seq(Nat), NEW place \in Resting,
         FlushThen(p, b, place)
  PROVE  HandsOn(p, b)
<1>1. jobs \in [Procs -> Job] /\ accepted \in Nat
  BY DEF WriterTyped
<1>2. CASE isFlushing \/ b = <<>>
  <2> DEFINE j == [Idle EXCEPT !.step = place, !.due = accepted]
  <2>1. j.step = place /\ j.batch = <<>> /\ j.flush = FALSE /\ j.then = "idle"
    BY DEF Idle
  <2>2. j \in Job
    BY <1>1, IdleTyped DEF Job
  <2>3. jobs' = [jobs EXCEPT ![p] = j] /\ buffer' = b /\ UNCHANGED isFlushing
    BY <1>2 DEF FlushThen
  <2> HIDE DEF j
  <2>4. jobs' \in [Procs -> Job] /\ Others(p) /\ jobs'[p] = j
    BY <1>1, <2>2, <2>3 DEF Others
  <2>5. QED
    BY <2>1, <2>3, <2>4 DEF HandsOn, Rests, Resting
<1>3. CASE ~(isFlushing \/ b = <<>>)
  <2> DEFINE j == [Idle EXCEPT !.step = "insert", !.batch = b,
                         !.flush = TRUE, !.then = place, !.due = accepted]
  <2>1. j.step = "insert" /\ j.batch = b /\ j.flush = TRUE /\ j.then = place
    BY DEF Idle
  <2>2. j \in Job
    BY <1>1, IdleTyped DEF Job
  <2>3. jobs' = [jobs EXCEPT ![p] = j] /\ buffer' = <<>> /\ isFlushing' = TRUE
    BY <1>3 DEF FlushThen
  <2> HIDE DEF j
  <2>4. jobs' \in [Procs -> Job] /\ Others(p) /\ jobs'[p] = j
    BY <1>1, <2>2, <2>3 DEF Others
  <2>5. QED
    BY <1>3, <2>1, <2>3, <2>4 DEF HandsOn, Inserts
<1>4. QED
  BY <1>2, <1>3

LEMMA Stays ==
  ASSUME WriterTyped, NEW p \in Procs, NEW b \in Seq(Nat),
         buffer' = b, jobs' = [jobs EXCEPT ![p] = Idle], UNCHANGED isFlushing
  PROVE  HandsOn(p, b)
<1>1. jobs \in [Procs -> Job]
  BY DEF WriterTyped
<1>2. jobs' \in [Procs -> Job] /\ Others(p) /\ jobs'[p] = Idle
  BY <1>1, IdleTyped DEF Others
<1>3. QED
  BY <1>2 DEF HandsOn, Rests, Idle, Resting

LEMMA Directly ==
  ASSUME WriterTyped, NEW p \in Procs, NEW b \in Seq(Nat), WriteDirectly(p, b)
  PROVE  Inserts(p, b, FALSE) /\ UNCHANGED <<buffer, isFlushing>>
<1> DEFINE j == [Idle EXCEPT !.step = "insert", !.batch = b]
<1>1. jobs \in [Procs -> Job]
  BY DEF WriterTyped
<1>2. j.step = "insert" /\ j.batch = b /\ j.flush = FALSE /\ j.then = "idle"
  BY DEF Idle
<1>3. j \in Job
  BY IdleTyped DEF Job
<1>4. jobs' = [jobs EXCEPT ![p] = j] /\ UNCHANGED <<buffer, isFlushing>>
  BY DEF WriteDirectly
<1> HIDE DEF j
<1>5. jobs' \in [Procs -> Job] /\ Others(p) /\ jobs'[p] = j
  BY <1>1, <1>3, <1>4 DEF Others
<1>6. QED
  BY <1>2, <1>4, <1>5 DEF Inserts, Resting

-----------------------------------------------------------------------------
(* Trades are handed over *)

LEMMA HandedOn ==
  ASSUME WriterInv, NEW p \in Procs, ~jobs[p].flush, NEW b \in Seq(Nat), HandsOn(p, b),
         accepted' \in Nat, accepted <= accepted',
         async => b = buffer \o Ids(accepted, accepted'),
         UNCHANGED <<async, written, db, late>>
  PROVE  WriterInv'
<1>1. WriterTyped /\ OneFlush /\ JobsRight /\ Flight /\ Prefix
  BY DEF WriterInv
<1>2. jobs' \in [Procs -> Job] /\ Others(p) /\ buffer' \in Seq(Nat) /\ isFlushing' \in BOOLEAN
  BY <1>1, EmptySeq DEF HandsOn, Rests, Inserts, WriterTyped
<1>3. WriterTyped'
  BY <1>1, <1>2 DEF WriterTyped
<1>4. OneFlush'
  <2>1. CASE UNCHANGED isFlushing /\ Rests(p)
    BY <1>1, <1>2, <2>1 DEF OneFlush, Rests, Others
  <2>2. CASE ~isFlushing /\ isFlushing' = TRUE /\ Inserts(p, b, TRUE)
    BY <1>1, <1>2, <2>2 DEF OneFlush, Inserts, Others
  <2>3. QED
    BY <2>1, <2>2 DEF HandsOn
<1>5. JobsRight'
  <2>1. ASSUME NEW q \in Procs, q # p PROVE JobRight(q)'
    BY <1>1, <1>2, <2>1 DEF JobsRight, JobRight, Others
  <2>2. JobRight(p)'
    <3>1. Range(<<>>) = {}
      BY DEF Range
    <3>2. CASE Rests(p)
      BY <3>1, <3>2 DEF Rests, JobRight
    <3>3. CASE Inserts(p, b, TRUE)
      BY <3>3, IdleTyped DEF Inserts, JobRight
    <3>4. QED
      BY <3>2, <3>3 DEF HandsOn
  <2>3. QED
    BY <2>1, <2>2 DEF JobsRight
<1>6. ASSUME async PROVE Flight'
  <2>1. written \in Nat /\ accepted \in Nat /\ written <= accepted /\ b = buffer \o Ids(accepted, accepted')
    BY <1>1, <1>6 DEF WriterTyped
  <2>2. ~isFlushing => b = Ids(written, accepted')
    <3>1. ~isFlushing => buffer = Ids(written, accepted)
      BY <1>1, <1>6 DEF Flight
    <3>2. Ids(written, accepted) \o Ids(accepted, accepted') = Ids(written, accepted')
      BY <2>1, IdsJoin
    <3>3. QED
      BY <2>1, <3>1, <3>2
  <2>3. CASE buffer' = b /\ UNCHANGED isFlushing /\ Rests(p)
    <3>1. ASSUME NEW q \in Procs, jobs'[q].flush
          PROVE  \E m \in written..accepted' : jobs'[q].batch = Ids(written, m) /\ b = Ids(m, accepted')
      <4>1. q # p /\ jobs'[q] = jobs[q]
        BY <1>2, <2>3, <3>1 DEF Rests, Others
      <4>2. PICK m \in written..accepted : jobs[q].batch = Ids(written, m) /\ buffer = Ids(m, accepted)
        BY <1>1, <1>6, <3>1, <4>1 DEF Flight
      <4>3. m \in Nat /\ m <= accepted /\ m \in written..accepted'
        BY <2>1, <4>2
      <4>4. Ids(m, accepted) \o Ids(accepted, accepted') = Ids(m, accepted')
        BY <2>1, <4>3, IdsJoin
      <4>5. QED
        BY <2>1, <4>1, <4>2, <4>3, <4>4
    <3>2. QED
      BY <1>6, <2>2, <2>3, <3>1 DEF Flight
  <2>4. CASE ~isFlushing /\ isFlushing' = TRUE /\ buffer' = <<>> /\ Inserts(p, b, TRUE)
    <3>1. accepted' \in written..accepted' /\ Ids(accepted', accepted') = <<>>
      BY <2>1, IdsAre
    <3>2. \A q \in Procs : jobs'[q].flush => q = p
      BY <1>1, <1>2, <2>4 DEF OneFlush, Others
    <3>3. jobs'[p].batch = Ids(written, accepted')
      BY <2>2, <2>4 DEF Inserts
    <3>4. \A q \in Procs : jobs'[q].flush => 
            \E m \in written..accepted' : jobs'[q].batch = Ids(written, m) /\ buffer' = Ids(m, accepted')
      BY <2>4, <3>1, <3>2, <3>3
    <3>5. QED
      BY <2>4, <3>4 DEF Flight
  <2>5. QED
    BY <2>3, <2>4 DEF HandsOn
<1>7. ASSUME async PROVE Prefix'
  <2>1. written \in Nat /\ accepted \in Nat /\ written <= accepted
    BY <1>1, <1>7 DEF WriterTyped
  <2>2. written..accepted \subseteq written..accepted' /\ 0..accepted \subseteq 0..accepted'
    BY <2>1
  <2>3. PICK k \in written..accepted : Range(db) = 1..k
    BY <1>1, <1>7 DEF Prefix
  <2>4. \A l \in late : \E c \in 0..written, d \in 0..accepted : c <= d /\ l.batch = Ids(c, d)
    BY <1>1, <1>7 DEF Prefix
  <2>5. \A l \in late : \E c \in 0..written, d \in 0..accepted' : c <= d /\ l.batch = Ids(c, d)
    BY <2>2, <2>4
  <2>6. k \in written..accepted' /\ Range(db') = 1..k
    BY <2>2, <2>3
  <2>7. QED
    BY <2>5, <2>6 DEF Prefix
<1>8. ~async => Flight' /\ Prefix'
  BY DEF Flight, Prefix
<1>9. QED
  BY <1>3, <1>4, <1>5, <1>6, <1>7, <1>8 DEF WriterInv

\* nothing is handed over: the buffer stays or goes into a flush of p
LEMMA NothingHandedOn ==
  ASSUME WriterInv, NEW p \in Procs, jobs[p].step \in Resting, HandsOn(p, buffer),
         UNCHANGED <<async, written, accepted, db, late>>
  PROVE  WriterInv'
<1>1. ~jobs[p].flush /\ buffer \in Seq(Nat) /\ accepted \in Nat
  BY DEF WriterInv, WriterTyped, JobsRight, JobRight
<1>2. Ids(accepted, accepted) = <<>>
  BY <1>1, IdsAre
<1>3. buffer = buffer \o Ids(accepted, accepted')
  BY <1>1, <1>2
<1>4. QED
  BY <1>1, <1>3, HandedOn

LEMMA CalmSteps ==
  ASSUME WriterInv, Stop \/ StopReturns \/ Tick \/ \E p \in Callers : CheckOverflow(p)
  PROVE  WriterInv'
<1>1. /\ WriterTyped /\ buffer \in Seq(Nat)
      /\ Stopper \in Procs /\ Timer \in Procs /\ Callers \subseteq Procs
      /\ {"stopping", "idle"} \subseteq Resting /\ jobs \in [Procs -> Job]
  BY DEF WriterInv, WriterTyped, Procs, Resting
<1>2. CASE Stop
  BY <1>1, <1>2, Flushes, NothingHandedOn DEF Stop, IsFree
<1>3. CASE StopReturns
  <2>1. jobs[Stopper].step \in Resting
    BY <1>3 DEF StopReturns, Resting
  <2>2. HandsOn(Stopper, buffer)
    BY <1>1, <1>3, Stays DEF StopReturns
  <2>3. QED
    BY <1>1, <1>3, <2>1, <2>2, NothingHandedOn DEF StopReturns
<1>4. CASE Tick
  <2>1. jobs[Timer].step \in Resting
    <3>1. ~jobs[Timer].flush /\ async
      BY <1>1, <1>4 DEF Tick, WriterInv, OneFlush
    <3>2. QED
      BY <1>1, <3>1 DEF WriterInv, JobsRight, JobRight
  <2>2. HandsOn(Timer, buffer)
    BY <1>1, <1>4, Flushes DEF Tick
  <2>3. QED
    BY <1>1, <1>4, <2>1, <2>2, NothingHandedOn DEF Tick
<1>5. CASE \E p \in Callers : CheckOverflow(p)
  <2>1. PICK p \in Callers : CheckOverflow(p)
    BY <1>5
  <2>2. jobs[p].step \in Resting
    BY <2>1 DEF CheckOverflow, Resting
  <2>3. HandsOn(p, buffer)
    <3>1. CASE FlushThen(p, buffer, "idle")
      BY <1>1, <2>1, <3>1, Flushes
    <3>2. CASE jobs' = [jobs EXCEPT ![p] = Idle] /\ UNCHANGED <<buffer, isFlushing>>
      BY <1>1, <2>1, <3>2, Stays
    <3>3. QED
      BY <2>1, <3>1, <3>2 DEF CheckOverflow
  <2>4. QED
    BY <1>1, <2>1, <2>2, <2>3, NothingHandedOn DEF CheckOverflow
<1>6. QED
  BY <1>2, <1>3, <1>4, <1>5

\* the synchronous mode: nothing is promised of the order
LEMMA WrittenDirectly ==
  ASSUME WriterInv, ~async, NEW p \in Procs, jobs[p].step \in Resting, NEW b \in Seq(Nat),
         WriteDirectly(p, b), accepted' \in Nat, UNCHANGED <<async, written, db, late>>
  PROVE  WriterInv'
<1>1. WriterTyped /\ OneFlush /\ JobsRight /\ ~jobs[p].flush
  BY DEF WriterInv, JobsRight, JobRight
<1>2. Inserts(p, b, FALSE) /\ UNCHANGED <<buffer, isFlushing>>
  BY <1>1, Directly
<1>3. WriterTyped'
  BY <1>1, <1>2 DEF WriterTyped, Inserts
<1>4. OneFlush'
  BY <1>1, <1>2 DEF OneFlush, Inserts, Others
<1>5. \A q \in Procs : q # p => JobRight(q)'
  BY <1>1, <1>2 DEF JobsRight, JobRight, Inserts, Others
<1>6. JobRight(p)'
  BY <1>2, IdleTyped DEF JobRight, Inserts
<1>7. JobsRight'
  BY <1>5, <1>6 DEF JobsRight
<1>8. Flight' /\ Prefix'
  BY DEF Flight, Prefix
<1>9. QED
  BY <1>3, <1>4, <1>7, <1>8 DEF WriterInv

LEMMA WriteSteps ==
  ASSUME WriterInv, NEW p \in Callers, Write(p) \/ \E n \in Sizes : WriteMany(p, n)
  PROVE  WriterInv'
<1>1. WriterTyped /\ buffer \in Seq(Nat) /\ p \in Procs /\ accepted \in Nat /\ async \in BOOLEAN
      /\ {"check", "idle"} \subseteq Resting
  BY DEF WriterInv, WriterTyped, Procs, Resting
<1>2. jobs[p].step \in Resting /\ ~jobs[p].flush
  BY <1>1 DEF Write, WriteMany, IsFree, WriterInv, JobsRight, JobRight, Resting
<1>3. UNCHANGED <<async, written, db, late>>
  BY DEF Write, WriteMany
<1>4. ASSUME Write(p) PROVE WriterInv'
  <2> DEFINE b == Append(buffer, accepted + 1)
  <2>1. accepted' = accepted + 1 /\ accepted + 1 \in Nat /\ b \in Seq(Nat) /\ <<accepted + 1>> \in Seq(Nat)
    BY <1>1, <1>4 DEF Write
  <2>2. CASE ~async
    <3>1. WriteDirectly(p, <<accepted + 1>>)
      BY <1>4, <2>2 DEF Write
    <3>2. QED
      BY <1>1, <1>2, <1>3, <2>1, <2>2, <3>1, WrittenDirectly
  <2>3. CASE async
    <3>1. b = buffer \o Ids(accepted, accepted')
      <4>1. Ids(accepted, accepted + 1) = <<accepted + 1>>
        BY <1>1 DEF Ids
      <4>2. Append(buffer, accepted + 1) = buffer \o <<accepted + 1>>
        BY <1>1, <2>1
      <4>3. QED
        BY <2>1, <4>1, <4>2
    <3>2. \/ FlushThen(p, b, "check") \/ FlushThen(p, b, "idle")
          \/ buffer' = b /\ jobs' = [jobs EXCEPT ![p] = Idle] /\ UNCHANGED isFlushing
      BY <1>4, <2>3 DEF Write
    <3> HIDE DEF b
    <3>3. HandsOn(p, b)
      BY <1>1, <2>1, <3>2, Flushes, Stays
    <3>4. accepted' \in Nat /\ accepted <= accepted'
      BY <1>1, <2>1
    <3>5. QED
      BY <1>1, <1>2, <1>3, <2>1, <3>1, <3>3, <3>4, HandedOn
  <2>4. QED
    BY <2>2, <2>3
<1>5. ASSUME NEW n \in Sizes, WriteMany(p, n) PROVE WriterInv'
  <2> DEFINE t == Ids(accepted, accepted + n)
             b == buffer \o t
  <2>1. accepted' = accepted + n /\ accepted + n \in Nat /\ accepted <= accepted + n
    BY <1>1, <1>5, TradeWriterAssumption DEF WriteMany
  <2>2. t \in Seq(Nat)
    BY <1>1, <2>1, IdsAre
  <2>3. b \in Seq(Nat)
    BY <1>1, <2>2
  <2>4. CASE ~async
    <3>1. WriteDirectly(p, t)
      BY <1>5, <2>4 DEF WriteMany
    <3> HIDE DEF t
    <3>2. QED
      BY <1>1, <1>2, <1>3, <2>1, <2>2, <2>4, <3>1, WrittenDirectly
  <2>5. CASE async
    <3>1. b = buffer \o Ids(accepted, accepted')
      BY <2>1
    <3>2. \/ FlushThen(p, b, "idle")
          \/ buffer' = b /\ jobs' = [jobs EXCEPT ![p] = Idle] /\ UNCHANGED isFlushing
      BY <1>5, <2>5 DEF WriteMany
    <3> HIDE DEF b
    <3>3. HandsOn(p, b)
      BY <1>1, <2>3, <3>2, Flushes, Stays
    <3>4. QED
      BY <1>1, <1>2, <1>3, <2>1, <2>3, <3>1, <3>3, HandedOn
  <2>6. QED
    BY <2>4, <2>5
<1>6. QED
  BY <1>4, <1>5

-----------------------------------------------------------------------------
(* The inserts *)

LEMMA InsertedStep ==
  ASSUME WriterInv, NEW p \in Procs, Inserted(p)
  PROVE  WriterInv'
<1> DEFINE batch == jobs[p].batch
<1>1. /\ WriterTyped /\ OneFlush /\ JobsRight /\ Flight /\ Prefix /\ jobs[p] \in Job
      /\ batch \in Seq(Nat) /\ jobs[p].then \in Resting /\ jobs[p].then \in Steps
      /\ written \in Nat /\ accepted \in Nat /\ db \in Seq(Nat)
  BY IdleTyped DEF WriterInv, WriterTyped, JobsRight, JobRight, Job
<1>2. UNCHANGED <<async, buffer, accepted, late>> /\ db' = db \o batch
  BY DEF Inserted
<1>3. /\ jobs' \in [Procs -> Job] /\ Others(p)
      /\ jobs'[p].step = jobs[p].then /\ ~jobs'[p].flush /\ jobs'[p].batch = batch
      /\ jobs'[p].then = jobs[p].then
  <2> DEFINE j == [jobs[p] EXCEPT !.step = jobs[p].then, !.flush = FALSE]
  <2>1. j \in Job /\ j.step = jobs[p].then /\ ~j.flush /\ j.batch = batch /\ j.then = jobs[p].then
    BY <1>1 DEF Job
  <2>2. jobs' = [jobs EXCEPT ![p] = j]
    BY <1>1 DEF Inserted, WriterTyped
  <2> HIDE DEF j
  <2>3. QED
    BY <1>1, <2>1, <2>2 DEF WriterTyped, Others
<1>4. /\ db' \in Seq(Nat) /\ Range(db') = Range(db) \cup Range(batch)
  BY <1>1, <1>2, RangeJoin
<1>5. CASE jobs[p].flush
  <2>1. written' = written + Len(batch) /\ isFlushing' = FALSE
    BY <1>5 DEF Inserted
  <2>2. OneFlush'
    BY <1>1, <1>3, <1>5, <2>1 DEF OneFlush, Others
  <2>3. ASSUME async
        PROVE  /\ written' \in Nat /\ written' <= accepted /\ Flight' /\ Prefix'
    <3>1. PICK m \in written..accepted : batch = Ids(written, m) /\ buffer = Ids(m, accepted)
      BY <1>1, <1>5, <2>3 DEF Flight
    <3>2. m \in Nat /\ written <= m /\ m <= accepted
      BY <1>1, <3>1
    <3>3. Len(batch) = m - written /\ Range(batch) = (written + 1)..m
      BY <1>1, <3>1, <3>2, IdsAre
    <3>4. written' = m
      BY <1>1, <2>1, <3>2, <3>3
    <3>5. Flight'
      <4>1. \A q \in Procs : ~jobs'[q].flush
        BY <1>1, <1>3, <1>5 DEF OneFlush, Others
      <4>2. QED
        BY <1>2, <3>1, <3>4, <4>1 DEF Flight
    <3>6. PICK k \in written..accepted : Range(db) = 1..k
      BY <1>1, <2>3 DEF Prefix
    <3>7. PICK k2 \in m..accepted : Range(db') = 1..k2
      <4>1. CASE k <= m
        <5>1. Range(db') = 1..m
          BY <1>1, <1>4, <3>2, <3>3, <3>6, <4>1
        <5>2. m \in m..accepted
          BY <1>1, <3>2
        <5>3. QED
          BY <5>1, <5>2
      <4>2. CASE k > m
        <5>1. Range(db') = 1..k /\ k \in m..accepted
          BY <1>1, <1>4, <3>2, <3>3, <3>6, <4>2
        <5>2. QED
          BY <5>1
      <4>3. QED
        BY <1>1, <3>2, <3>6, <4>1, <4>2
    <3>8. \A l \in late : \E c \in 0..m, d \in 0..accepted : c <= d /\ l.batch = Ids(c, d)
      <4>1. \A l \in late : \E c \in 0..written, d \in 0..accepted : c <= d /\ l.batch = Ids(c, d)
        BY <1>1, <2>3 DEF Prefix
      <4>2. 0..written \subseteq 0..m
        BY <1>1, <3>2
      <4>3. QED
        BY <4>1, <4>2
    <3>9. Prefix'
      BY <1>2, <3>4, <3>7, <3>8 DEF Prefix
    <3>10. QED
      BY <3>2, <3>4, <3>5, <3>9
  <2>4. ~async => Flight' /\ Prefix'
    BY <1>2 DEF Flight, Prefix
  <2>5. written' \in Nat /\ (async => written' <= accepted)
    BY <1>1, <2>1, <2>3
  <2>6. WriterTyped'
    BY <1>1, <1>2, <1>3, <1>4, <2>1, <2>5 DEF WriterTyped
  <2>7. JobsRight'
    BY <1>1, <1>2, <1>3, <1>4 DEF JobsRight, JobRight, Others
  <2>8. QED
    BY <2>2, <2>3, <2>4, <2>6, <2>7 DEF WriterInv
<1>6. CASE ~jobs[p].flush
  <2>1. UNCHANGED <<written, isFlushing>> /\ ~async
    <3>1. jobs[p].step \notin Resting
      BY IdleTyped DEF Inserted
    <3>2. QED
      BY <1>1, <1>6, <3>1 DEF Inserted, JobsRight, JobRight
  <2>2. OneFlush'
    BY <1>1, <1>3, <1>6, <2>1 DEF OneFlush, Others
  <2>3. JobsRight'
    BY <1>1, <1>2, <1>3, <1>4 DEF JobsRight, JobRight, Others
  <2>4. WriterTyped'
    BY <1>1, <1>2, <1>3, <1>4, <2>1 DEF WriterTyped
  <2>5. QED
    BY <1>2, <2>1, <2>2, <2>3, <2>4 DEF WriterInv, Flight, Prefix
<1>7. QED
  BY <1>5, <1>6

\* an insert that is not confirmed, which may arrive later
LEMMA LateKept ==
  ASSUME WriterInv, NEW p \in Procs, NEW arrives \in BOOLEAN, InsertFails(p, arrives)
  PROVE  /\ \A l \in late' : l.batch \in Seq(Nat)
         /\ Prefix'
<1>1. WriterTyped /\ JobsRight /\ Flight /\ Prefix /\ jobs[p] \in Job /\ jobs[p].batch \in Seq(Nat)
      /\ written \in Nat /\ accepted \in Nat
  BY DEF WriterInv, WriterTyped, Job
<1>2. UNCHANGED <<async, written, accepted, db>>
  BY DEF InsertFails
<1>3. \A l \in late' : l \in late \/ l.batch = jobs[p].batch
  BY DEF InsertFails
<1>4. ASSUME async PROVE Prefix'
  <2>1. jobs[p].flush
    BY <1>1, <1>4, IdleTyped DEF InsertFails, JobsRight, JobRight
  <2>2. PICK m \in written..accepted : jobs[p].batch = Ids(written, m)
    BY <1>1, <1>4, <2>1 DEF Flight
  <2>3. written \in 0..written /\ m \in 0..accepted /\ written <= m
    BY <1>1, <2>2
  <2>4. \A l \in late' : \E c \in 0..written, d \in 0..accepted : c <= d /\ l.batch = Ids(c, d)
    BY <1>1, <1>3, <1>4, <2>2, <2>3 DEF Prefix
  <2>5. \E k \in written..accepted : Range(db) = 1..k
    BY <1>1, <1>4 DEF Prefix
  <2>6. QED
    BY <1>2, <2>4, <2>5 DEF Prefix
<1>5. QED
  BY <1>1, <1>2, <1>3, <1>4 DEF WriterTyped, Prefix

LEMMA FailedStep ==
  ASSUME WriterInv, NEW p \in Procs, NEW arrives \in BOOLEAN, InsertFails(p, arrives)
  PROVE  WriterInv'
<1> DEFINE batch == jobs[p].batch
<1>1. /\ WriterTyped /\ OneFlush /\ JobsRight /\ Flight /\ Prefix /\ jobs[p] \in Job
      /\ batch \in Seq(Nat) /\ jobs[p].then \in Resting
      /\ written \in Nat /\ accepted \in Nat /\ jobs[p].step = "insert" /\ buffer \in Seq(Nat)
  BY DEF WriterInv, WriterTyped, JobsRight, JobRight, Job, InsertFails
<1>2. UNCHANGED <<async, written, accepted, db>>
  BY DEF InsertFails
<1>3. (\A l \in late' : l.batch \in Seq(Nat)) /\ Prefix'
  BY LateKept
<1>4. CASE RetriesLeft(p)
  <2>1. UNCHANGED <<buffer, isFlushing>>
    BY <1>4 DEF InsertFails
  <2>2. /\ jobs' \in [Procs -> Job] /\ Others(p)
        /\ jobs'[p].step = "delay" /\ jobs'[p].flush = jobs[p].flush /\ jobs'[p].batch = batch
        /\ jobs'[p].then = jobs[p].then
    <3> DEFINE j == [jobs[p] EXCEPT !.step = "delay", !.retries = jobs[p].retries + 1]
    <3>1. /\ j \in Job /\ j.step = "delay" /\ j.flush = jobs[p].flush /\ j.batch = batch
          /\ j.then = jobs[p].then
      <4>1. jobs[p].retries + 1 \in Int
        BY <1>1 DEF Job
      <4>2. j \in Job
        BY <1>1, <4>1, IdleTyped DEF Job
      <4>3. QED
        BY <1>1, <4>2 DEF Job
    <3>2. jobs' = [jobs EXCEPT ![p] = j]
      BY <1>1, <1>4 DEF InsertFails, WriterTyped
    <3> HIDE DEF j
    <3>3. QED
      BY <1>1, <3>1, <3>2 DEF WriterTyped, Others
  <2>3. WriterTyped'
    BY <1>1, <1>2, <1>3, <2>1, <2>2 DEF WriterTyped
  <2>4. OneFlush'
    BY <1>1, <2>1, <2>2 DEF OneFlush, Others
  <2>5. JobsRight'
    BY <1>1, <1>2, <2>2, IdleTyped DEF JobsRight, JobRight, Others
  <2>6. Flight'
    BY <1>1, <1>2, <2>1, <2>2 DEF Flight, Others
  <2>7. QED
    BY <1>3, <2>3, <2>4, <2>5, <2>6 DEF WriterInv
<1>5. CASE ~RetriesLeft(p)
  <2>1. jobs' = [jobs EXCEPT ![p] = Idle]
    BY <1>5 DEF InsertFails, Rejected
  <2>2. /\ jobs' \in [Procs -> Job] /\ Others(p)
        /\ jobs'[p].step = "idle" /\ ~jobs'[p].flush /\ jobs'[p].batch = <<>>
        /\ jobs'[p].then = "idle"
    <3>1. jobs' \in [Procs -> Job] /\ Others(p) /\ jobs'[p] = Idle
      BY <1>1, <2>1, IdleTyped DEF WriterTyped, Others
    <3>2. QED
      BY <3>1 DEF Idle
  <2>3. JobsRight'
    <3>1. Range(<<>>) = {} /\ "idle" \in Resting
      BY DEF Range, Resting
    <3>2. QED
      BY <1>1, <1>2, <2>2, <3>1 DEF JobsRight, JobRight, Others
  <2>4. CASE jobs[p].flush
    <3>1. buffer' = batch \o buffer /\ isFlushing' = FALSE
      BY <1>5, <2>4 DEF InsertFails, Rejected
    <3>2. OneFlush' /\ \A q \in Procs : ~jobs'[q].flush
      BY <1>1, <2>2, <2>4, <3>1 DEF OneFlush, Others
    <3>3. ASSUME async PROVE buffer' = Ids(written, accepted)
      <4>1. PICK m \in written..accepted : batch = Ids(written, m) /\ buffer = Ids(m, accepted)
        BY <1>1, <2>4, <3>3 DEF Flight
      <4>2. m \in Nat /\ written <= m /\ m <= accepted
        BY <1>1, <4>1
      <4>3. QED
        BY <1>1, <3>1, <4>1, <4>2, IdsJoin
    <3>4. Flight'
      BY <1>2, <3>2, <3>3 DEF Flight
    <3>5. WriterTyped'
      <4>1. buffer' \in Seq(Nat)
        BY <1>1, <3>1
      <4>2. QED
        BY <1>1, <1>2, <1>3, <2>2, <3>1, <4>1 DEF WriterTyped
    <3>6. QED
      BY <1>3, <2>3, <3>2, <3>4, <3>5 DEF WriterInv
  <2>5. CASE ~jobs[p].flush
    <3>1. UNCHANGED <<buffer, isFlushing>>
      BY <1>5, <2>5 DEF InsertFails, Rejected
    <3>2. OneFlush'
      BY <1>1, <2>2, <2>5, <3>1 DEF OneFlush, Others
    <3>3. ~async
      BY <1>1, <2>5, IdleTyped DEF JobsRight, JobRight
    <3>4. WriterTyped'
      BY <1>1, <1>2, <1>3, <2>2, <3>1 DEF WriterTyped
    <3>5. QED
      BY <1>2, <1>3, <2>3, <3>2, <3>3, <3>4 DEF WriterInv, Flight
  <2>6. QED
    BY <2>4, <2>5
<1>6. QED
  BY <1>4, <1>5

LEMMA RetryStep ==
  ASSUME WriterInv, NEW p \in Procs, Retry(p)
  PROVE  WriterInv'
<1>1. WriterTyped /\ OneFlush /\ JobsRight /\ Flight /\ Prefix /\ jobs[p] \in Job /\ jobs[p].step = "delay"
  BY DEF WriterInv, WriterTyped, Retry
<1>2. UNCHANGED <<async, buffer, isFlushing, written, accepted, db, late>>
  BY DEF Retry
<1>3. /\ jobs' \in [Procs -> Job] /\ Others(p)
      /\ jobs'[p].step = "insert" /\ jobs'[p].flush = jobs[p].flush /\ jobs'[p].batch = jobs[p].batch
      /\ jobs'[p].then = jobs[p].then
  <2> DEFINE j == [jobs[p] EXCEPT !.step = "insert"]
  <2>1. /\ j \in Job /\ j.step = "insert" /\ j.flush = jobs[p].flush /\ j.batch = jobs[p].batch
        /\ j.then = jobs[p].then
    BY <1>1, IdleTyped DEF Job
  <2>2. jobs' = [jobs EXCEPT ![p] = j]
    BY <1>1 DEF Retry, WriterTyped
  <2> HIDE DEF j
  <2>3. QED
    BY <1>1, <2>1, <2>2 DEF WriterTyped, Others
<1>4. WriterTyped'
  BY <1>1, <1>2, <1>3 DEF WriterTyped
<1>5. OneFlush'
  BY <1>1, <1>2, <1>3 DEF OneFlush, Others
<1>6. JobsRight'
  BY <1>1, <1>2, <1>3, IdleTyped DEF JobsRight, JobRight, Others
<1>7. Flight'
  BY <1>1, <1>2, <1>3 DEF Flight, Others
<1>8. Prefix'
  BY <1>1, <1>2 DEF Prefix
<1>9. QED
  BY <1>4, <1>5, <1>6, <1>7, <1>8 DEF WriterInv

LEMMA ArrivesStep ==
  ASSUME WriterInv, ArrivesLate
  PROVE  WriterInv'
<1>1. /\ WriterTyped /\ OneFlush /\ JobsRight /\ Flight /\ Prefix /\ db \in Seq(Nat)
      /\ written \in Nat /\ accepted \in Nat
  BY DEF WriterInv, WriterTyped
<1>2. PICK l \in late : late' = late \ {l} /\ db' = db \o l.batch
  BY DEF ArrivesLate
<1>3. UNCHANGED <<async, buffer, isFlushing, written, accepted, jobs>>
  BY DEF ArrivesLate
<1>4. l.batch \in Seq(Nat) /\ db' \in Seq(Nat) /\ Range(db') = Range(db) \cup Range(l.batch)
  BY <1>1, <1>2, RangeJoin DEF WriterTyped
<1>5. WriterTyped'
  BY <1>1, <1>2, <1>3, <1>4 DEF WriterTyped
<1>6. OneFlush'
  BY <1>1, <1>3 DEF OneFlush
<1>7. JobsRight'
  BY <1>1, <1>3, <1>4 DEF JobsRight, JobRight
<1>8. Flight'
  BY <1>1, <1>3 DEF Flight
<1>9. ASSUME async PROVE Prefix'
  <2>1. PICK a \in 0..written, b \in 0..accepted : a <= b /\ l.batch = Ids(a, b)
    BY <1>1, <1>9 DEF Prefix
  <2>2. PICK k \in written..accepted : Range(db) = 1..k
    BY <1>1, <1>9 DEF Prefix
  <2>3. Range(l.batch) = (a + 1)..b /\ a <= k /\ k \in Nat /\ b \in Nat /\ a \in Nat
    <3>1. a <= k /\ k \in Nat /\ b \in Nat /\ a \in Nat
      BY <1>1, <2>1, <2>2
    <3>2. QED
      BY <2>1, <3>1, IdsAre
  <2>4. \E k2 \in written..accepted : Range(db') = 1..k2
    <3>1. CASE k <= b
      <4>1. Range(db') = 1..b /\ b \in written..accepted
        BY <1>1, <1>4, <2>1, <2>2, <2>3, <3>1
      <4>2. QED
        BY <4>1
    <3>2. CASE k > b
      <4>1. Range(db') = 1..k
        BY <1>1, <1>4, <2>1, <2>2, <2>3, <3>2
      <4>2. QED
        BY <2>2, <4>1
    <3>3. QED
      BY <2>3, <3>1, <3>2
  <2>5. QED
    BY <1>1, <1>2, <1>3, <1>9, <2>4 DEF Prefix
<1>10. ~async => Prefix'
  BY <1>3 DEF Prefix
<1>11. QED
  BY <1>5, <1>6, <1>7, <1>8, <1>9, <1>10 DEF WriterInv

LEMMA WriterSteps ==
  ASSUME WriterInv, [TWNext]_twvars
  PROVE  WriterInv'
<1>1. CASE Start
  <2>1. UNCHANGED <<async, buffer, isFlushing, written, accepted, jobs, db, late>>
    BY <1>1 DEF Start
  <2>2. QED
    BY <2>1 DEF WriterInv, WriterTyped, OneFlush, JobsRight, JobRight, Flight, Prefix
<1>2. CASE UNCHANGED twvars
  BY <1>2 DEF twvars, WriterInv, WriterTyped, OneFlush, JobsRight, JobRight, Flight, Prefix
<1>3. QED
  BY <1>1, <1>2, CalmSteps, WriteSteps, InsertedStep, FailedStep, RetryStep, ArrivesStep DEF TWNext

LEMMA WriterStarts ==
  ASSUME TWInit
  PROVE  WriterInv
<1>1. /\ async \in BOOLEAN /\ buffer = <<>> /\ isFlushing = FALSE /\ written = 0 /\ accepted = 0
      /\ jobs = [p \in Procs |-> Idle] /\ db = <<>> /\ late = {}
  BY TradeWriterAssumption DEF TWInit
<1>2. \A p \in Procs : /\ jobs[p].step = "idle" /\ jobs[p].flush = FALSE /\ jobs[p].batch = <<>>
                         /\ jobs[p].then = "idle"
  BY <1>1 DEF Idle
<1>3. Range(<<>>) = {} /\ "idle" \in Resting /\ Ids(0, 0) = <<>> /\ 1..0 = {}
  BY IdsAre DEF Range, Resting
<1>4. WriterTyped
  <2>1. jobs \in [Procs -> Job] /\ buffer \in Seq(Nat) /\ db \in Seq(Nat)
    BY <1>1, IdleTyped, EmptySeq
  <2>2. written \in Nat /\ accepted \in Nat /\ written <= accepted
    BY <1>1
  <2>3. isFlushing \in BOOLEAN /\ \A l \in late : l.batch \in Seq(Nat)
    BY <1>1
  <2>4. QED
    BY <1>1, <2>1, <2>2, <2>3 DEF WriterTyped
<1>5. OneFlush /\ JobsRight
  BY <1>1, <1>2, <1>3 DEF OneFlush, JobsRight, JobRight
<1>6. Flight
  BY <1>1, <1>2, <1>3 DEF Flight
<1>7. Prefix
  <2>1. 0 \in 0..0 /\ Range(db) = 1..0
    BY <1>1, <1>3
  <2>2. QED
    BY <1>1, <2>1 DEF Prefix
<1>8. QED
  BY <1>4, <1>5, <1>6, <1>7 DEF WriterInv

-----------------------------------------------------------------------------
(* What follows *)

LEMMA WriterConserves ==
  ASSUME WriterInv
  PROVE  NothingLost
<1>1. WriterTyped /\ OneFlush /\ JobsRight /\ Flight
  BY DEF WriterInv
<1>2. ASSUME async PROVE Cardinality(Flushing) <= 1
  <2>1. CASE Flushing = {}
    BY <2>1, FS_EmptySet
  <2>2. CASE Flushing # {}
    <3>1. PICK p \in Flushing : TRUE
      BY <2>2
    <3>2. Flushing = {p}
      BY <1>1, <3>1 DEF Flushing, OneFlush
    <3>3. Cardinality(Flushing) = 1
      BY <3>2, FS_Singleton
    <3>4. QED
      BY <3>3
  <2>3. QED
    BY <2>1, <2>2
<1>3. ASSUME async, Flushing = {} PROVE <<>> \o buffer = Ids(written, accepted)
  <2>1. ~isFlushing
    BY <1>1, <1>3 DEF OneFlush, Flushing
  <2>2. buffer = Ids(written, accepted) /\ buffer \in Seq(Nat)
    BY <1>1, <1>3, <2>1 DEF Flight, WriterTyped
  <2>3. QED
    BY <2>2, ConcatEmptySeq
<1>4. ASSUME async, NEW p \in Flushing PROVE jobs[p].batch \o buffer = Ids(written, accepted)
  <2>1. written \in Nat /\ accepted \in Nat /\ p \in Procs /\ jobs[p].flush
    BY <1>1, <1>4 DEF WriterTyped, Flushing
  <2>2. PICK m \in written..accepted : jobs[p].batch = Ids(written, m) /\ buffer = Ids(m, accepted)
    BY <1>1, <1>4, <2>1 DEF Flight
  <2>3. m \in Nat /\ written <= m /\ m <= accepted
    BY <2>1, <2>2
  <2>4. Ids(written, m) \o Ids(m, accepted) = Ids(written, accepted)
    BY <2>1, <2>3, IdsJoin
  <2>5. QED
    BY <2>2, <2>4
<1>5. Conserved
  <2>1. Flushing # {} => (CHOOSE p \in Flushing : TRUE) \in Flushing
    OBVIOUS
  <2>2. QED
    BY <1>2, <1>3, <1>4, <2>1 DEF Conserved
<1>6. ResolvedIsStored
  <2>1. ASSUME NEW p \in Procs, jobs[p].step \notin {"insert", "delay"}
        PROVE  Range(jobs[p].batch) \subseteq Range(db)
    <3>1. jobs[p].step \in Resting
      BY <1>1, <2>1 DEF WriterTyped, Job, Steps, Resting
    <3>2. QED
      BY <1>1, <3>1 DEF JobsRight, JobRight
  <2>2. QED
    BY <2>1 DEF ResolvedIsStored
<1>7. QED
  BY <1>5, <1>6 DEF NothingLost

\* the rows change only where an insert takes effect, and a prefix becomes a longer one
LEMMA LogSteps ==
  ASSUME WriterInv, WriterInv', [TWNext]_twvars
  PROVE  [Log!Next]_(Log!vars)
<1> DEFINE stored == IF async THEN Range(db) ELSE {}
<1>1. async' = async /\ accepted \in Nat /\ accepted' \in Nat
  BY DEF WriterInv, WriterTyped, TWNext, twvars, Start, Stop, StopReturns, Tick, ArrivesLate,
         Write, CheckOverflow, WriteMany, Inserted, Retry, InsertFails
<1>2. CASE db' = db
  <2>1. accepted' >= accepted
    <3>1. \/ accepted' = accepted \/ \E p \in Callers : Write(p)
          \/ \E p \in Callers, n \in Sizes : WriteMany(p, n)
      BY DEF TWNext, twvars, Start, Stop, StopReturns, Tick, ArrivesLate, CheckOverflow, Inserted,
             Retry, InsertFails
    <3>2. ASSUME NEW n \in Sizes PROVE accepted + n >= accepted
      BY <1>1, TradeWriterAssumption
    <3>3. QED
      BY <1>1, <3>1, <3>2 DEF Write, WriteMany
  <2>2. QED
    BY <1>1, <1>2, <2>1 DEF Log!Next, Log!Accept
<1>3. CASE db' # db
  <2>1. accepted' = accepted
    BY <1>3 DEF TWNext, twvars, Start, Stop, StopReturns, Tick, ArrivesLate, Write,
         CheckOverflow, WriteMany, Inserted, Retry, InsertFails
  <2>2. CASE async
    <3>1. Range(db) \subseteq Range(db')
      <4>1. PICK x \in Seq(Nat) : db' = db \o x
        BY <1>3 DEF TWNext, twvars, Start, Stop, StopReturns, Tick, ArrivesLate, Write,
             CheckOverflow, WriteMany, Inserted, Retry, InsertFails,
             WriterInv, WriterTyped, Job
      <4>2. QED
        BY <4>1, RangeJoin DEF WriterInv, WriterTyped
    <3>2. PICK k \in written'..accepted' : Range(db') = 1..k
      BY <1>1, <2>2 DEF WriterInv, Prefix
    <3>3. k \in 0..accepted
      BY <1>1, <2>1, <3>2 DEF WriterInv, WriterTyped
    <3>4. Range(db) \subseteq 1..k
      BY <3>1, <3>2
    <3>5. Log!Store
      BY <1>1, <2>1, <2>2, <3>2, <3>3, <3>4 DEF Log!Store
    <3>6. QED
      BY <3>5 DEF Log!Next
  <2>3. CASE ~async
    BY <1>1, <2>1, <2>3 DEF Log!vars
  <2>4. QED
    BY <1>1, <2>2, <2>3 DEF WriterInv, WriterTyped
<1>4. QED
  BY <1>2, <1>3

\* No trade handed over to the buffer is lost or doubled before it is counted, for any
\* callers, sizes, failures and retries: what the one flush has taken, followed by the
\* buffer, is what was handed over and is not counted, in its order; and when
\* _writeBatch() has resolved its rows are in the table.
THEOREM TradesConserved == TWSpec => []NothingLost
<1>1. TWInit => WriterInv
  BY WriterStarts
<1>2. WriterInv /\ [TWNext]_twvars => WriterInv'
  BY WriterSteps
<1>3. WriterInv => NothingLost
  BY WriterConserves
<1>4. QED
  BY <1>1, <1>2, <1>3, PTL DEF TWSpec

\* TradeWriter implements PrefixLog: in the asynchronous mode the table always holds
\* the first trades handed over, and more of them after each insert, whatever fails,
\* is repeated or arrives late.
THEOREM WriterImplementsLog == TWSpec => StoresInOrder
<1>1. TWInit => WriterInv
  BY WriterStarts
<1>2. WriterInv /\ [TWNext]_twvars => WriterInv'
  BY WriterSteps
<1>3. TWInit => Log!Init
  <2>1. Range(<<>>) = {}
    BY DEF Range
  <2>2. QED
    BY <2>1 DEF TWInit, Log!Init
<1>4. WriterInv /\ WriterInv' /\ [TWNext]_twvars => [Log!Next]_(Log!vars)
  BY LogSteps
<1>5. QED
  BY <1>1, <1>2, <1>3, <1>4, PTL DEF TWSpec, StoresInOrder, Log!Spec
-----------------------------------------------------------------------------
(* No trade twice *)

Distinct(s) == \A i, j \in DOMAIN s : s[i] = s[j] => i = j
Apart(s, t) == Range(s) \cap Range(t) = {}
Inserting == {p \in Procs : jobs[p].step = "insert"}

\* b is a part of what was handed over that is neither stored nor being inserted
Pending(b) ==
  /\ Distinct(b) /\ Range(b) \subseteq 1..accepted
  /\ Apart(b, db) /\ \A p \in Inserting : Apart(b, jobs[p].batch)

\* without a fault a trade is in one place, once: in the buffer, in one insert, in the table
InOnePlace == faults = 0 =>
  /\ late = {}
  /\ \A p \in Procs : jobs[p].step # "delay"
  /\ Distinct(db) /\ Range(db) \subseteq 1..accepted
  /\ Pending(buffer)
  /\ \A p \in Inserting :
       /\ Distinct(jobs[p].batch) /\ Range(jobs[p].batch) \subseteq 1..accepted
       /\ Apart(jobs[p].batch, db)
       /\ \A q \in Inserting : p # q => Apart(jobs[p].batch, jobs[q].batch)

LEMMA DistinctJoin ==
  ASSUME NEW x \in Seq(Nat), NEW y \in Seq(Nat), Distinct(x), Distinct(y), Apart(x, y)
  PROVE  Distinct(x \o y)
<1>1. /\ Len(x) \in Nat /\ Len(y) \in Nat /\ DOMAIN x = 1..Len(x) /\ DOMAIN y = 1..Len(y)
      /\ DOMAIN (x \o y) = 1..(Len(x) + Len(y))
      /\ \A i \in 1..(Len(x) + Len(y)) :
           (x \o y)[i] = IF i <= Len(x) THEN x[i] ELSE y[i - Len(x)]
  OBVIOUS
<1>2. \A i \in 1..Len(x), j \in 1..Len(y) : x[i] # y[j]
  BY <1>1 DEF Apart, Range
<1>3. ASSUME NEW i \in 1..(Len(x) + Len(y)), NEW j \in 1..(Len(x) + Len(y)),
             (x \o y)[i] = (x \o y)[j]
      PROVE  i = j
  <2>1. i <= Len(x) => i \in 1..Len(x)
    BY <1>1
  <2>2. j <= Len(x) => j \in 1..Len(x)
    BY <1>1
  <2>3. ~(i <= Len(x)) => i - Len(x) \in 1..Len(y)
    BY <1>1
  <2>4. ~(j <= Len(x)) => j - Len(x) \in 1..Len(y)
    BY <1>1
  <2>5. CASE i <= Len(x) /\ j <= Len(x)
    BY <1>1, <1>3, <2>1, <2>2, <2>5 DEF Distinct
  <2>6. CASE ~(i <= Len(x)) /\ ~(j <= Len(x))
    <3>1. i - Len(x) = j - Len(x)
      BY <1>1, <1>3, <2>3, <2>4, <2>6 DEF Distinct
    <3>2. QED
      BY <1>1, <3>1
  <2>7. CASE i <= Len(x) /\ ~(j <= Len(x))
    BY <1>1, <1>2, <1>3, <2>1, <2>4, <2>7
  <2>8. CASE ~(i <= Len(x)) /\ j <= Len(x)
    BY <1>1, <1>2, <1>3, <2>2, <2>3, <2>8
  <2>9. QED
    BY <2>5, <2>6, <2>7, <2>8
<1>4. QED
  BY <1>1, <1>3 DEF Distinct

\* the trades that a write hands over are new
LEMMA HandedOverPending ==
  ASSUME WriterTyped, InOnePlace, faults = 0, NEW b \in {<<>>, buffer},
         accepted' \in Nat, accepted <= accepted'
  PROVE  LET t == b \o Ids(accepted, accepted') IN
         /\ t \in Seq(Nat) /\ Distinct(t) /\ Range(t) \subseteq 1..accepted' /\ Apart(t, db)
         /\ \A p \in Inserting : Apart(t, jobs[p].batch)
         /\ b = <<>> => Apart(t, buffer)
<1> DEFINE new == Ids(accepted, accepted')
<1>1. accepted \in Nat /\ buffer \in Seq(Nat) /\ b \in Seq(Nat)
  BY EmptySeq DEF WriterTyped
<1>2. new \in Seq(Nat) /\ Len(new) = accepted' - accepted
      /\ \A i \in 1..(accepted' - accepted) : new[i] = accepted + i
  BY <1>1, IdsAre
<1>3. Range(new) = (accepted + 1)..accepted'
  BY <1>1, IdsAre
<1>4. Range(<<>>) = {}
  BY DEF Range
<1>5. Distinct(b) /\ Range(b) \subseteq 1..accepted /\ Apart(b, db)
      /\ \A p \in Inserting : Apart(b, jobs[p].batch)
  BY <1>4 DEF InOnePlace, Pending, Distinct, Apart
<1> HIDE DEF new
<1>6. Distinct(new)
  <2>1. DOMAIN new = 1..(accepted' - accepted)
    BY <1>2
  <2>2. \A i, j \in 1..(accepted' - accepted) : accepted + i = accepted + j => i = j
    BY <1>1
  <2>3. QED
    BY <1>2, <2>1, <2>2 DEF Distinct
<1>7. (1..accepted) \cap Range(new) = {} /\ 1..accepted \subseteq 1..accepted'
      /\ Range(new) \subseteq 1..accepted'
  BY <1>1, <1>3
<1>8. /\ b \o new \in Seq(Nat) /\ Range(b \o new) = Range(b) \cup Range(new)
  BY <1>1, <1>2, RangeJoin
<1>9. Apart(b, new)
  BY <1>5, <1>7 DEF Apart
<1>10. Distinct(b \o new)
  BY <1>1, <1>2, <1>5, <1>6, <1>9, DistinctJoin
<1>11. \A s : Range(s) \subseteq 1..accepted => Range(new) \cap Range(s) = {}
  BY <1>7
<1>12. Apart(b \o new, db) /\ \A p \in Inserting : Apart(b \o new, jobs[p].batch)
  BY <1>5, <1>8, <1>11 DEF Apart, InOnePlace
<1>13. b = <<>> => Apart(b \o new, buffer)
  BY <1>4, <1>8, <1>11 DEF Apart, InOnePlace, Pending
<1>14. QED
  BY <1>5, <1>7, <1>8, <1>10, <1>12, <1>13 DEF new

\* the part b of the trades that are neither stored nor being inserted, after a step
Free(b) ==
  /\ Distinct(b) /\ Range(b) \subseteq 1..accepted' /\ Apart(b, db)
  /\ \A q \in Inserting : Apart(b, jobs[q].batch)

LEMMA Placed ==
  ASSUME WriterTyped, InOnePlace, faults = 0, NEW p \in Procs, p \notin Inserting, Others(p),
         jobs'[p].step # "delay", accepted' \in Nat, accepted <= accepted',
         UNCHANGED <<db, late>>, Free(buffer'),
         p \in Inserting' => Free(jobs'[p].batch) /\ Apart(buffer', jobs'[p].batch)
  PROVE  InOnePlace'
<1>1. 1..accepted \subseteq 1..accepted' /\ Procs' = Procs
  BY DEF WriterTyped, Procs
<1>2. \A q \in Inserting' : q # p => q \in Inserting /\ jobs'[q] = jobs[q]
  BY <1>1 DEF Inserting, Others
<1>3. late' = {} /\ \A q \in Procs : jobs'[q].step # "delay"
  BY DEF InOnePlace, Others
<1>4. Distinct(db') /\ Range(db') \subseteq 1..accepted'
  BY <1>1 DEF InOnePlace
<1>5. Pending(buffer)'
  BY <1>2 DEF Free, Pending
<1>6. ASSUME NEW q \in Inserting'
      PROVE  /\ Distinct(jobs'[q].batch) /\ Range(jobs'[q].batch) \subseteq 1..accepted'
             /\ Apart(jobs'[q].batch, db')
  BY <1>1, <1>2, <1>6 DEF Free, InOnePlace
<1>7. ASSUME NEW q \in Inserting', NEW r \in Inserting', q # r
      PROVE  Apart(jobs'[q].batch, jobs'[r].batch)
  <2>1. CASE q = p
    BY <1>2, <1>7, <2>1 DEF Free
  <2>2. CASE r = p
    BY <1>2, <1>7, <2>2 DEF Free, Apart
  <2>3. CASE q # p /\ r # p
    BY <1>2, <1>7, <2>3 DEF InOnePlace
  <2>4. QED
    BY <2>1, <2>2, <2>3
<1>8. QED
  BY <1>1, <1>3, <1>4, <1>5, <1>6, <1>7 DEF InOnePlace

\* the buffer becomes b, or b goes into a flush of p
LEMMA BufferPlaced ==
  ASSUME WriterTyped, InOnePlace, faults = 0, NEW p \in Procs, p \notin Inserting,
         NEW b, HandsOn(p, b), Free(b), accepted' \in Nat, accepted <= accepted',
         UNCHANGED <<db, late>>
  PROVE  InOnePlace'
<1>1. Range(<<>>) = {} /\ Free(<<>>) /\ Apart(<<>>, b)
  BY DEF Range, Free, Distinct, Apart
<1>2. CASE buffer' = b /\ Rests(p)
  <2>1. Others(p) /\ jobs'[p].step # "delay" /\ p \notin Inserting'
    BY <1>2, IdleTyped DEF Rests, Inserting
  <2>2. QED
    BY <1>2, <2>1, Placed
<1>3. CASE buffer' = <<>> /\ Inserts(p, b, TRUE)
  <2>1. Others(p) /\ jobs'[p].step # "delay" /\ jobs'[p].batch = b
    BY <1>3 DEF Inserts
  <2>2. QED
    BY <1>1, <1>3, <2>1, Placed
<1>4. QED
  BY <1>2, <1>3 DEF HandsOn

\* a step that hands over nothing
LEMMA BufferKept ==
  ASSUME WriterTyped, InOnePlace, faults = 0, NEW p \in Procs, p \notin Inserting,
         HandsOn(p, buffer), UNCHANGED <<accepted, db, late>>
  PROVE  InOnePlace'
<1>1. Free(buffer)
  BY DEF InOnePlace, Pending, Free
<1>2. accepted' \in Nat /\ accepted <= accepted'
  BY DEF WriterTyped
<1>3. QED
  BY <1>1, <1>2, BufferPlaced

LEMMA CalmPlaced ==
  ASSUME WriterInv, InOnePlace, faults = 0,
         Stop \/ StopReturns \/ Tick \/ \E p \in Callers : CheckOverflow(p)
  PROVE  InOnePlace'
<1>1. /\ WriterTyped /\ buffer \in Seq(Nat)
      /\ Stopper \in Procs /\ Timer \in Procs /\ Callers \subseteq Procs
      /\ {"stopping", "idle"} \subseteq Resting /\ jobs \in [Procs -> Job]
  BY DEF WriterInv, WriterTyped, Procs, Resting
<1>2. CASE Stop
  <2>1. Stopper \notin Inserting /\ HandsOn(Stopper, buffer) /\ UNCHANGED <<accepted, db, late>>
    BY <1>1, <1>2, Flushes DEF Stop, IsFree, Inserting
  <2>2. QED
    BY <1>1, <2>1, BufferKept
<1>3. CASE StopReturns
  <2>1. /\ Stopper \notin Inserting /\ HandsOn(Stopper, buffer)
        /\ UNCHANGED <<accepted, db, late>>
    BY <1>1, <1>3, Stays DEF StopReturns, Inserting
  <2>2. QED
    BY <1>1, <2>1, BufferKept
<1>4. CASE Tick
  <2>1. ~jobs[Timer].flush /\ async
    BY <1>1, <1>4 DEF Tick, WriterInv, OneFlush
  <2>2. Timer \notin Inserting
    BY <1>1, <2>1, IdleTyped DEF WriterInv, JobsRight, JobRight, Inserting
  <2>3. HandsOn(Timer, buffer) /\ UNCHANGED <<accepted, db, late>>
    BY <1>1, <1>4, Flushes DEF Tick
  <2>4. QED
    BY <1>1, <2>2, <2>3, BufferKept
<1>5. CASE \E p \in Callers : CheckOverflow(p)
  <2>1. PICK p \in Callers : CheckOverflow(p)
    BY <1>5
  <2>2. p \notin Inserting /\ UNCHANGED <<accepted, db, late>>
    BY <2>1 DEF CheckOverflow, Inserting
  <2>3. HandsOn(p, buffer)
    BY <1>1, <2>1, Flushes, Stays DEF CheckOverflow
  <2>4. QED
    BY <1>1, <2>2, <2>3, BufferKept
<1>6. QED
  BY <1>2, <1>3, <1>4, <1>5

\* the new trades go behind the buffer, or by themselves into an insert
LEMMA HandedOverPlaced ==
  ASSUME WriterTyped, InOnePlace, faults = 0, NEW p \in Procs, p \notin Inserting,
         accepted' \in Nat, accepted <= accepted', UNCHANGED <<db, late>>,
         \/ HandsOn(p, buffer \o Ids(accepted, accepted'))
         \/ WriteDirectly(p, Ids(accepted, accepted'))
  PROVE  InOnePlace'
<1>1. accepted \in Nat /\ buffer \in Seq(Nat) /\ <<>> \in Seq(Nat)
  BY EmptySeq DEF WriterTyped
<1>2. CASE HandsOn(p, buffer \o Ids(accepted, accepted'))
  <2>1. Free(buffer \o Ids(accepted, accepted'))
    BY <1>1, HandedOverPending DEF Free
  <2>2. QED
    BY <1>2, <2>1, BufferPlaced
<1>3. CASE WriteDirectly(p, Ids(accepted, accepted'))
  <2> DEFINE new == Ids(accepted, accepted')
  <2>1. new \in Seq(Nat)
    BY <1>1, IdsAre
  <2>2. <<>> \o new = new
    BY <2>1
  <2>3. Free(<<>> \o new) /\ Apart(<<>> \o new, buffer)
    BY <1>1, HandedOverPending DEF Free
  <2>4. WriteDirectly(p, new)
    BY <1>3
  <2> HIDE DEF new
  <2>5. Inserts(p, new, FALSE) /\ buffer' = buffer
    BY <2>1, <2>4, Directly
  <2>6. Others(p) /\ jobs'[p].step # "delay" /\ jobs'[p].batch = new
    BY <2>5 DEF Inserts
  <2>7. Free(buffer)
    <3>1. 1..accepted \subseteq 1..accepted'
      BY <1>1
    <3>2. QED
      BY <3>1 DEF InOnePlace, Pending, Free
  <2>8. Free(new) /\ Apart(buffer, new)
    BY <2>2, <2>3 DEF Apart
  <2>9. QED
    BY <2>5, <2>6, <2>7, <2>8, Placed
<1>4. QED
  BY <1>2, <1>3

LEMMA WritePlaced ==
  ASSUME WriterInv, InOnePlace, faults = 0, NEW p \in Callers,
         Write(p) \/ \E n \in Sizes : WriteMany(p, n)
  PROVE  InOnePlace'
<1>1. /\ WriterTyped /\ buffer \in Seq(Nat) /\ p \in Procs /\ accepted \in Nat
      /\ async \in BOOLEAN /\ {"check", "idle"} \subseteq Resting
  BY DEF WriterInv, WriterTyped, Procs, Resting
<1>2. p \notin Inserting /\ UNCHANGED <<db, late>>
  BY DEF Write, WriteMany, IsFree, Inserting
<1>3. ASSUME Write(p) PROVE InOnePlace'
  <2>1. accepted' = accepted + 1 /\ accepted' \in Nat /\ accepted <= accepted'
    BY <1>1, <1>3 DEF Write
  <2>2. Ids(accepted, accepted') = <<accepted + 1>>
    BY <1>1, <2>1 DEF Ids
  <2> DEFINE b == Append(buffer, accepted + 1)
  <2>3. b = buffer \o Ids(accepted, accepted') /\ b \in Seq(Nat)
    <3>1. accepted + 1 \in Nat /\ b \in Seq(Nat)
      BY <1>1
    <3>2. b = buffer \o <<accepted + 1>>
      BY <1>1, <3>1
    <3>3. QED
      BY <2>2, <3>1, <3>2
  <2>4. \/ WriteDirectly(p, Ids(accepted, accepted'))
        \/ FlushThen(p, b, "check") \/ FlushThen(p, b, "idle")
        \/ buffer' = b /\ jobs' = [jobs EXCEPT ![p] = Idle] /\ UNCHANGED isFlushing
    BY <1>3, <2>2 DEF Write
  <2> HIDE DEF b
  <2>5. WriteDirectly(p, Ids(accepted, accepted')) \/ HandsOn(p, b)
    BY <1>1, <2>3, <2>4, Flushes, Stays
  <2>6. QED
    BY <1>1, <1>2, <2>1, <2>3, <2>5, HandedOverPlaced
<1>4. ASSUME NEW n \in Sizes, WriteMany(p, n) PROVE InOnePlace'
  <2>1. accepted' = accepted + n /\ accepted' \in Nat /\ accepted <= accepted'
    BY <1>1, <1>4, TradeWriterAssumption DEF WriteMany
  <2> DEFINE b == buffer \o Ids(accepted, accepted')
  <2>2. b \in Seq(Nat)
    <3>1. Ids(accepted, accepted') \in Seq(Nat)
      BY <1>1, <2>1, IdsAre
    <3>2. QED
      BY <1>1, <3>1
  <2>3. \/ WriteDirectly(p, Ids(accepted, accepted'))
        \/ FlushThen(p, b, "idle")
        \/ buffer' = b /\ jobs' = [jobs EXCEPT ![p] = Idle] /\ UNCHANGED isFlushing
    BY <1>4, <2>1 DEF WriteMany
  <2> HIDE DEF b
  <2>4. WriteDirectly(p, Ids(accepted, accepted')) \/ HandsOn(p, b)
    BY <1>1, <2>2, <2>3, Flushes, Stays
  <2>5. QED
    BY <1>1, <1>2, <2>1, <2>4, HandedOverPlaced DEF b
<1>5. QED
  BY <1>3, <1>4

\* an insert puts its batch behind the rows of the table
LEMMA InsertedPlaced ==
  ASSUME WriterInv, InOnePlace, faults = 0, NEW p \in Procs, Inserted(p)
  PROVE  InOnePlace'
<1> DEFINE batch == jobs[p].batch
<1>1. /\ WriterTyped /\ jobs[p] \in Job /\ batch \in Seq(Nat) /\ db \in Seq(Nat)
      /\ jobs[p].then \in Resting /\ jobs \in [Procs -> Job] /\ p \in Inserting /\ Procs' = Procs
  BY DEF WriterInv, WriterTyped, JobsRight, JobRight, Job, Inserted, Inserting, Procs
<1>2. db' = db \o batch /\ UNCHANGED <<accepted, late, buffer>>
  BY DEF Inserted
<1>3. Others(p) /\ jobs'[p].step = jobs[p].then
  BY <1>1 DEF Inserted, Others, Job
<1>4. jobs'[p].step # "insert" /\ jobs'[p].step # "delay"
  BY <1>1, <1>3, IdleTyped
<1>5. \A q \in Inserting' : q # p /\ q \in Inserting /\ jobs'[q] = jobs[q]
  BY <1>1, <1>3, <1>4 DEF Inserting, Others
<1>6. /\ Distinct(db) /\ Distinct(batch) /\ Apart(batch, db)
      /\ Range(db) \subseteq 1..accepted /\ Range(batch) \subseteq 1..accepted
      /\ Apart(buffer, db) /\ Apart(buffer, batch)
  BY <1>1 DEF InOnePlace, Pending
<1> HIDE DEF batch
<1>7. Range(db') = Range(db) \cup Range(batch)
  BY <1>1, <1>2, RangeJoin
<1>8. Distinct(db')
  <2>1. Apart(db, batch)
    BY <1>6 DEF Apart
  <2>2. QED
    BY <1>1, <1>2, <1>6, <2>1, DistinctJoin
<1>9. late' = {} /\ \A q \in Procs : jobs'[q].step # "delay"
  BY <1>2, <1>3, <1>4 DEF InOnePlace, Others
<1>10. Pending(buffer)'
  BY <1>2, <1>5, <1>6, <1>7 DEF InOnePlace, Pending, Apart
<1>11. ASSUME NEW q \in Inserting'
       PROVE  /\ Distinct(jobs'[q].batch) /\ Range(jobs'[q].batch) \subseteq 1..accepted'
              /\ Apart(jobs'[q].batch, db')
              /\ \A r \in Inserting' : q # r => Apart(jobs'[q].batch, jobs'[r].batch)
  <2>1. Apart(jobs[q].batch, db) /\ Apart(jobs[q].batch, batch)
    BY <1>1, <1>5 DEF InOnePlace, batch
  <2>2. Apart(jobs'[q].batch, db')
    BY <1>5, <1>7, <2>1 DEF Apart
  <2>3. QED
    BY <1>2, <1>5, <2>2 DEF InOnePlace
<1>12. QED
  BY <1>1, <1>2, <1>6, <1>7, <1>8, <1>9, <1>10, <1>11 DEF InOnePlace

LEMMA StaysInOnePlace ==
  ASSUME WriterInv, InOnePlace, faults \in Nat, [TWNext]_twvars
  PROVE  InOnePlace' /\ faults' \in Nat
<1>1. ASSUME NEW p \in Procs, NEW arrives \in BOOLEAN, InsertFails(p, arrives)
      PROVE  faults' \in Nat /\ faults' # 0
  BY <1>1 DEF InsertFails
<1>2. ASSUME NEW p \in Procs, Inserted(p) PROVE faults' = faults
  BY <1>2 DEF Inserted
<1>3. ASSUME NEW p \in Procs, Retry(p) PROVE faults' = faults /\ faults # 0
  BY <1>3 DEF Retry, InOnePlace
<1>4. ASSUME NEW p \in Callers, Write(p) \/ \E n \in Sizes : WriteMany(p, n)
      PROVE  faults' = faults
  BY <1>4 DEF Write, WriteMany
<1>5. ASSUME Stop \/ StopReturns \/ Tick \/ \E p \in Callers : CheckOverflow(p)
      PROVE  faults' = faults
  BY <1>5 DEF Stop, StopReturns, Tick, CheckOverflow
<1>6. ASSUME ArrivesLate PROVE faults' = faults /\ faults # 0
  BY <1>6 DEF ArrivesLate, InOnePlace
<1>7. ASSUME Start \/ UNCHANGED twvars
      PROVE  UNCHANGED <<buffer, accepted, jobs, db, late, faults>>
  BY <1>7 DEF Start, twvars
<1>8. faults' \in Nat
  BY <1>1, <1>2, <1>3, <1>4, <1>5, <1>6, <1>7 DEF TWNext
<1>9. ASSUME faults' = 0 PROVE InOnePlace'
  <2>1. CASE \E p \in Procs : Inserted(p)
    BY <1>2, <1>9, <2>1, InsertedPlaced
  <2>2. CASE \E p \in Callers : Write(p) \/ \E n \in Sizes : WriteMany(p, n)
    BY <1>4, <1>9, <2>2, WritePlaced
  <2>3. CASE Stop \/ StopReturns \/ Tick \/ \E p \in Callers : CheckOverflow(p)
    BY <1>5, <1>9, <2>3, CalmPlaced
  <2>4. CASE Start \/ UNCHANGED twvars
    BY <1>7, <2>4 DEF InOnePlace, Pending, Inserting
  <2>5. QED
    BY <1>1, <1>3, <1>6, <1>9, <2>1, <2>2, <2>3, <2>4 DEF TWNext
<1>10. QED
  BY <1>8, <1>9 DEF InOnePlace

\* No trade gets into the table twice, in either mode, as long as every insert is
\* confirmed: neither the overlapping flushes nor the direct writes store one twice.
THEOREM NoneTwice == TWSpec => []TwiceOnlyAfterFault
<1>1. TWInit => WriterInv /\ InOnePlace /\ faults \in Nat
  <2>1. ASSUME TWInit PROVE InOnePlace
    <3>1. /\ buffer = <<>> /\ db = <<>> /\ late = {} /\ jobs = [p \in Procs |-> Idle]
      BY <2>1 DEF TWInit
    <3>2. \A p \in Procs : jobs[p].step = "idle"
      BY <3>1 DEF Idle
    <3>3. Distinct(<<>>) /\ Range(<<>>) = {} /\ Inserting = {}
      BY <3>2 DEF Distinct, Range, Inserting
    <3>4. QED
      BY <3>1, <3>2, <3>3 DEF InOnePlace, Pending, Apart
  <2>2. TWInit => faults \in Nat
    BY DEF TWInit
  <2>3. QED
    BY <2>1, <2>2, WriterStarts
<1>2. /\ WriterInv /\ InOnePlace /\ faults \in Nat /\ [TWNext]_twvars
      => WriterInv' /\ InOnePlace' /\ (faults \in Nat)'
  BY WriterSteps, StaysInOnePlace
<1>3. InOnePlace => TwiceOnlyAfterFault
  BY DEF InOnePlace, TwiceOnlyAfterFault, Distinct
<1>4. QED
  BY <1>1, <1>2, <1>3, PTL DEF TWSpec
-----------------------------------------------------------------------------
(* The bounds of the types *)

BoundedJob == [step : Steps, batch : Seq(Trades), retries : 0..(MaxRetries - 1),
               flush : BOOLEAN, then : Steps, due : 0..MaxTrades]

\* in the synchronous mode nothing is buffered, flushed or counted
Unbuffered == ~async => buffer = <<>> /\ written = 0 /\ \A p \in Procs : ~jobs[p].flush

\* what writers and flushes do to the buffer and the jobs
Handled == /\ buffer' \in Seq(Trades) /\ isFlushing' \in BOOLEAN
           /\ jobs' \in [Procs -> BoundedJob]
           /\ ~async => buffer' = <<>> /\ \A p \in Procs : ~jobs'[p].flush

LEMMA IdleBounded ==
  /\ Idle \in BoundedJob /\ ~Idle.flush /\ <<>> \in Seq(Trades)
  /\ {"idle", "check", "stopping", "insert", "delay"} = Steps
<1>1. 0 \in 0..(MaxRetries - 1) /\ 0 \in 0..MaxTrades
  BY TradeWriterAssumption
<1>2. <<>> \in Seq(Trades)
  OBVIOUS
<1>3. QED
  BY <1>1, <1>2 DEF Idle, BoundedJob, Steps

LEMMA FlushBounded ==
  ASSUME TWTypeOK, Unbuffered, NEW p \in Procs, NEW b \in Seq(Trades), NEW place \in Steps,
         ~async => b = <<>>, FlushThen(p, b, place)
  PROVE  Handled
<1>1. jobs \in [Procs -> BoundedJob] /\ accepted \in 0..MaxTrades /\ isFlushing \in BOOLEAN
  BY DEF TWTypeOK, BoundedJob
<1>2. CASE isFlushing \/ b = <<>>
  <2> DEFINE j == [Idle EXCEPT !.step = place, !.due = accepted]
  <2>1. j \in BoundedJob /\ ~j.flush
    BY <1>1, IdleBounded DEF BoundedJob
  <2>2. jobs' = [jobs EXCEPT ![p] = j] /\ buffer' = b /\ UNCHANGED isFlushing
    BY <1>2 DEF FlushThen
  <2> HIDE DEF j
  <2>3. jobs' \in [Procs -> BoundedJob] /\ \A q \in Procs : jobs'[q] = IF q = p THEN j ELSE jobs[q]
    BY <1>1, <2>1, <2>2
  <2>4. ~async => \A q \in Procs : ~jobs'[q].flush
    BY <2>1, <2>3 DEF Unbuffered
  <2>5. QED
    BY <1>1, <2>2, <2>3, <2>4 DEF Handled
<1>3. CASE ~(isFlushing \/ b = <<>>)
  <2> DEFINE j == [Idle EXCEPT !.step = "insert", !.batch = b,
                         !.flush = TRUE, !.then = place, !.due = accepted]
  <2>1. j \in BoundedJob
    BY <1>1, IdleBounded DEF BoundedJob
  <2>2. jobs' = [jobs EXCEPT ![p] = j] /\ buffer' = <<>> /\ isFlushing' = TRUE
    BY <1>3 DEF FlushThen
  <2> HIDE DEF j
  <2>3. jobs' \in [Procs -> BoundedJob]
    BY <1>1, <2>1, <2>2
  <2>4. QED
    BY <1>3, <2>2, <2>3, IdleBounded DEF Handled
<1>4. QED
  BY <1>2, <1>3

LEMMA EndBounded ==
  ASSUME TWTypeOK, Unbuffered, NEW p \in Procs, jobs' = [jobs EXCEPT ![p] = Idle],
         buffer' \in Seq(Trades), isFlushing' \in BOOLEAN, ~async => buffer' = <<>>
  PROVE  Handled
<1>1. jobs \in [Procs -> BoundedJob]
  BY DEF TWTypeOK, BoundedJob
<1>2. jobs' \in [Procs -> BoundedJob] /\ \A q \in Procs : jobs'[q] = IF q = p THEN Idle ELSE jobs[q]
  BY <1>1, IdleBounded
<1>3. ~async => \A q \in Procs : ~jobs'[q].flush
  BY <1>2, IdleBounded DEF Unbuffered
<1>4. QED
  BY <1>2, <1>3 DEF Handled

LEMMA DirectBounded ==
  ASSUME TWTypeOK, Unbuffered, NEW p \in Procs, NEW b \in Seq(Trades), WriteDirectly(p, b)
  PROVE  Handled
<1> DEFINE j == [Idle EXCEPT !.step = "insert", !.batch = b]
<1>1. jobs \in [Procs -> BoundedJob] /\ buffer \in Seq(Trades) /\ isFlushing \in BOOLEAN
  BY DEF TWTypeOK, BoundedJob
<1>2. j \in BoundedJob /\ ~j.flush
  BY IdleBounded DEF BoundedJob, Idle
<1>3. jobs' = [jobs EXCEPT ![p] = j] /\ UNCHANGED <<buffer, isFlushing>>
  BY DEF WriteDirectly
<1> HIDE DEF j
<1>4. jobs' \in [Procs -> BoundedJob] /\ \A q \in Procs : jobs'[q] = IF q = p THEN j ELSE jobs[q]
  BY <1>1, <1>2, <1>3
<1>5. ~async => buffer' = <<>> /\ \A q \in Procs : ~jobs'[q].flush
  BY <1>2, <1>3, <1>4 DEF Unbuffered
<1>6. QED
  BY <1>1, <1>3, <1>4, <1>5 DEF Handled

\* trades handed over are numbered up to MaxTrades
LEMMA IdsBounded ==
  ASSUME TWTypeOK, NEW n \in Nat, accepted + n <= MaxTrades
  PROVE  /\ Ids(accepted, accepted + n) \in Seq(Trades) /\ accepted + n \in 0..MaxTrades
<1>1. accepted \in Nat /\ MaxTrades \in Nat /\ (accepted + n) - accepted = n
  BY TradeWriterAssumption DEF TWTypeOK
<1>2. \A i \in 1..n : accepted + i \in 1..MaxTrades
  BY <1>1
<1>3. Ids(accepted, accepted + n) = [i \in 1..n |-> accepted + i]
  BY <1>1 DEF Ids
<1>4. QED
  BY <1>1, <1>2, <1>3 DEF Trades

LEMMA WriteBounded ==
  ASSUME TWTypeOK, Unbuffered, NEW p \in Callers, Write(p) \/ \E n \in Sizes : WriteMany(p, n)
  PROVE  Handled /\ accepted' \in 0..MaxTrades
<1>1. p \in Procs /\ buffer \in Seq(Trades) /\ isFlushing \in BOOLEAN
  BY DEF Procs, TWTypeOK
<1>2. ASSUME Write(p) PROVE Handled /\ accepted' \in 0..MaxTrades
  <2>1. accepted + 1 \in Trades /\ accepted + 1 \in 0..MaxTrades
    BY <1>2, TradeWriterAssumption DEF Write, Trades, TWTypeOK
  <2>2. Append(buffer, accepted + 1) \in Seq(Trades) /\ <<accepted + 1>> \in Seq(Trades)
    BY <1>1, <2>1
  <2> DEFINE b == Append(buffer, accepted + 1)
  <2>3. \/ ~async /\ WriteDirectly(p, <<accepted + 1>>)
        \/ async /\ (FlushThen(p, b, "check") \/ FlushThen(p, b, "idle"))
        \/ async /\ buffer' = b /\ jobs' = [jobs EXCEPT ![p] = Idle] /\ UNCHANGED isFlushing
    BY <1>2 DEF Write
  <2> HIDE DEF b
  <2>4. b \in Seq(Trades)
    BY <2>2 DEF b
  <2>5. Handled
    BY <1>1, <2>2, <2>3, <2>4, DirectBounded, FlushBounded, EndBounded, IdleBounded
  <2>6. QED
    BY <1>2, <2>1, <2>5 DEF Write
<1>3. ASSUME NEW n \in Sizes, WriteMany(p, n) PROVE Handled /\ accepted' \in 0..MaxTrades
  <2> DEFINE t == Ids(accepted, accepted + n)
  <2>1. t \in Seq(Trades) /\ accepted + n \in 0..MaxTrades
    BY <1>3, TradeWriterAssumption, IdsBounded DEF WriteMany
  <2>2. buffer \o t \in Seq(Trades)
    BY <1>1, <2>1
  <2>3. \/ ~async /\ WriteDirectly(p, t)
        \/ async /\ FlushThen(p, buffer \o t, "idle")
        \/ /\ async /\ buffer' = buffer \o t
           /\ jobs' = [jobs EXCEPT ![p] = Idle] /\ UNCHANGED isFlushing
    BY <1>3 DEF WriteMany
  <2> HIDE DEF t
  <2>4. Handled
    BY <1>1, <2>1, <2>2, <2>3, DirectBounded, FlushBounded, EndBounded, IdleBounded
  <2>5. QED
    BY <1>3, <2>1, <2>4 DEF WriteMany
<1>4. QED
  BY <1>2, <1>3

LEMMA CalmBounded ==
  ASSUME TWTypeOK, Unbuffered,
         Stop \/ StopReturns \/ Tick \/ \E p \in Callers : CheckOverflow(p)
  PROVE  Handled
<1>1. /\ Stopper \in Procs /\ Timer \in Procs /\ Callers \subseteq Procs
      /\ buffer \in Seq(Trades) /\ isFlushing \in BOOLEAN /\ (~async => buffer = <<>>)
      /\ "idle" \in Steps /\ "stopping" \in Steps
  BY DEF Procs, TWTypeOK, Unbuffered, Steps
<1>2. CASE Stop
  BY <1>1, <1>2, FlushBounded DEF Stop
<1>3. CASE StopReturns
  BY <1>1, <1>3, EndBounded DEF StopReturns
<1>4. CASE Tick
  BY <1>1, <1>4, FlushBounded DEF Tick
<1>5. ASSUME NEW p \in Callers, CheckOverflow(p) PROVE Handled
  BY <1>1, <1>5, FlushBounded, EndBounded DEF CheckOverflow
<1>6. QED
  BY <1>2, <1>3, <1>4, <1>5

\* a job that goes on
LEMMA JobBounded ==
  ASSUME TWTypeOK, Unbuffered, NEW p \in Procs, NEW j \in BoundedJob, (j.flush => jobs[p].flush),
         jobs' = [jobs EXCEPT ![p] = j]
  PROVE  /\ jobs' \in [Procs -> BoundedJob]
         /\ ~async => \A q \in Procs : ~jobs'[q].flush
<1>1. jobs \in [Procs -> BoundedJob]
  BY DEF TWTypeOK, BoundedJob
<1>2. jobs' \in [Procs -> BoundedJob] /\ \A q \in Procs : jobs'[q] = IF q = p THEN j ELSE jobs[q]
  BY <1>1
<1>3. QED
  BY <1>2 DEF Unbuffered

LEMMA InsertBounded ==
  ASSUME TWTypeOK, Unbuffered, WriterInv, WriterInv', NEW p \in Procs, Inserted(p)
  PROVE  Handled /\ db' \in Seq(Trades) /\ written' \in 0..MaxTrades /\ (~async => written' = 0)
<1>1. /\ jobs \in [Procs -> BoundedJob] /\ jobs[p] \in BoundedJob /\ buffer \in Seq(Trades)
      /\ db \in Seq(Trades) /\ isFlushing \in BOOLEAN /\ written \in 0..MaxTrades
      /\ accepted \in 0..MaxTrades
  BY DEF TWTypeOK, BoundedJob
<1>2. /\ async' = async /\ buffer' = buffer /\ accepted' = accepted
      /\ db' = db \o jobs[p].batch
      /\ isFlushing' = (IF jobs[p].flush THEN FALSE ELSE isFlushing)
      /\ ~jobs[p].flush => written' = written
  BY DEF Inserted
<1> DEFINE j == [jobs[p] EXCEPT !.step = jobs[p].then, !.flush = FALSE]
<1>3. j \in BoundedJob /\ ~j.flush
  BY <1>1 DEF BoundedJob
<1>4. jobs' = [jobs EXCEPT ![p] = j]
  <2>1. jobs' = [jobs EXCEPT ![p].step = jobs[p].then, ![p].flush = FALSE]
    BY DEF Inserted
  <2>2. QED
    BY <1>1, <2>1 DEF BoundedJob
<1> HIDE DEF j
<1>5. jobs' \in [Procs -> BoundedJob] /\ (~async => \A q \in Procs : ~jobs'[q].flush)
  BY <1>3, <1>4, JobBounded
<1>6. Handled
  BY <1>1, <1>2, <1>5 DEF Handled, Unbuffered
<1>7. db' \in Seq(Trades)
  BY <1>1, <1>2 DEF BoundedJob
<1>8. written' \in 0..MaxTrades /\ (~async => written' = 0)
  <2>1. ~async => written' = 0
    BY <1>2 DEF Unbuffered
  <2>2. MaxTrades \in Nat /\ written' \in Nat
    BY TradeWriterAssumption DEF WriterInv, WriterTyped
  <2>3. async => written' <= accepted
    BY <1>2 DEF WriterInv, WriterTyped
  <2>4. QED
    BY <1>1, <2>1, <2>2, <2>3
<1>9. QED
  BY <1>6, <1>7, <1>8

LEMMA FailBounded ==
  ASSUME TWTypeOK, Unbuffered, NEW p \in Procs, NEW arrives \in BOOLEAN, InsertFails(p, arrives)
  PROVE  /\ Handled /\ faults' \in 0..MaxFaults
         /\ \A l \in late' : l.n \in 0..(MaxFaults - 1) /\ l.batch \in Seq(Trades)
<1>1. /\ jobs \in [Procs -> BoundedJob] /\ jobs[p] \in BoundedJob /\ buffer \in Seq(Trades)
      /\ isFlushing \in BOOLEAN /\ faults \in 0..MaxFaults /\ faults < MaxFaults
      /\ MaxFaults \in Nat /\ MaxRetries \in Nat \ {0}
      /\ jobs[p].batch \in Seq(Trades) /\ jobs[p].retries \in 0..(MaxRetries - 1)
  BY TradeWriterAssumption DEF TWTypeOK, BoundedJob, InsertFails
<1>2. faults' \in 0..MaxFaults /\ faults \in 0..(MaxFaults - 1)
  <2>1. faults' = faults + 1
    BY DEF InsertFails
  <2>2. QED
    BY <1>1, <2>1
<1>3. \A l \in late' : l.n \in 0..(MaxFaults - 1) /\ l.batch \in Seq(Trades)
  <2>1. late' \subseteq late \cup {[n |-> faults, batch |-> jobs[p].batch]}
    BY DEF InsertFails
  <2>2. \A l \in late : l.n \in 0..(MaxFaults - 1) /\ l.batch \in Seq(Trades)
    BY DEF TWTypeOK
  <2>3. QED
    BY <1>1, <1>2, <2>1, <2>2
<1>4. ASSUME RetriesLeft(p) PROVE Handled
  <2> DEFINE j == [jobs[p] EXCEPT !.step = "delay", !.retries = jobs[p].retries + 1]
  <2>1. jobs[p].retries + 1 \in 0..(MaxRetries - 1)
    BY <1>1, <1>4 DEF RetriesLeft
  <2>2. j \in BoundedJob /\ j.flush = jobs[p].flush
    BY <1>1, <2>1, IdleBounded DEF BoundedJob
  <2>3. jobs' = [jobs EXCEPT ![p] = j]
    <3>1. jobs' = [jobs EXCEPT ![p].step = "delay", ![p].retries = @ + 1]
      BY <1>4 DEF InsertFails
    <3>2. QED
      BY <1>1, <3>1 DEF BoundedJob
  <2> HIDE DEF j
  <2>4. jobs' \in [Procs -> BoundedJob] /\ (~async => \A q \in Procs : ~jobs'[q].flush)
    BY <2>2, <2>3, JobBounded
  <2>5. UNCHANGED <<buffer, isFlushing>>
    BY <1>4 DEF InsertFails
  <2>6. QED
    BY <1>1, <2>4, <2>5 DEF Handled, Unbuffered
<1>5. ASSUME Rejected(p) PROVE Handled
  <2>1. jobs[p].batch \o buffer \in Seq(Trades)
    BY <1>1
  <2>2. \/ jobs[p].flush /\ buffer' = jobs[p].batch \o buffer /\ isFlushing' = FALSE
        \/ UNCHANGED <<buffer, isFlushing>>
    BY <1>5 DEF Rejected
  <2>3. buffer' \in Seq(Trades) /\ isFlushing' \in BOOLEAN /\ (~async => buffer' = <<>>)
    BY <1>1, <2>1, <2>2 DEF Unbuffered
  <2>4. QED
    BY <1>5, <2>3, EndBounded DEF Rejected
<1>6. QED
  BY <1>2, <1>3, <1>4, <1>5 DEF InsertFails

LEMMA RetryBounded ==
  ASSUME TWTypeOK, Unbuffered, NEW p \in Procs, Retry(p)
  PROVE  Handled
<1>1. /\ jobs \in [Procs -> BoundedJob] /\ jobs[p] \in BoundedJob
      /\ buffer \in Seq(Trades) /\ isFlushing \in BOOLEAN
  BY DEF TWTypeOK, BoundedJob
<1> DEFINE j == [jobs[p] EXCEPT !.step = "insert"]
<1>2. j \in BoundedJob /\ j.flush = jobs[p].flush
  BY <1>1, IdleBounded DEF BoundedJob
<1>3. jobs' = [jobs EXCEPT ![p] = j] /\ UNCHANGED <<buffer, isFlushing>>
  BY <1>1 DEF Retry, BoundedJob
<1> HIDE DEF j
<1>4. jobs' \in [Procs -> BoundedJob] /\ (~async => \A q \in Procs : ~jobs'[q].flush)
  BY <1>2, <1>3, JobBounded
<1>5. QED
  BY <1>1, <1>3, <1>4 DEF Handled, Unbuffered

LEMMA StaysTypedWriter ==
  ASSUME TWTypeOK, Unbuffered, WriterInv, WriterInv', [TWNext]_twvars
  PROVE  TWTypeOK' /\ Unbuffered'
<1>1. ASSUME Handled, async' = async, isRunning' \in BOOLEAN, written' \in 0..MaxTrades,
             ~async => written' = 0, accepted' \in 0..MaxTrades, db' \in Seq(Trades),
             faults' \in 0..MaxFaults,
             \A l \in late' : l.n \in 0..(MaxFaults - 1) /\ l.batch \in Seq(Trades)
      PROVE  TWTypeOK' /\ Unbuffered'
  <2>1. Unbuffered'
    BY <1>1 DEF Unbuffered, Handled, Procs
  <2>2. async' \in Modes
    BY <1>1 DEF TWTypeOK
  <2>3. QED
    BY <1>1, <2>1, <2>2 DEF TWTypeOK, Handled, BoundedJob, Procs, Steps, Trades
<1>2. /\ isRunning \in BOOLEAN /\ written \in 0..MaxTrades /\ (~async => written = 0)
      /\ accepted \in 0..MaxTrades /\ db \in Seq(Trades) /\ faults \in 0..MaxFaults
      /\ \A l \in late : l.n \in 0..(MaxFaults - 1) /\ l.batch \in Seq(Trades)
      /\ (TRUE \in BOOLEAN) /\ (FALSE \in BOOLEAN)
  BY DEF TWTypeOK, Unbuffered
<1>3. ASSUME UNCHANGED <<buffer, isFlushing, jobs>> PROVE Handled
  BY <1>3 DEF TWTypeOK, Unbuffered, Handled, BoundedJob
<1>4. CASE Start \/ UNCHANGED twvars
  <2>1. UNCHANGED <<async, buffer, isFlushing, written, accepted, jobs, db, late, faults>>
    BY <1>4 DEF Start, twvars
  <2>2. isRunning' \in BOOLEAN
    BY <1>2, <1>4, Zenon DEF Start, twvars
  <2>3. QED
    BY <1>1, <1>2, <1>3, <2>1, <2>2
<1>5. CASE Stop \/ StopReturns \/ Tick \/ \E p \in Callers : CheckOverflow(p)
  <2>1. UNCHANGED <<async, written, accepted, db, late, faults>>
    BY <1>5 DEF Stop, StopReturns, Tick, CheckOverflow
  <2>2. isRunning' = isRunning \/ isRunning' = FALSE
    BY <1>5 DEF Stop, StopReturns, Tick, CheckOverflow
  <2>3. QED
    BY <1>1, <1>2, <1>5, <2>1, <2>2, CalmBounded
<1>6. ASSUME NEW p \in Callers, Write(p) \/ \E n \in Sizes : WriteMany(p, n)
      PROVE  TWTypeOK' /\ Unbuffered'
  <2>1. UNCHANGED <<async, isRunning, written, db, late, faults>>
    BY <1>6 DEF Write, WriteMany
  <2>2. QED
    BY <1>1, <1>2, <1>6, <2>1, WriteBounded
<1>7. ASSUME NEW p \in Procs, Inserted(p) PROVE TWTypeOK' /\ Unbuffered'
  <2>1. UNCHANGED <<async, isRunning, accepted, late, faults>>
    BY <1>7 DEF Inserted
  <2>2. QED
    BY <1>1, <1>2, <1>7, <2>1, InsertBounded
<1>8. ASSUME NEW p \in Procs, Retry(p) PROVE TWTypeOK' /\ Unbuffered'
  <2>1. UNCHANGED <<async, isRunning, written, accepted, db, late, faults>>
    BY <1>8 DEF Retry
  <2>2. QED
    BY <1>1, <1>2, <1>8, <2>1, RetryBounded
<1>9. ASSUME NEW p \in Procs, NEW arrives \in BOOLEAN, InsertFails(p, arrives)
      PROVE  TWTypeOK' /\ Unbuffered'
  <2>1. UNCHANGED <<async, isRunning, written, accepted, db>>
    BY <1>9 DEF InsertFails
  <2>2. QED
    BY <1>1, <1>2, <1>9, <2>1, FailBounded
<1>10. CASE ArrivesLate
  <2>1. PICK l \in late : late' = late \ {l} /\ db' = db \o l.batch
    BY <1>10 DEF ArrivesLate
  <2>2. UNCHANGED <<async, buffer, isRunning, isFlushing, written, accepted, jobs, faults>>
    BY <1>10 DEF ArrivesLate
  <2>3. db' \in Seq(Trades)
    BY <1>2, <2>1
  <2>4. QED
    BY <1>1, <1>2, <1>3, <2>1, <2>2, <2>3
<1>11. QED
  BY <1>4, <1>5, <1>6, <1>7, <1>8, <1>9, <1>10 DEF TWNext

\* The types of the writer in both modes, for any callers, sizes, limits and faults: no
\* more is counted than was handed over, no insert is tried more than MaxRetries times,
\* and in the synchronous mode nothing is ever buffered or flushed.
THEOREM WriterTypes == TWSpec => []TWTypeOK
<1>1. TWInit => WriterInv
  BY WriterStarts
<1>2. TWInit => TWTypeOK /\ Unbuffered
  <2> SUFFICES ASSUME TWInit PROVE TWTypeOK /\ Unbuffered
    OBVIOUS
  <2>1. /\ async \in Modes /\ isRunning = FALSE /\ isFlushing = FALSE
        /\ buffer \in Seq(Trades) /\ db \in Seq(Trades) /\ jobs \in [Procs -> BoundedJob]
    BY IdleBounded DEF TWInit
  <2>2. written \in 0..MaxTrades /\ accepted \in 0..MaxTrades /\ faults \in 0..MaxFaults
    BY TradeWriterAssumption DEF TWInit
  <2>3. late = {} /\ Unbuffered
    BY IdleBounded DEF TWInit, Unbuffered
  <2>4. QED
    BY <2>1, <2>2, <2>3 DEF TWTypeOK, BoundedJob
<1>3. WriterInv /\ [TWNext]_twvars => WriterInv'
  BY WriterSteps
<1>4. WriterInv /\ WriterInv' /\ TWTypeOK /\ Unbuffered /\ [TWNext]_twvars
        => TWTypeOK' /\ Unbuffered'
  BY StaysTypedWriter
<1>5. QED
  BY <1>1, <1>2, <1>3, <1>4, PTL DEF TWSpec
=============================================================================
