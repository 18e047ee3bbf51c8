------------------------- MODULE RuntimePersistence -------------------------
(***************************************************************************)
(* What the runner writes to Redis of its orders and of one position       *)
(* (src/main.js), through OrderStore and PositionStore of                  *)
(* src/database/redis.  An event of the executor starts a persist call     *)
(* that nobody waits for; the call reads the record, then inserts it or    *)
(* reads it once more and updates it.  Each command goes out over the one  *)
(* connection, which answers in the order of sending.                      *)
(*                                                                         *)
(* A record is its hash and its status index.  The position's active index *)
(* always equals the index of status "open" and is not kept apart.  Trades *)
(* and strategy records, which no other call reads, are left out, and so   *)
(* are prices, times and the sorted indexes, which are only ever added to. *)
(***************************************************************************)
EXTENDS Naturals, Sequences, FiniteSets, SequencesExt

CONSTANTS Limits,       \* limit orders
          Markets,      \* market orders
          Buys,         \* the orders that buy; the others sell
          Position,     \* the record of the position
          MaxSubmits,   \* bound: submissions of an order
          MaxMishaps,   \* bound: commands that fail and restarts
          MaxCalls,     \* bound: persist calls under way together
          NullWritten   \* may hSet write a field whose value is null?

Orders == Limits \cup Markets

ASSUME RuntimePersistenceAssumption ==
    /\ Limits \cap Markets = {} /\ Buys \subseteq Orders /\ IsFiniteSet(Orders)
    /\ {MaxSubmits, MaxCalls} \subseteq Nat \ {0}
    /\ MaxMishaps \in Nat
    /\ NullWritten \subseteq BOOLEAN /\ NullWritten # {}
    /\ Position \notin Orders \X Nat

VARIABLES order,   \* the executor's orders: submissions, last events sent
          book,    \* _virtualPositions of the symbol
          hash,    \* the records
          index,   \* the status sets that hold each record
          wire,    \* commands sent and not answered, in order
          newest,  \* status of the newest event of each record
          missed,  \* records a call of which failed since their newest event
          mishaps

vars == <<order, book, hash, index, wire, newest, missed, mishaps>>

None == "none"
Final == {"filled", "failed", "canceled"}
Statuses == Final \cup {"submitted", "open", "closed"}

\* record.orderId: the exchange's id of a submission, or clientOrderId
\* before there is one
OrderIds == Orders \X (0..MaxSubmits)
Records == OrderIds \cup {Position}
Amounts == 0..Cardinality(Orders)

Command ==
    [of : Records, step : {"look", "old", "insert", "update"},
     to : Statuses, amount : Amounts, was : Statuses \cup {None}]

TypeOK ==
    /\ order \in [Orders -> [ids : 0..MaxSubmits, sent : SUBSET Final]]
    /\ book \in Amounts
    /\ hash \in [Records -> [status : Statuses \cup {None}, amount : Amounts]]
    /\ index \in [Records -> SUBSET Statuses]
    /\ wire \in Seq(Command)
    /\ newest \in [Records -> Statuses \cup {None}]
    /\ missed \subseteq Records
    /\ mishaps \in 0..MaxMishaps

Unsent == [ids |-> 0, sent |-> {}]

Init ==
    /\ order = [o \in Orders |-> Unsent]
    /\ book = 0
    /\ hash = [r \in Records |-> [status |-> None, amount |-> 0]]
    /\ index = [r \in Records |-> {}]
    /\ wire = <<>>
    /\ newest = [r \in Records |-> None]
    /\ missed = {}
    /\ mishaps = 0

-----------------------------------------------------------------------------
(* The executor's events *)

\* getById(): the first command of _persistOrderState and of
\* _syncRuntimePosition, which has read the book before
Look(r, to, amount) ==
    [of |-> r, step |-> "look", to |-> to, amount |-> amount, was |-> None]

PersistOrder(id, to) == Look(id, to, 0)
SyncPosition(amount) ==
    Look(Position, IF amount > 0 THEN "open" ELSE "closed", amount)

Persist(calls) ==
    LET told == {calls[i].of : i \in DOMAIN calls}
    IN /\ Len(wire) + Len(calls) <= MaxCalls
       /\ wire' = wire \o calls
       /\ newest' = [r \in Records |->
                        IF r \in told
                        THEN (CHOOSE c \in ToSet(calls) : c.of = r).to
                        ELSE newest[r]]
       /\ missed' = missed \ told
       /\ UNCHANGED <<hash, index, mishaps>>

\* _applyFilledOrderToVirtualPosition()
Applied(o) == IF o \in Buys THEN book + 1
              ELSE IF book > 0 THEN book - 1 ELSE 0

Active(o) == order[o].sent \cap {"filled", "failed"} = {}
Ended(o, ids, to) ==
    order' = [order EXCEPT ![o] = [ids |-> ids, sent |-> @.sent \cup {to}]]

\* a submission, or a resubmission under a new id of the exchange
Submitted(o) ==
    LET id == order[o].ids + 1
    IN /\ o \in Limits /\ Active(o) /\ id <= MaxSubmits
       /\ order' = [order EXCEPT ![o].ids = id]
       /\ Persist(<<PersistOrder(<<o, id>>, "submitted")>>)
       /\ UNCHANGED book

\* a market order gets its exchange id with the fill
Filled(o) ==
    LET id == IF o \in Markets THEN 1 ELSE order[o].ids
    IN /\ Active(o) /\ id > 0
       /\ Ended(o, id, "filled")
       /\ book' = Applied(o)
       /\ Persist(<<PersistOrder(<<o, id>>, "filled"),
                    SyncPosition(Applied(o))>>)

\* a cancel does not look whether the order was filled meanwhile, or is
\* still to be sent
EndedUnfilled(o, to) ==
    /\ to \in {"failed", "canceled"} \ order[o].sent
    /\ to = "failed" => Active(o)
    /\ Ended(o, order[o].ids, to)
    /\ Persist(<<PersistOrder(<<o, order[o].ids>>, to)>>)
    /\ UNCHANGED book

-----------------------------------------------------------------------------
(* The connection: the command at the head is carried out and answered,    *)
(* and the call sends its next one.                                        *)

\* mutant: a pool of connections, any command may be carried out next
AnswerablePooled(w) == DOMAIN w
Answerable(w) == {i \in DOMAIN w : i = 1}

Rest(i, more) == wire' = RemoveAt(wire, i) \o more

Exists(r) == hash[r].status # None

\* mutant: only a submission or an opening inserts the record
AfterLookSubmissionInserts(c) ==
    IF Exists(c.of) THEN <<[c EXCEPT !.step = "old"]>>
    ELSE IF c.to \in {"submitted", "open"}
         THEN <<[c EXCEPT !.step = "insert"]>> ELSE <<>>

\* what the answer to getById() makes the caller send
AfterLook(c) ==
    IF c.to = "closed"
    THEN IF hash[c.of].status = "open"
         THEN <<[c EXCEPT !.step = "old"]>> ELSE <<>>
    ELSE <<[c EXCEPT !.step = IF Exists(c.of) THEN "old" ELSE "insert"]>>

GetById(i) ==
    /\ wire[i].step = "look"
    /\ Rest(i, AfterLook(wire[i]))
    /\ UNCHANGED <<order, book, hash, index, newest, missed, mishaps>>

\* the first half of update(): no record, no update
ReadOld(i) ==
    LET c == wire[i]
    IN /\ c.step = "old"
       /\ Rest(i, IF Exists(c.of)
                  THEN <<[c EXCEPT !.step = "update",
                                   !.was = hash[c.of].status]>>
                  ELSE <<>>)
       /\ UNCHANGED <<order, book, hash, index, newest, missed, mishaps>>

Insert(i) ==
    LET c == wire[i]
    IN /\ c.step = "insert"
       /\ Rest(i, <<>>)
       /\ hash' = [hash EXCEPT ![c.of] = [status |-> c.to,
                                          amount |-> c.amount]]
       /\ index' = [index EXCEPT ![c.of] = @ \cup {c.to}]
       /\ UNCHANGED <<order, book, newest, missed, mishaps>>

\* mutant: update() leaves the amount out, as it does the entry price
WrittenNoAmount(c) == [status |-> c.to, amount |-> hash[c.of].amount]

\* close() leaves the amount alone
Written(c) == [status |-> c.to,
               amount |-> IF c.to = "closed" THEN hash[c.of].amount
                          ELSE c.amount]

Reindexed(c, set) == IF c.to = c.was THEN set ELSE (set \ {c.was}) \cup {c.to}

\* an order's update sets errorMessage to null unless the order failed
HasNull(c) == c.of # Position /\ c.to # "failed"

\* the second half of update(); a command the client refuses does not keep
\* the others of the transaction from being sent
Update(i) ==
    LET c == wire[i]
    IN /\ c.step = "update"
       /\ Rest(i, <<>>)
       /\ \E written \in NullWritten :
            hash' = IF HasNull(c) /\ ~written THEN hash
                    ELSE [hash EXCEPT ![c.of] = Written(c)]
       /\ index' = [index EXCEPT ![c.of] = Reindexed(c, @)]
       /\ UNCHANGED <<order, book, newest, missed, mishaps>>

Mishap == mishaps < MaxMishaps /\ mishaps' = mishaps + 1

\* the command is not carried out; the error is logged and the call ends
CommandFails(i) ==
    /\ Mishap
    /\ Rest(i, <<>>)
    /\ missed' = missed \cup {wire[i].of}
    /\ UNCHANGED <<order, book, hash, index, newest>>

Connection(A(_)) == \E i \in Answerable(wire) : A(i)

Answer == \/ Connection(GetById) \/ Connection(ReadOld)
          \/ Connection(Insert)  \/ Connection(Update)

\* the executor's orders and the book are only in memory, and nothing reads
\* the records back; what the exchange does with the orders goes unnoticed
Restart ==
    /\ Mishap
    /\ order' = [o \in Orders |-> IF order[o] = Unsent THEN Unsent
                                   ELSE [order[o] EXCEPT !.sent = Final]]
    /\ book' = 0
    /\ missed' = missed \cup {wire[i].of : i \in DOMAIN wire}
    /\ newest' = [newest EXCEPT ![Position] = None]
    /\ wire' = <<>>
    /\ UNCHANGED <<hash, index>>

Next ==
    \/ \E o \in Orders : \/ Submitted(o) \/ Filled(o)
                         \/ \E to \in Final : EndedUnfilled(o, to)
    \/ Answer
    \/ Connection(CommandFails)
    \/ Restart

Spec == Init /\ [][Next]_vars

-----------------------------------------------------------------------------
(* Properties *)

Quiet(r) == \A i \in DOMAIN wire : wire[i].of # r

\* When no call of an order id is under way, the id is in the status set of
\* its newest event (unless a command failed since), although the calls of
\* _persistOrderState overlap and two of them may insert the record: the
\* order of the one connection carries over to the index.
NewestIsIndexed ==
    \A id \in OrderIds : Quiet(id) /\ newest[id] # None /\ id \notin missed
        => newest[id] \in index[id]

\* An order id that reached a final status set never enters the open set
\* again: no overlapping call of an earlier event arrives after it.
NoWayBack ==
    [][\A id \in OrderIds :
          index[id] \cap Final # {} /\ "submitted" \in index'[id]
            => "submitted" \in index[id]]_vars

\* When no sync is under way and none failed, the record of a position that
\* is open has status open and the book's amount, whatever syncs of earlier
\* fills, which read the book before they read the record, were overlapped.
PositionFollowsBook ==
    Quiet(Position) /\ newest[Position] = "open" /\ Position \notin missed
        => hash[Position] = [status |-> "open", amount |-> book]

-----------------------------------------------------------------------------
(* What one would expect and TLC refutes; see the README.                  *)

\* getOpenOrders() lists no id whose newest event is final.
EndedIsNotOpen ==
    \A id \in OrderIds : Quiet(id) /\ newest[id] \in Final /\ id \notin missed
        => "submitted" \notin index[id]

\* "use a transaction for atomicity" (OrderStore.js:232): a record is in
\* the status set of its own status and in no other.
IndexIsTheStatus ==
    \A r \in Records : Quiet(r) /\ Exists(r) => index[r] = {hash[r].status}

\* getOpenPositions() lists a position the book holds.
OpenIsListed ==
    Quiet(Position) /\ newest[Position] = "open" /\ Position \notin missed
        => "open" \in index[Position]

\* A position the book no longer holds is closed in its record.
ClosedIsClosed ==
    Quiet(Position) /\ newest[Position] = "closed" /\ Position \notin missed
        => hash[Position].status # "open"

\* The id of an order that was resubmitted under another is closed.
OldIdEnds ==
    \A o \in Orders : \A k \in 1..MaxSubmits : k < order[o].ids /\ wire = <<>>
        => "submitted" \notin index[<<o, k>>]

\* After a restart no record says open of what nobody holds or follows.
RestartIsNoticed ==
    Quiet(Position) /\ newest[Position] = None
        => "open" \notin index[Position]

==============================================================================
