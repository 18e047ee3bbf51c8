----------------------------- MODULE TradeWriter -----------------------------
(***************************************************************************)
(* class TradeWriter of src/database/clickhouse/TradeWriter.js (and, with  *)
(* the same flush(), AuditLogWriter.js beside it): trades are buffered and *)
(* written to ClickHouse in batches.                                       *)
(*                                                                         *)
(* Trades are numbered in the order in which they are handed over.  A      *)
(* process is a caller of write() or writeBatch(), the flush timer, or the *)
(* caller of stop(); code between two awaits is one action.                *)
(***************************************************************************)
EXTENDS Integers, Sequences, FiniteSets, Functions

CONSTANTS Callers,
          Modes,          \* the values of config.async
          BatchSize, MaxBufferSize, MaxRetries,
          Sizes,          \* how many trades a writeBatch() may carry
          MaxTrades,      \* bound: trades handed over
          MaxFaults       \* bound: inserts that fail

Timer == "timer"
Stopper == "stopper"
Procs == Callers \cup {Timer, Stopper}

ASSUME TradeWriterAssumption ==
    /\ Callers \cap {Timer, Stopper} = {}
    /\ Modes \subseteq BOOLEAN
    /\ BatchSize \in Nat \ {0}
    /\ MaxBufferSize \in Nat \ {0}
    /\ MaxRetries \in Nat \ {0}
    /\ Sizes \subseteq Nat
    /\ MaxTrades \in Nat
    /\ MaxFaults \in Nat

VARIABLES async,        \* config.async, set once
          buffer,       \* trades not yet handed to a flush
          isRunning,    \* with the flush timer, which start() sets and stop() clears
          isFlushing,
          written,      \* stats.totalWritten
          accepted,     \* how many trades were handed over so far
          jobs,         \* what each process awaits
          db,           \* rows of the table, in the order in which they arrived
          late,         \* inserts given up on by the client that may still arrive
          faults

twvars == <<async, buffer, isRunning, isFlushing, written, accepted, jobs, db, late, faults>>

\* trades a+1 .. b
Ids(a, b) == [i \in 1..(b - a) |-> a + i]

Steps == {"idle", "insert", "delay", "check", "stopping"}

\* step: where the process is; batch: what its _writeBatch() writes, and once that
\* has resolved what it wrote; flush: whether _writeBatch() runs in flush(); then:
\* where the process goes on; due: what had been handed over when it called flush()
Idle == [step |-> "idle", batch |-> <<>>, retries |-> 0, flush |-> FALSE,
         then |-> "idle", due |-> 0]

TWInit == /\ async \in Modes
          /\ buffer = <<>>
          /\ isRunning = FALSE
          /\ isFlushing = FALSE
          /\ written = 0
          /\ accepted = 0
          /\ jobs = [p \in Procs |-> Idle]
          /\ db = <<>>
          /\ late = {}
          /\ faults = 0

IsFree(p) == jobs[p].step = "idle"

\* flush(), with b in the buffer: a second flush and a flush of nothing return at
\* once, the others take the buffer and await _writeBatch()
FlushThen(p, b, then) ==
    IF isFlushing \/ b = <<>>
    THEN /\ buffer' = b
         /\ jobs' = [jobs EXCEPT ![p] = [Idle EXCEPT !.step = then, !.due = accepted]]
         /\ UNCHANGED isFlushing
    ELSE /\ isFlushing' = TRUE
         /\ buffer' = <<>>
         /\ jobs' = [jobs EXCEPT ![p] = [Idle EXCEPT !.step = "insert", !.batch = b,
                         !.flush = TRUE, !.then = then, !.due = accepted]]

------------------------------------------------------------------------------
Start == /\ ~isRunning
         /\ isRunning' = TRUE
         /\ UNCHANGED <<async, buffer, isFlushing, written, accepted, jobs, db, late, faults>>

\* stop(): the timer is cleared and what is in the buffer flushed
Stop == /\ isRunning
        /\ IsFree(Stopper)
        /\ isRunning' = FALSE
        /\ FlushThen(Stopper, buffer, "stopping")
        /\ UNCHANGED <<async, written, accepted, db, late, faults>>

\* the end of stop(): it emits 'stopped'
StopReturns ==
    /\ jobs[Stopper].step = "stopping"
    /\ jobs' = [jobs EXCEPT ![Stopper] = Idle]
    /\ UNCHANGED <<async, buffer, isRunning, isFlushing, written, accepted, db, late, faults>>

\* setInterval(() => flush(), flushInterval); a tick that finds nothing to do
\* changes nothing
Tick == /\ async
        /\ isRunning
        /\ ~isFlushing
        /\ buffer # <<>>
        /\ FlushThen(Timer, buffer, "idle")
        /\ UNCHANGED <<async, isRunning, written, accepted, db, late, faults>>

\* _writeBatch() outside of flush(), in synchronous mode
WriteDirectly(p, trades) ==
    /\ jobs' = [jobs EXCEPT ![p] = [Idle EXCEPT !.step = "insert", !.batch = trades]]
    /\ UNCHANGED <<buffer, isFlushing>>

\* write() of one trade.  A flush that was awaited is followed by the test of
\* maxBufferSize in a later step; without one the test comes at once.
Write(p) ==
    /\ IsFree(p)
    /\ accepted < MaxTrades
    /\ accepted' = accepted + 1
    /\ LET b == Append(buffer, accepted + 1) IN
       IF ~async THEN WriteDirectly(p, <<accepted + 1>>)
       ELSE IF Len(b) >= BatchSize THEN FlushThen(p, b, "check")
       ELSE IF Len(b) >= MaxBufferSize THEN FlushThen(p, b, "idle")
       ELSE /\ buffer' = b
            /\ jobs' = [jobs EXCEPT ![p] = Idle]
            /\ UNCHANGED isFlushing
    /\ UNCHANGED <<async, isRunning, written, db, late, faults>>

\* writeBatch(): no test of maxBufferSize
WriteMany(p, n) ==
    /\ IsFree(p)
    /\ accepted + n <= MaxTrades
    /\ accepted' = accepted + n
    /\ LET trades == Ids(accepted, accepted + n) IN
       IF ~async THEN WriteDirectly(p, trades)
       ELSE IF Len(buffer \o trades) >= BatchSize
            THEN FlushThen(p, buffer \o trades, "idle")
       ELSE /\ buffer' = buffer \o trades
            /\ jobs' = [jobs EXCEPT ![p] = Idle]
            /\ UNCHANGED isFlushing
    /\ UNCHANGED <<async, isRunning, written, db, late, faults>>

\* write() goes on after its flush(): buffer:overflow and a second flush
CheckOverflow(p) ==
    /\ jobs[p].step = "check"
    /\ IF Len(buffer) >= MaxBufferSize
       THEN FlushThen(p, buffer, "idle")
       ELSE /\ jobs' = [jobs EXCEPT ![p] = Idle]
            /\ UNCHANGED <<buffer, isFlushing>>
    /\ UNCHANGED <<async, isRunning, written, accepted, db, late, faults>>

\* clickhouse.insert() resolves: the rows are there; flush() counts them and returns
Inserted(p) ==
    /\ jobs[p].step = "insert"
    /\ db' = db \o jobs[p].batch
    /\ jobs' = [jobs EXCEPT ![p].step = jobs[p].then, ![p].flush = FALSE]
    /\ IF jobs[p].flush
       THEN /\ written' = written + Len(jobs[p].batch)
            /\ isFlushing' = FALSE
       ELSE UNCHANGED <<written, isFlushing>>
    /\ UNCHANGED <<async, buffer, isRunning, accepted, late, faults>>

\* mutants of Rejected: the batch goes behind the trades that came during the flush; is
\* forgotten; the error is swallowed by _writeBatch(); isFlushing stays up
RejectedToTheEnd(p) ==
    /\ jobs' = [jobs EXCEPT ![p] = Idle]
    /\ IF jobs[p].flush
       THEN /\ buffer' = buffer \o jobs[p].batch
            /\ isFlushing' = FALSE
       ELSE UNCHANGED <<buffer, isFlushing>>
RejectedForgetting(p) ==
    /\ jobs' = [jobs EXCEPT ![p] = Idle]
    /\ isFlushing' = FALSE
    /\ UNCHANGED buffer
RejectedStillFlushing(p) ==
    /\ jobs' = [jobs EXCEPT ![p] = Idle]
    /\ IF jobs[p].flush
       THEN buffer' = jobs[p].batch \o buffer
       ELSE UNCHANGED buffer
    /\ UNCHANGED isFlushing

\* insert() rejects for the last time: _writeBatch() throws, flush() puts the batch
\* back in front of the buffer and rethrows, and so does its caller
Rejected(p) ==
    /\ jobs' = [jobs EXCEPT ![p] = Idle]
    /\ IF jobs[p].flush
       THEN /\ buffer' = jobs[p].batch \o buffer
            /\ isFlushing' = FALSE
       ELSE UNCHANGED <<buffer, isFlushing>>

\* while (retries < maxRetries), after retries++
RetriesLeft(p) == jobs[p].retries + 1 < MaxRetries

\* insert() rejects; ClickHouse may have stored the rows, or may do so later
InsertFails(p, arrives) ==
    /\ jobs[p].step = "insert"
    /\ faults < MaxFaults
    /\ faults' = faults + 1
    /\ late' = late \cup (IF arrives THEN {[n |-> faults, batch |-> jobs[p].batch]} ELSE {})
    /\ IF RetriesLeft(p)
       THEN /\ jobs' = [jobs EXCEPT ![p].step = "delay", ![p].retries = @ + 1]
            /\ UNCHANGED <<buffer, isFlushing>>
       ELSE Rejected(p)
    /\ UNCHANGED <<async, isRunning, written, accepted, db>>

\* the timer of retryDelay fires
Retry(p) ==
    /\ jobs[p].step = "delay"
    /\ jobs' = [jobs EXCEPT ![p].step = "insert"]
    /\ UNCHANGED <<async, buffer, isRunning, isFlushing, written, accepted, db, late, faults>>

\* ClickHouse stores the rows of an insert whose client has given up on it
ArrivesLate ==
    /\ \E l \in late : late' = late \ {l} /\ db' = db \o l.batch
    /\ UNCHANGED <<async, buffer, isRunning, isFlushing, written, accepted, jobs, faults>>

TWNext == \/ Start \/ Stop \/ StopReturns \/ Tick \/ ArrivesLate
          \/ \E p \in Callers :
                \/ Write(p)
                \/ CheckOverflow(p)
                \/ \E n \in Sizes : WriteMany(p, n)
          \/ \E p \in Procs :
                \/ Inserted(p)
                \/ Retry(p)
                \/ \E arrives \in BOOLEAN : InsertFails(p, arrives)

\* The event loop runs timers and continuations, and ClickHouse answers each insert
\* (the client gives up after request_timeout, and at most MaxFaults times).
Fairness ==
    /\ WF_twvars(Tick)
    /\ WF_twvars(StopReturns)
    /\ \A p \in Procs : WF_twvars(Inserted(p)) /\ WF_twvars(Retry(p)) /\ WF_twvars(CheckOverflow(p))

TWSpec == TWInit /\ [][TWNext]_twvars /\ Fairness
------------------------------------------------------------------------------
Trades == 1..MaxTrades

TWTypeOK ==
    /\ async \in Modes
    /\ buffer \in Seq(Trades)
    /\ isRunning \in BOOLEAN
    /\ isFlushing \in BOOLEAN
    /\ written \in 0..MaxTrades
    /\ accepted \in 0..MaxTrades
    /\ jobs \in [Procs -> [step : Steps, batch : Seq(Trades), retries : 0..(MaxRetries - 1),
                           flush : BOOLEAN, then : Steps, due : 0..MaxTrades]]
    /\ db \in Seq(Trades)
    /\ \A l \in late : l.n \in 0..(MaxFaults - 1) /\ l.batch \in Seq(Trades)
    /\ faults \in 0..MaxFaults

Flushing == {p \in Procs : jobs[p].flush}

\* Two flushes never run at the same time (the timer's, a writer's and that of
\* stop() may all be called while one is awaited), and through failures, retries
\* and writes that arrive during a flush its trades followed by those in the buffer
\* are exactly the ones handed over and not yet counted in totalWritten, once each
\* and in their order.
Conserved ==
    async => /\ Cardinality(Flushing) <= 1
             /\ LET flight == IF Flushing = {} THEN <<>>
                              ELSE jobs[CHOOSE p \in Flushing : TRUE].batch
                IN  flight \o buffer = Ids(written, accepted)

\* When _writeBatch() has resolved the rows are in the table: no retry loop ends
\* without the answer of an insert that succeeded.
ResolvedIsStored ==
    \A p \in Procs : jobs[p].step \notin {"insert", "delay"} =>
        Range(jobs[p].batch) \subseteq Range(db)

\* So a trade handed over waits in the buffer or in the one flush, or is stored.
NothingLost == Conserved /\ ResolvedIsStored

\* A trade is stored twice only when ClickHouse stored rows it did not confirm.
TwiceOnlyAfterFault ==
    faults = 0 => \A i, j \in DOMAIN db : db[i] = db[j] => i = j

\* A reader of the table always finds the first trades handed over, none missing
\* before a later one, whatever fails and is repeated: the specification of
\* PrefixLog.  (Direct writes of the synchronous mode overtake each other.)
Log == INSTANCE PrefixLog WITH stored <- IF async THEN Range(db) ELSE {}
StoresInOrder == Log!Spec

\* A trade handed over to the buffer reaches the table, although flushes fail and
\* overlap, as long as the writer is not stopped.
EveryTradeStored ==
    \A t \in Trades : (async /\ accepted >= t) ~> (t \in Range(db) \/ ~isRunning)

\* Refuted.  "Flush remaining trades": when stop() emits 'stopped', what had been
\* handed over before it was called is stored.
StoppedIsStored ==
    [][jobs[Stopper].step = "stopping" /\ jobs'[Stopper].step # "stopping" =>
          1..jobs[Stopper].due \subseteq Range(db)]_twvars

\* Refuted.  "Max buffer size".
BufferBounded == Len(buffer) <= MaxBufferSize
==============================================================================
