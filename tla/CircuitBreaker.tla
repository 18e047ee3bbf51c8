---------------------------- MODULE CircuitBreaker ---------------------------
(***************************************************************************)
(* class CircuitBreaker of src/risk/CircuitBreaker.js, around calls that   *)
(* settle in any order: the state may have changed, more than once, when   *)
(* the result of a call is recorded.                                       *)
(*                                                                         *)
(* Time passes in ticks of one bucket of the window.  Only what a test     *)
(* tells apart is kept: how old the state is, up to the timeout, and the   *)
(* consecutive results up to their thresholds.                             *)
(***************************************************************************)
EXTENDS Integers, FiniteSets, FiniteSetsExt

CONSTANTS Calls,              \* calls that can be in flight together
          FailureThreshold, SuccessThreshold, HalfOpenMaxCalls,
          VolumeThreshold,
          RateNum, RateDen,   \* errorRateThreshold, as a fraction
          Timeout,            \* config.timeout, in ticks
          WindowSize,         \* window.size, in buckets
          MaxInWindow,        \* bound: results in the window
          MaxManual           \* bound: calls of trip() and reset()

ASSUME CircuitBreakerAssumption ==
    /\ IsFiniteSet(Calls)
    /\ FailureThreshold \in Nat \ {0} /\ SuccessThreshold \in Nat \ {0}
    /\ HalfOpenMaxCalls \in Nat \ {0} /\ VolumeThreshold \in Nat \ {0}
    /\ RateNum \in Nat /\ RateDen \in Nat \ {0}
    /\ Timeout \in Nat /\ WindowSize \in Nat
    /\ MaxInWindow \in Nat /\ MaxManual \in Nat

VARIABLES state,
          age,                   \* time since lastStateChange
          consecutiveFailures, consecutiveSuccesses,
          halfOpenCalls,
          buckets,               \* by age: the successes and failures counted
          at,       \* each call: idle, in flight, or in flight as a probe, which is
                    \* one let through in the present half-open state
          won,      \* successes recorded in the present half-open state
          manual

counters == <<consecutiveFailures, consecutiveSuccesses>>
vars == <<state, age, counters, halfOpenCalls, buckets, at, won, manual>>

Ages == 0..WindowSize
UpTo(n, bound) == IF n > bound THEN bound ELSE n

Init ==
    /\ state = "closed"
    /\ age = 0
    /\ consecutiveFailures = 0
    /\ consecutiveSuccesses = 0
    /\ halfOpenCalls = 0
    /\ buckets = [i \in Ages |-> [successes |-> 0, failures |-> 0]]
    /\ at = [c \in Calls |-> "idle"]
    /\ won = 0
    /\ manual = 0

\* getWindowStats()
Failures(b) == MapThenSumSet(LAMBDA i : b[i].failures, Ages)
Total(b) == Failures(b) + MapThenSumSet(LAMBDA i : b[i].successes, Ages)

\* mutant: > for >=
ShouldTripAbove(b, failures) ==
    \/ failures > FailureThreshold
    \/ Total(b) >= VolumeThreshold /\ Failures(b) * RateDen > Total(b) * RateNum

\* shouldTrip(), with the window and the consecutive failures of now
ShouldTrip(b, failures) ==
    \/ failures >= FailureThreshold
    \/ Total(b) >= VolumeThreshold /\ Failures(b) * RateDen >= Total(b) * RateNum

\* the calls in flight when the state becomes `new': no longer probes
Demoted(calls, new) ==
    [c \in Calls |-> IF calls[c] = "probe" /\ new # "half_open" THEN "call" ELSE calls[c]]

\* mutant: the probes of an earlier half-open state still count
TransitionKeepingCalls(new, failures, successes, calls) ==
    /\ state' = new
    /\ age' = 0
    /\ UNCHANGED halfOpenCalls
    /\ consecutiveFailures' = IF new = "closed" THEN 0 ELSE failures
    /\ consecutiveSuccesses' = IF new = "closed" THEN 0 ELSE successes
    /\ at' = Demoted(calls, new)
    /\ won' = 0

\* transitionTo(new), where the counters and the calls in flight are as given
TransitionTo(new, failures, successes, calls) ==
    /\ state' = new
    /\ age' = 0
    /\ halfOpenCalls' = IF new = "half_open" THEN 0 ELSE halfOpenCalls
    /\ consecutiveFailures' = IF new = "closed" THEN 0 ELSE failures
    /\ consecutiveSuccesses' = IF new = "closed" THEN 0 ELSE successes
    /\ at' = Demoted(calls, new)
    /\ won' = 0

\* no transition
Stay(failures, successes, calls) ==
    /\ consecutiveFailures' = failures
    /\ consecutiveSuccesses' = successes
    /\ at' = calls
    /\ UNCHANGED <<state, age>>

InFlight == {c \in Calls : at[c] # "idle"}
Probes == {c \in Calls : at[c] = "probe"}
------------------------------------------------------------------------------
\* mutants: the calls of the half-open state are not counted; one too many is
CountedNever == UNCHANGED halfOpenCalls

CountedProbe == /\ halfOpenCalls < HalfOpenMaxCalls
                /\ halfOpenCalls' = halfOpenCalls + 1

\* canExecute() returns true: closed, open for long enough (the call that finds
\* it so is let through and not counted), or a probe of the half-open state
Admit(c) ==
    \/ /\ state = "closed"
       /\ Stay(consecutiveFailures, consecutiveSuccesses, [at EXCEPT ![c] = "call"])
       /\ UNCHANGED <<halfOpenCalls, won>>
    \/ /\ state = "open" /\ age >= Timeout
       /\ TransitionTo("half_open", consecutiveFailures, consecutiveSuccesses,
                       [at EXCEPT ![c] = "probe"])
    \/ /\ state = "half_open"
       /\ CountedProbe
       /\ Stay(consecutiveFailures, consecutiveSuccesses, [at EXCEPT ![c] = "probe"])
       /\ UNCHANGED won

\* execute() up to its await; a rejected call changes statistics only
Execute(c) ==
    /\ at[c] = "idle"
    /\ Total(buckets) + Cardinality(InFlight) < MaxInWindow
    /\ Admit(c)
    /\ UNCHANGED <<buckets, manual>>

\* the call resolves: addToBucket(true) and the rest of recordSuccess()
Succeed(c) ==
    LET successes == UpTo(consecutiveSuccesses + 1, SuccessThreshold)
        calls == [at EXCEPT ![c] = "idle"]
    IN
    /\ at[c] # "idle"
    /\ buckets' = [buckets EXCEPT ![0].successes = @ + 1]
    /\ IF state = "half_open" /\ successes >= SuccessThreshold
       THEN TransitionTo("closed", 0, successes, calls)
       ELSE /\ Stay(0, successes, calls)
            /\ won' = IF state = "half_open" THEN UpTo(won + 1, SuccessThreshold) ELSE won
            /\ UNCHANGED halfOpenCalls
    /\ UNCHANGED manual

\* mutant: a failure opens the breaker in any state
TripsAlways(b, failures) == state = "half_open" \/ state = "open" \/ ShouldTrip(b, failures)

\* the state transition of recordFailure()
Trips(b, failures) == state = "half_open" \/ (state = "closed" /\ ShouldTrip(b, failures))

\* the call rejects: addToBucket(false) and the rest of recordFailure()
Fail(c) ==
    LET failures == UpTo(consecutiveFailures + 1, FailureThreshold)
        calls == [at EXCEPT ![c] = "idle"]
    IN
    /\ at[c] # "idle"
    /\ buckets' = [buckets EXCEPT ![0].failures = @ + 1]
    /\ IF Trips(buckets', failures)
       THEN TransitionTo("open", failures, 0, calls)
       ELSE Stay(failures, 0, calls) /\ UNCHANGED <<won, halfOpenCalls>>
    /\ UNCHANGED manual

\* trip()
Trip == /\ manual < MaxManual
        /\ manual' = manual + 1
        /\ TransitionTo("open", consecutiveFailures, consecutiveSuccesses, at)
        /\ UNCHANGED buckets

\* reset()
Reset == /\ manual < MaxManual
         /\ manual' = manual + 1
         /\ TransitionTo("closed", 0, 0, at)
         /\ UNCHANGED buckets

\* the buckets getWindowStats() still counts when the next one begins
Shifted ==
    [i \in Ages |-> IF i = 0 THEN [successes |-> 0, failures |-> 0] ELSE buckets[i - 1]]

Tick == /\ age' = UpTo(age + 1, Timeout)
        /\ buckets' = Shifted
        /\ UNCHANGED <<state, counters, halfOpenCalls, at, won, manual>>

Next == \/ \E c \in Calls : Execute(c) \/ Succeed(c) \/ Fail(c)
        \/ Trip \/ Reset \/ Tick

\* callers go on calling, their calls settle, and time passes
Fairness ==
    /\ WF_vars(Tick)
    /\ WF_vars(\E c \in Calls : Execute(c))
    /\ \A c \in Calls : WF_vars(Succeed(c) \/ Fail(c))

Spec == Init /\ [][Next]_vars /\ Fairness
------------------------------------------------------------------------------
TypeOK ==
    /\ state \in {"closed", "open", "half_open"}
    /\ age \in 0..Timeout
    /\ consecutiveFailures \in 0..FailureThreshold
    /\ consecutiveSuccesses \in 0..SuccessThreshold
    /\ halfOpenCalls \in 0..HalfOpenMaxCalls
    /\ buckets \in [Ages -> [successes : 0..MaxInWindow, failures : 0..MaxInWindow]]
    /\ at \in [Calls -> {"idle", "call", "probe"}]
    /\ won \in 0..SuccessThreshold
    /\ manual \in 0..MaxManual

\* A closed breaker is one that has not seen failureThreshold failures in a row,
\* also when failures of calls from before an open state come in late.
ClosedBelowThreshold == state = "closed" => consecutiveFailures < FailureThreshold

\* The protected service gets few calls while it is tried out: those counted and
\* the one that found the timeout over, in every half-open state again.
FewProbes == Cardinality(Probes) <= HalfOpenMaxCalls + 1

\* Failures that come in while it is open do not keep it open: only trip()
\* starts the timeout again.
OpenNotProlonged ==
    [][state = "open" /\ state' = "open" => age' >= age \/ manual' > manual]_vars

\* The breaker does not get stuck: an open one is tried out and a half-open one
\* closes or opens, as long as callers go on and their calls settle.
NotStuck == /\ state = "open" ~> state # "open"
            /\ state = "half_open" ~> state # "half_open"

\* Refuted.  "Success threshold (back to normal)": it closes after as many
\* successes of the half-open state.
ClosesOnSuccesses ==
    [][state = "half_open" /\ state' = "closed" /\ manual' = manual =>
          won + 1 >= SuccessThreshold]_vars

\* Refuted.  "Maximum number of trial calls in the half-open state".
ProbesBounded == Cardinality(Probes) <= HalfOpenMaxCalls
==============================================================================
