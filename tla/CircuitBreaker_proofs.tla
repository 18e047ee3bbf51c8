------------------------ MODULE CircuitBreaker_proofs ------------------------
(***************************************************************************)
(* What CircuitBreaker promises for any thresholds, window and number of   *)
(* calls, whose results come in at any time and in any order.  The sums    *)
(* over the window enter only through the test made of them.               *)
(***************************************************************************)
EXTENDS CircuitBreaker, FiniteSetTheorems, TLAPS

States == {"closed", "open", "half_open"}

Typing ==
    /\ state \in States
    /\ age \in 0..Timeout
    /\ consecutiveFailures \in 0..FailureThreshold
    /\ consecutiveSuccesses \in 0..SuccessThreshold
    /\ halfOpenCalls \in 0..HalfOpenMaxCalls
    /\ at \in [Calls -> {"idle", "call", "probe"}]
    /\ manual \in Nat

\* a probe belongs to a half-open state, and is counted there or is the one
\* that found the timeout over
ProbesCounted ==
    /\ state # "half_open" => Probes = {}
    /\ Cardinality(Probes) <= halfOpenCalls + 1

IInv == /\ Typing
        /\ ClosedBelowThreshold
        /\ ProbesCounted

------------------------------------------------------------------------------
\* The probes are some of the finitely many calls.
LEMMA ProbesFinite == ASSUME Typing PROVE IsFiniteSet(Probes)
<1>1. Probes \subseteq Calls
  BY DEF Probes
<1>2. QED
  BY <1>1, CircuitBreakerAssumption, FS_Subset

\* a counter capped by UpTo stays within its bound
LEMMA Capped ==
  ASSUME NEW bound \in Nat, NEW n \in 0..bound
  PROVE  /\ UpTo(n + 1, bound) \in 0..bound
         /\ UpTo(n + 1, bound) >= n
BY DEF UpTo

\* Where calls in flight end or lose their state, no probe is added.
LEMMA FewerProbes ==
  ASSUME Typing, Probes' \subseteq Probes
  PROVE  /\ IsFiniteSet(Probes')
         /\ Cardinality(Probes') \in Nat
         /\ Cardinality(Probes') <= Cardinality(Probes)
BY ProbesFinite, FS_Subset, FS_CardinalityType

\* A call that is let through as a probe adds one.
LEMMA OneMoreProbe ==
  ASSUME Typing, NEW c \in Calls, at' = [at EXCEPT ![c] = "probe"]
  PROVE  /\ Probes' = Probes \cup {c}
         /\ Cardinality(Probes') \in Nat /\ Cardinality(Probes) \in Nat
         /\ Cardinality(Probes') <= Cardinality(Probes) + 1
<1>1. Probes' = Probes \cup {c}
  BY DEF Probes, Typing
<1>2. IsFiniteSet(Probes)
  BY ProbesFinite
<1>3. Cardinality(Probes) \in Nat
  BY <1>2, FS_CardinalityType
<1>4. Cardinality(Probes \cup {c}) \in {Cardinality(Probes), Cardinality(Probes) + 1}
  BY <1>2, FS_AddElement
<1>5. QED
  BY <1>1, <1>3, <1>4

------------------------------------------------------------------------------
\* A new breaker has no probes and no failures.
LEMMA Initial == Init => IInv
<1> SUFFICES ASSUME Init PROVE IInv
  OBVIOUS
<1>1. Probes = {}
  BY DEF Init, Probes
<1>2. Cardinality(Probes) = 0
  BY <1>1, FS_EmptySet
<1>3. QED
  BY <1>1, <1>2, CircuitBreakerAssumption
  DEF Init, IInv, Typing, States, ClosedBelowThreshold, ProbesCounted

\* A transition out of, or not into, the half-open state leaves no probe.
LEMMA Transition ==
  ASSUME IInv, NEW new \in {"closed", "open"},
         NEW failures \in 0..FailureThreshold, NEW successes \in 0..SuccessThreshold,
         NEW calls \in [Calls -> {"idle", "call", "probe"}],
         TransitionTo(new, failures, successes, calls), manual' \in Nat
  PROVE  IInv'
<1>1. Typing'
  BY CircuitBreakerAssumption DEF IInv, Typing, States, TransitionTo, Demoted
<1>2. ClosedBelowThreshold'
  BY CircuitBreakerAssumption DEF TransitionTo, ClosedBelowThreshold
<1>3. Probes' = {}
  BY DEF TransitionTo, Demoted, Probes
<1>4. Cardinality(Probes') = 0
  BY <1>3, FS_EmptySet
<1>5. QED
  BY <1>1, <1>2, <1>3, <1>4 DEF IInv, ProbesCounted, Typing

\* Admitting a call keeps the invariant.
LEMMA ExecuteKeeps == ASSUME IInv, NEW c \in Calls, Execute(c) PROVE IInv'
<1> USE DEF IInv
<1>m. manual' \in Nat
  BY DEF Execute, Typing
<1>1. CASE state = "closed"
  <2>1. Stay(consecutiveFailures, consecutiveSuccesses, [at EXCEPT ![c] = "call"])
        /\ halfOpenCalls' = halfOpenCalls
    BY <1>1 DEF Execute, Admit
  <2>2. Typing' /\ ClosedBelowThreshold'
    BY <2>1, <1>m DEF Stay, Typing, ClosedBelowThreshold
  <2>3. Probes' \subseteq Probes
    BY <2>1 DEF Stay, Probes, Typing
  <2>4. QED
    BY <2>1, <2>2, <2>3, FewerProbes, <1>1, FS_CardinalityType, ProbesFinite
    DEF ProbesCounted, Stay, Typing
<1>2. CASE state = "open"
  <2>1. TransitionTo("half_open", consecutiveFailures, consecutiveSuccesses,
                     [at EXCEPT ![c] = "probe"])
    BY <1>2 DEF Execute, Admit
  <2>2. at' = [at EXCEPT ![c] = "probe"]
    BY <2>1 DEF TransitionTo, Demoted, Typing
  <2>3. Typing' /\ ClosedBelowThreshold'
    <3>1. /\ state' = "half_open" /\ age' = 0 /\ halfOpenCalls' = 0
          /\ consecutiveFailures' = consecutiveFailures
          /\ consecutiveSuccesses' = consecutiveSuccesses
      BY <2>1 DEF TransitionTo
    <3>2. at' \in [Calls -> {"idle", "call", "probe"}]
      BY <2>2 DEF Typing
    <3>3. QED
      BY <3>1, <3>2, <1>m, CircuitBreakerAssumption
      DEF Typing, States, ClosedBelowThreshold
  <2>4. Probes = {} /\ Cardinality(Probes) = 0
    BY <1>2, FS_EmptySet DEF ProbesCounted
  <2>5. Cardinality(Probes') <= 1 /\ Cardinality(Probes') \in Nat
    <3>1. /\ Cardinality(Probes') <= Cardinality(Probes) + 1
          /\ Cardinality(Probes') \in Nat
      BY <2>2, OneMoreProbe
    <3>2. QED
      BY <3>1, <2>4
  <2>6. QED
    BY <2>1, <2>3, <2>5 DEF ProbesCounted, TransitionTo
<1>3. CASE state = "half_open"
  <2>1. CountedProbe
        /\ Stay(consecutiveFailures, consecutiveSuccesses, [at EXCEPT ![c] = "probe"])
    BY <1>3 DEF Execute, Admit
  <2>2. Typing' /\ ClosedBelowThreshold'
    BY <2>1, <1>m, CircuitBreakerAssumption
    DEF Stay, CountedProbe, Typing, ClosedBelowThreshold
  <2>3. at' = [at EXCEPT ![c] = "probe"]
    BY <2>1 DEF Stay
  <2>4. Cardinality(Probes') <= Cardinality(Probes) + 1
        /\ Cardinality(Probes') \in Nat /\ Cardinality(Probes) \in Nat
    BY <2>3, OneMoreProbe
  <2>5. QED
    BY <1>3, <2>1, <2>2, <2>4 DEF ProbesCounted, CountedProbe, Stay, Typing
<1>4. QED
  BY <1>1, <1>2, <1>3 DEF Typing, States

\* A result that changes the counters and no more.
LEMMA StayKeeps ==
  ASSUME IInv, NEW c \in Calls,
         NEW failures \in 0..FailureThreshold, NEW successes \in 0..SuccessThreshold,
         state = "closed" => failures < FailureThreshold,
         Stay(failures, successes, [at EXCEPT ![c] = "idle"]),
         halfOpenCalls' = halfOpenCalls, manual' = manual
  PROVE  IInv'
<1>1. Typing' /\ ClosedBelowThreshold'
  BY DEF IInv, Typing, Stay, ClosedBelowThreshold
<1>2. Probes' \subseteq Probes
  BY DEF Stay, Probes, IInv, Typing
<1>3. Cardinality(Probes') <= Cardinality(Probes) /\ Cardinality(Probes') \in Nat
      /\ Cardinality(Probes) \in Nat
  BY <1>2, FewerProbes, ProbesFinite, FS_CardinalityType DEF IInv
<1>4. QED
  BY <1>1, <1>2, <1>3 DEF IInv, ProbesCounted, Stay, Typing

\* A success keeps the invariant.
LEMMA SucceedKeeps == ASSUME IInv, NEW c \in Calls, Succeed(c) PROVE IInv'
<1> DEFINE successes == UpTo(consecutiveSuccesses + 1, SuccessThreshold)
           calls == [at EXCEPT ![c] = "idle"]
<1>0. SuccessThreshold \in Nat /\ consecutiveSuccesses \in 0..SuccessThreshold
  BY CircuitBreakerAssumption DEF IInv, Typing
<1>1. successes \in 0..SuccessThreshold /\ 0 \in 0..FailureThreshold
      /\ 0 < FailureThreshold
  BY <1>0, CircuitBreakerAssumption DEF UpTo
<1>2. calls \in [Calls -> {"idle", "call", "probe"}]
  BY DEF IInv, Typing
<1>3. manual' = manual /\ manual' \in Nat
  BY DEF Succeed, IInv, Typing
<1>4. CASE state = "half_open" /\ successes >= SuccessThreshold
  <2>1. TransitionTo("closed", 0, successes, calls)
    BY <1>4 DEF Succeed
  <2>2. QED
    BY <2>1, <1>1, <1>2, <1>3, Transition
<1>5. CASE ~(state = "half_open" /\ successes >= SuccessThreshold)
  <2>1. Stay(0, successes, calls) /\ halfOpenCalls' = halfOpenCalls
    BY <1>5 DEF Succeed
  <2>2. QED
    BY <2>1, <1>1, <1>3, StayKeeps
<1>6. QED
  BY <1>4, <1>5

\* A failure keeps the invariant.
LEMMA FailKeeps == ASSUME IInv, NEW c \in Calls, Fail(c) PROVE IInv'
<1> DEFINE failures == UpTo(consecutiveFailures + 1, FailureThreshold)
           calls == [at EXCEPT ![c] = "idle"]
<1>0. FailureThreshold \in Nat /\ consecutiveFailures \in 0..FailureThreshold
  BY CircuitBreakerAssumption DEF IInv, Typing
<1>1. failures \in 0..FailureThreshold /\ 0 \in 0..SuccessThreshold
  BY <1>0, CircuitBreakerAssumption DEF UpTo
<1>2. calls \in [Calls -> {"idle", "call", "probe"}]
  BY DEF IInv, Typing
<1>3. manual' = manual /\ manual' \in Nat
  BY DEF Fail, IInv, Typing
<1>4. CASE Trips(buckets', failures)
  <2>1. TransitionTo("open", failures, 0, calls)
    BY <1>4 DEF Fail
  <2>2. QED
    BY <2>1, <1>1, <1>2, <1>3, Transition
<1>5. CASE ~Trips(buckets', failures)
  <2>1. Stay(failures, 0, calls) /\ halfOpenCalls' = halfOpenCalls
    BY <1>5 DEF Fail
  <2>2. state = "closed" => ~(failures >= FailureThreshold)
    BY <1>5 DEF Trips, ShouldTrip
  <2>3. state = "closed" => failures < FailureThreshold
    <3> HIDE DEF failures
    <3> QED BY <2>2, <1>1, CircuitBreakerAssumption
  <2>4. QED
    BY <2>1, <2>3, <1>1, <1>3, StayKeeps
<1>6. QED
  BY <1>4, <1>5

\* trip() and reset() keep the invariant.
LEMMA ManualKeeps == ASSUME IInv, Trip \/ Reset PROVE IInv'
<1>1. manual' \in Nat /\ 0 \in 0..FailureThreshold /\ 0 \in 0..SuccessThreshold
  BY CircuitBreakerAssumption DEF IInv, Typing, Trip, Reset
<1>2. CASE Trip
  BY <1>1, <1>2, Transition DEF Trip, IInv, Typing
<1>3. CASE Reset
  BY <1>1, <1>3, Transition DEF Reset, IInv, Typing
<1>4. QED
  BY <1>2, <1>3

\* Time keeps the invariant.
LEMMA TickKeeps == ASSUME IInv, Tick PROVE IInv'
<1>0. Timeout \in Nat /\ age \in 0..Timeout
  BY CircuitBreakerAssumption DEF IInv, Typing
<1>1. age' \in 0..Timeout
  BY <1>0, Capped DEF Tick
<1>2. QED
  BY <1>1 DEF Tick, counters, IInv, Typing, ClosedBelowThreshold, ProbesCounted, Probes

\* Every step keeps the invariant.
LEMMA Inductive == IInv /\ [Next]_vars => IInv'
<1> SUFFICES ASSUME IInv, [Next]_vars PROVE IInv'
  OBVIOUS
<1>1. ASSUME NEW c \in Calls, Execute(c) PROVE IInv'
  BY <1>1, ExecuteKeeps
<1>2. ASSUME NEW c \in Calls, Succeed(c) PROVE IInv'
  BY <1>2, SucceedKeeps
<1>3. ASSUME NEW c \in Calls, Fail(c) PROVE IInv'
  BY <1>3, FailKeeps
<1>4. CASE Trip \/ Reset
  BY <1>4, ManualKeeps
<1>5. CASE Tick
  BY <1>5, TickKeeps
<1>6. CASE UNCHANGED vars
  BY <1>6 DEF vars, counters, IInv, Typing, ClosedBelowThreshold, ProbesCounted, Probes
<1>7. QED
  BY <1>1, <1>2, <1>3, <1>4, <1>5, <1>6 DEF Next

\* IInv holds in every reachable state, for any thresholds and any set of
\* calls whose results come in late.
THEOREM Invariance == Spec => []IInv
<1>1. QED
  BY Initial, Inductive, PTL DEF Spec

\* A closed breaker has seen fewer failures in a row than its threshold: the
\* tests made when a failure is recorded miss none, whatever the order of
\* late results, trips and resets.
THEOREM BelowThreshold == Spec => []ClosedBelowThreshold
<1>1. IInv => ClosedBelowThreshold
  BY DEF IInv
<1>2. QED
  BY <1>1, Invariance, PTL

\* In every half-open state at most halfOpenMaxCalls + 1 calls are let through
\* at a time.
THEOREM Probing == Spec => []FewProbes
<1>1. IInv => FewProbes
  <2> SUFFICES ASSUME IInv PROVE FewProbes
    OBVIOUS
  <2>1. Cardinality(Probes) \in Nat
    BY ProbesFinite, FS_CardinalityType DEF IInv
  <2>2. QED
    BY <2>1, CircuitBreakerAssumption DEF IInv, ProbesCounted, Typing, FewProbes
<1>2. QED
  BY <1>1, Invariance, PTL

\* Results that come in while the breaker is open never make it stay open
\* longer; only trip() starts its timeout again.
THEOREM NotProlonged == Spec => OpenNotProlonged
<1> DEFINE Step == state = "open" /\ state' = "open" => age' >= age \/ manual' > manual
<1>1. IInv /\ [Next]_vars => [Step]_vars
  <2> SUFFICES ASSUME IInv, Next, state = "open", state' = "open"
               PROVE  age' >= age \/ manual' > manual
    OBVIOUS
  <2>1. ASSUME NEW c \in Calls, Execute(c) PROVE FALSE
    BY <2>1 DEF Execute, Admit, TransitionTo
  <2>2. ASSUME NEW c \in Calls, Succeed(c) PROVE age' = age
    BY <2>2 DEF Succeed, Stay
  <2>3. ASSUME NEW c \in Calls, Fail(c) PROVE age' = age
    BY <2>3 DEF Fail, Trips, Stay
  <2>4. CASE Trip \/ Reset
    BY <2>4 DEF Trip, Reset, IInv, Typing
  <2>5. ASSUME Tick PROVE age' >= age
    <3>1. Timeout \in Nat /\ age \in 0..Timeout
      BY CircuitBreakerAssumption DEF IInv, Typing
    <3>2. QED
      BY <2>5, <3>1, Capped DEF Tick
  <2>6. QED
    BY <2>1, <2>2, <2>3, <2>4, <2>5 DEF Next, IInv, Typing
<1>2. QED
  BY <1>1, Invariance, PTL DEF Spec, OpenNotProlonged
==============================================================================
