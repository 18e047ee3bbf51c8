--------------------- MODULE AdvancedRiskManager_proofs ---------------------
(***************************************************************************)
(* AdvancedRiskManager keeps the promise of TradingGate for any accounts,  *)
(* thresholds, number of overlapping checks and order of days and manual   *)
(* calls.  The promise is about risk.allowed and risk.reason, and a check  *)
(* changes them several times in one step; the invariant that carries the  *)
(* argument is that trading is stopped exactly when there is a reason.     *)
(***************************************************************************)
EXTENDS AdvancedRiskManager, TLAPS

Risks == [allowed : BOOLEAN, reason : Reasons, dayStart : 0..MaxDay,
          peak : Int, allTimeHigh : Int]

\* one flag and one reason, kept in step by every operation
StoppedForAReason(s) == s.allowed <=> s.reason = None

IInv == TypeOK /\ StoppedForAReason(risk)

\* what the operations of a check may do to allowed and reason
Holds(t) == t.allowed = FALSE /\ t.reason \in Held
Kept(s, t) == t.allowed = s.allowed /\ t.reason = s.reason
Lifted(s, t) == s.reason = "daily drawdown" /\ t.allowed = TRUE /\ t.reason = None
PausedFor(s, t, why) == IF s.allowed THEN t.allowed = FALSE /\ t.reason = why
                        ELSE Kept(s, t)

-----------------------------------------------------------------------------
(* The operations keep the types and do no more than they are named for.   *)

\* a balance is an integer, so the day's peak and the all-time high stay so
LEMMA Equity == ASSUME account \in Known PROVE account.equity \in Int
BY AdvancedRiskManagerAssumption DEF Known, Unknown

\* a pause leaves a stop in force as it is
LEMMA Pausing ==
    ASSUME NEW s \in Risks, NEW why \in Reasons
    PROVE  PauseTrading(s, why) \in Risks /\ PausedFor(s, PauseTrading(s, why), why)
BY DEF PauseTrading, PausedFor, Kept, Risks

\* an emergency takes the place of any stop in force
LEMMA Triggering ==
    ASSUME NEW s \in Risks, NEW why \in Held
    PROVE  TriggerEmergencyClose(s, why) \in Risks /\ Holds(TriggerEmergencyClose(s, why))
BY DEF TriggerEmergencyClose, Holds, Risks, Reasons

\* the reset lifts the stop for the day's losses and no other
LEMMA Resetting ==
    ASSUME NEW s \in Risks, TypeOK
    PROVE  /\ DayReset(s) \in Risks
           /\ Kept(s, DayReset(s)) \/ Lifted(s, DayReset(s))
<1>1. account.equity \in Int
  BY Equity DEF TypeOK
<1>2. day \in 0..MaxDay
  BY DEF TypeOK
<1>3. Larger(s.allTimeHigh, account.equity) \in Int
  BY <1>1 DEF Larger, Risks
<1>4. None \in Reasons
  BY DEF Reasons
<1>. QED
  BY <1>1, <1>2, <1>3, <1>4 DEF DayReset, Kept, Lifted, Risks

\* the look at the equity touches neither
LEMMA Seeing ==
    ASSUME NEW s \in Risks, TypeOK
    PROVE  SeenEquity(s) \in Risks /\ Kept(s, SeenEquity(s))
<1>1. account.equity \in Int
  BY Equity DEF TypeOK
<1>2. Larger(s.allTimeHigh, account.equity) \in Int
  BY <1>1 DEF Larger, Risks
<1>. QED
  BY <1>2 DEF SeenEquity, Kept, Risks

\* the day's drawdown pauses for the day's losses or does nothing
LEMMA Daily ==
    ASSUME NEW s \in Risks, TypeOK
    PROVE  /\ DailyChecked(s) \in Risks
           /\ \/ Kept(s, DailyChecked(s))
              \/ PausedFor(s, DailyChecked(s), "daily drawdown")
<1>. DEFINE t == [s EXCEPT !.peak = Larger(@, account.equity)]
<1>1. account.equity \in Int
  BY Equity DEF TypeOK
<1>2. Larger(s.peak, account.equity) \in Int
  BY <1>1 DEF Larger, Risks
<1>3. t \in Risks /\ Kept(s, t)
  BY <1>2 DEF Kept, Risks
<1>4. "daily drawdown" \in Reasons
  BY DEF Reasons
<1>5. /\ PauseTrading(t, "daily drawdown") \in Risks
      /\ PausedFor(t, PauseTrading(t, "daily drawdown"), "daily drawdown")
  BY <1>3, <1>4, Pausing
<1>6. DailyChecked(s) \in {t, PauseTrading(t, "daily drawdown")}
  BY DEF DailyChecked
<1>. QED
  BY <1>3, <1>5, <1>6 DEF PausedFor, Kept

-----------------------------------------------------------------------------
(* One check, from the day's reset on, as a step of the gate.              *)

\* a step of the gate from the parts of s to those of t, or none, that nobody
\* had to ask for
GateStep(s, t) ==
    \/ Holds(t)
    \/ s.allowed /\ t.allowed = FALSE /\ s.reason \notin Held /\ t.reason \notin Held
    \/ s.reason \notin Held /\ t.allowed = TRUE /\ t.reason \notin Held
    \/ Kept(s, t)

\* what a pause for a lasting reason, then one for the day, come to
LEMMA Pauses ==
    ASSUME NEW s \in Risks, NEW t \in Risks, NEW u \in Risks,
           StoppedForAReason(s), Kept(s, t) \/ Lifted(s, t),
           Kept(t, u) \/ PausedFor(t, u, "equity warning")
               \/ PausedFor(t, u, "daily drawdown")
    PROVE  StoppedForAReason(u) /\ GateStep(s, u)
BY DEF StoppedForAReason, Kept, Lifted, PausedFor, GateStep, Holds, Held,
       Risks, Reasons, None

\* the rest of a check after a state t that agrees with a step from s
LEMMA Resting ==
    ASSUME NEW c \in Checks, NEW s \in Risks, NEW t \in Risks, TypeOK,
           StoppedForAReason(s), Kept(s, t) \/ Lifted(s, t), Rest(c, t)
    PROVE  risk' \in Risks /\ StoppedForAReason(risk') /\ GateStep(s, risk')
<1>1. risk' = DailyChecked(t)
  BY DEF Rest
<1>2. /\ risk' \in Risks
      /\ Kept(t, risk') \/ PausedFor(t, risk', "daily drawdown")
  BY <1>1, Daily
<1>. QED
  BY <1>2, Pauses

LEMMA RestingPaused ==
    ASSUME NEW c \in Checks, NEW s \in Risks, NEW t \in Risks, TypeOK,
           StoppedForAReason(s), Kept(s, t) \/ Lifted(s, t),
           Rest(c, PauseTrading(t, "equity warning"))
    PROVE  risk' \in Risks /\ StoppedForAReason(risk') /\ GateStep(s, risk')
<1>. DEFINE u == PauseTrading(t, "equity warning")
<1>1. "equity warning" \in Reasons
  BY DEF Reasons, Held
<1>2. u \in Risks /\ PausedFor(t, u, "equity warning")
  BY <1>1, Pausing
<1>3. risk' = DailyChecked(u)
  BY DEF Rest
<1>4. /\ risk' \in Risks
      /\ Kept(u, risk') \/ PausedFor(u, risk', "daily drawdown")
  BY <1>2, <1>3, Daily
<1>5. u.allowed = FALSE
  BY <1>2 DEF PausedFor, Kept, Risks
<1>6. Kept(u, risk')
  BY <1>4, <1>5 DEF PausedFor
<1>7. Kept(t, risk') \/ PausedFor(t, risk', "equity warning")
  BY <1>2, <1>6 DEF PausedFor, Kept
<1>. QED
  BY <1>4, <1>7, Pauses

\* a check's step is a step of the gate; one that begins to close holds it
LEMMA Checking ==
    ASSUME IInv, NEW c \in Checks, PerformRiskCheck(c)
    PROVE  /\ risk' \in Risks /\ StoppedForAReason(risk') /\ GateStep(risk, risk')
           /\ check' \in [Checks -> {"idle", "closing", "reducing", "deleveraging"}]
           /\ \A d \in Checks : check[d] # "closing" /\ check'[d] = "closing"
                => Holds(risk')
<1>. DEFINE s == DayReset(risk)
            t == SeenEquity(s)
            Places == {"idle", "closing", "reducing", "deleveraging"}
<1>1. risk \in Risks /\ StoppedForAReason(risk) /\ TypeOK /\ check \in [Checks -> Places]
  BY DEF IInv, TypeOK, Risks
<1>2. s \in Risks /\ (Kept(risk, s) \/ Lifted(risk, s))
  BY <1>1, Resetting
<1>3. t \in Risks /\ (Kept(risk, t) \/ Lifted(risk, t))
  <2>1. t \in Risks /\ Kept(s, t)
    BY <1>1, <1>2, Seeing
  <2>. QED
    BY <1>2, <2>1 DEF Kept, Lifted
<1>. HIDE DEF s, t
<1>4. {"margin rate", "equity drawdown"} \subseteq Held
  BY DEF Held
<1>5. CASE /\ MarginLow(account)
           /\ risk' = TriggerEmergencyClose(s, "margin rate")
           /\ check' = [check EXCEPT ![c] = "closing"]
  <2>1. risk' \in Risks /\ Holds(risk')
    BY <1>2, <1>4, <1>5, Triggering
  <2>. QED
    BY <1>1, <1>5, <2>1 DEF GateStep, Holds, StoppedForAReason, Held, None
<1>6. CASE /\ risk' = TriggerEmergencyClose(t, "equity drawdown")
           /\ check' = [check EXCEPT ![c] = "closing"]
  <2>1. risk' \in Risks /\ Holds(risk')
    BY <1>3, <1>4, <1>6, Triggering
  <2>. QED
    BY <1>1, <1>6, <2>1 DEF GateStep, Holds, StoppedForAReason, Held, None
<1>7. CASE risk' = t /\ check' = [check EXCEPT ![c] = "reducing"]
  <2>1. StoppedForAReason(risk') /\ GateStep(risk, risk')
    BY <1>1, <1>3, <1>7, Pauses DEF Kept
  <2>. QED
    BY <1>1, <1>3, <1>7, <2>1
<1>8. CASE \/ Rest(c, t)
           \/ Rest(c, PauseTrading(t, "equity warning"))
  <2>1. risk' \in Risks /\ StoppedForAReason(risk') /\ GateStep(risk, risk')
    BY <1>1, <1>3, <1>8, Resting, RestingPaused
  <2>2. PICK crashed \in BOOLEAN :
            check' = [check EXCEPT ![c] = IF crashed THEN "deleveraging" ELSE "idle"]
    BY <1>8 DEF Rest
  <2>. QED
    BY <1>1, <2>1, <2>2
<1>9. Rest(c, IF EquityDown(t, EquityWarning)
              THEN PauseTrading(t, "equity warning") ELSE t)
      => Rest(c, t) \/ Rest(c, PauseTrading(t, "equity warning"))
  OBVIOUS
<1>. QED
  BY <1>5, <1>6, <1>7, <1>8, <1>9 DEF PerformRiskCheck, s, t

-----------------------------------------------------------------------------
(* Every step *)

\* allowed again with no stop left
Resumes(t) == t.allowed = TRUE /\ t.reason \notin Held

\* a step of the gate; a stop that lasts is lifted by hand only
Gated == \/ GateStep(risk, risk') /\ resumed' = resumed
         \/ Resumes(risk') /\ resumed' = resumed + 1

\* only a check that finds an emergency begins to close
Closings == \A d \in Checks : check[d] # "closing" /\ check'[d] = "closing"
                => Holds(risk')

LEMMA Initially == Init => IInv
<1>. SUFFICES ASSUME Init PROVE IInv
  OBVIOUS
<1>1. account.equity \in Int
  BY Equity DEF Init
<1>2. 0 \in 0..MaxDay /\ 0 \in 0..MaxManual
  BY AdvancedRiskManagerAssumption
<1>. QED
  BY <1>1, <1>2 DEF Init, IInv, TypeOK, StoppedForAReason, Reasons, None

LEMMA Stepping ==
    ASSUME IInv, [Next]_vars
    PROVE  IInv' /\ Gated /\ Closings
<1>. DEFINE Places == {"idle", "closing", "reducing", "deleveraging"}
<1>1. risk \in Risks /\ StoppedForAReason(risk) /\ TypeOK /\ check \in [Checks -> Places]
  BY DEF IInv, TypeOK, Risks
<1>2. ASSUME NEW c \in Checks, PerformRiskCheck(c)
      PROVE  IInv' /\ Gated /\ Closings
  <2>1. UNCHANGED <<account, day, running, manual, resumed>>
    BY <1>2 DEF PerformRiskCheck
  <2>. QED
    BY <1>1, <1>2, <2>1, Checking DEF IInv, TypeOK, StoppedForAReason, Risks, Closings, Gated
<1>3. ASSUME NEW c \in Checks, Closed(c) \/ Deleveraged(c)
      PROVE  IInv' /\ Gated /\ Closings
  BY <1>1, <1>3 DEF Closed, Deleveraged, IInv, TypeOK, StoppedForAReason,
                    GateStep, Kept, Closings, Gated
<1>4. ASSUME NEW c \in Checks, Reduced(c)
      PROVE  IInv' /\ Gated /\ Closings
  <2>1. Rest(c, risk) /\ UNCHANGED <<account, day, running, manual, resumed>>
    BY <1>4 DEF Reduced
  <2>2. risk' \in Risks /\ StoppedForAReason(risk') /\ GateStep(risk, risk')
    BY <1>1, <2>1, Resting DEF Kept
  <2>3. PICK crashed \in BOOLEAN :
            check' = [check EXCEPT ![c] = IF crashed THEN "deleveraging" ELSE "idle"]
    BY <2>1 DEF Rest
  <2>. QED
    BY <1>1, <2>1, <2>2, <2>3 DEF IInv, TypeOK, StoppedForAReason, Risks, Closings, Gated
<1>5. CASE AccountAnswered
  BY <1>1, <1>5 DEF AccountAnswered, IInv, TypeOK, StoppedForAReason, Known,
                    GateStep, Kept, Closings, Gated
<1>6. CASE DayPasses
  <2>1. day' \in 0..MaxDay
    BY <1>1, <1>6, AdvancedRiskManagerAssumption DEF DayPasses, TypeOK
  <2>. QED
    BY <1>1, <1>6, <2>1 DEF DayPasses, IInv, TypeOK, StoppedForAReason,
                            GateStep, Kept, Closings, Gated
<1>7. ASSUME manual < MaxManual, manual' = manual + 1
      PROVE  manual' \in 0..MaxManual
  <2>1. manual \in 0..MaxManual /\ MaxManual \in Nat
    BY <1>1, AdvancedRiskManagerAssumption DEF TypeOK
  <2>. QED
    BY <1>7, <2>1
<1>8. CASE ManualPauseTrading
  <2>1. "by hand" \in Reasons
    BY DEF Reasons, Held
  <2>2. risk' \in Risks /\ PausedFor(risk, risk', "by hand")
    BY <1>1, <1>8, <2>1, Pausing DEF ManualPauseTrading
  <2>3. GateStep(risk, risk') /\ StoppedForAReason(risk')
    BY <1>1, <2>2 DEF PausedFor, GateStep, Holds, Held, StoppedForAReason, Kept,
                      Risks, None
  <2>4. manual' \in 0..MaxManual /\ UNCHANGED <<account, day, check, running, resumed>>
    BY <1>7, <1>8 DEF ManualPauseTrading
  <2>5. resumed' \in 0..manual'
    <3>1. manual' = manual + 1 /\ resumed' = resumed
      BY <1>8 DEF ManualPauseTrading
    <3>2. resumed \in 0..manual /\ manual \in 0..MaxManual
      BY <1>1 DEF TypeOK
    <3>. QED
      BY <3>1, <3>2
  <2>. QED
    BY <1>1, <2>2, <2>3, <2>4, <2>5 DEF IInv, TypeOK, StoppedForAReason, Risks, Closings, Gated
<1>9. CASE ResumeTrading
  <2>1. risk' \in Risks /\ StoppedForAReason(risk')
    BY <1>1, <1>9 DEF ResumeTrading, Risks, Reasons, StoppedForAReason, None
  <2>2. Resumes(risk')
    BY <1>1, <1>9 DEF ResumeTrading, Risks, Resumes, Held, None
  <2>3. Gated
    BY <1>9, <2>2 DEF ResumeTrading, Gated
  <2>4. manual' \in 0..MaxManual /\ UNCHANGED <<account, day, check, running>>
    BY <1>7, <1>9 DEF ResumeTrading
  <2>5. resumed' \in 0..manual'
    BY <1>1, <1>9 DEF ResumeTrading, TypeOK
  <2>. QED
    BY <1>1, <2>1, <2>3, <2>4, <2>5 DEF IInv, TypeOK, StoppedForAReason, Risks, Closings
<1>10. CASE Stop
  BY <1>1, <1>10 DEF Stop, IInv, TypeOK, StoppedForAReason, GateStep, Kept, Closings, Gated
<1>11. CASE UNCHANGED vars
  BY <1>1, <1>11 DEF vars, IInv, TypeOK, StoppedForAReason, GateStep, Kept, Closings, Gated
<1>. QED
  BY <1>2, <1>3, <1>4, <1>5, <1>6, <1>8, <1>9, <1>10, <1>11 DEF Next

-----------------------------------------------------------------------------
(* The theorems *)

LEMMA Invariance == Spec => []IInv
BY Initially, Stepping, PTL DEF Spec

\* Every variable keeps its type for any constants, and pauseReason is none
\* of the reasons exactly while trading is allowed.
THEOREM Typing == Spec => []TypeOK
<1>1. IInv => TypeOK
  BY DEF IInv
<1>. QED
  BY <1>1, Invariance, PTL

\* However checks, days and manual calls overlap, a stop that is to last ends
\* in a call of resumeTrading() and in no other step, the day's reset ends only
\* the day's stop, and a check that begins to close leaves a stop that lasts.
THEOREM Promise == Spec => KeepsTheGate
<1>1. Init => Gate!Init
  BY DEF Init, Gate!Init, Held, None
<1>2. ASSUME IInv, [Next]_vars
      PROVE  /\ [Gate!Next]_(Gate!gate)
             /\ [\A c \in Checks : check[c] # "closing" /\ check'[c] = "closing"
                    => Gate!Hold]_vars
  <2>1. Gated /\ Closings /\ IInv'
    BY <1>2, Stepping
  <2>2. ASSUME Holds(risk'), resumed' = resumed PROVE Gate!Hold
    BY <2>2 DEF Holds, Gate!Hold
  <2>3. [Gate!Next]_(Gate!gate)
    <3>1. risk.allowed \in BOOLEAN /\ risk'.allowed \in BOOLEAN
      BY <1>2, <2>1 DEF IInv, TypeOK
    <3>2. ASSUME Kept(risk, risk'), resumed' = resumed PROVE UNCHANGED Gate!gate
      BY <3>2 DEF Kept, Gate!gate
    <3>3. ASSUME risk.allowed, risk'.allowed = FALSE,
                 risk.reason \notin Held, risk'.reason \notin Held,
                 resumed' = resumed
          PROVE  Gate!StopForTheDay
      BY <3>3 DEF Gate!StopForTheDay
    <3>4. ASSUME risk.reason \notin Held, risk'.allowed = TRUE,
                 risk'.reason \notin Held, resumed' = resumed
          PROVE  Gate!EndOfDay
      BY <3>4 DEF Gate!EndOfDay
    <3>5. ASSUME Resumes(risk'), resumed' = resumed + 1 PROVE Gate!Resume
      BY <3>5 DEF Resumes, Gate!Resume
    <3>. QED
      BY <2>1, <2>2, <3>2, <3>3, <3>4, <3>5 DEF Gated, GateStep, Gate!Next
  <2>4. ASSUME NEW c \in Checks, check[c] # "closing", check'[c] = "closing"
        PROVE  Gate!Hold
    <3>1. Holds(risk')
      BY <2>1, <2>4 DEF Closings
    <3>2. resumed' = resumed
      BY <2>1, <3>1 DEF Gated, Holds, Resumes
    <3>. QED
      BY <2>2, <3>1, <3>2
  <2>. QED
    BY <2>3, <2>4
<1>. QED
  BY <1>1, <1>2, Invariance, PTL DEF Spec, KeepsTheGate, Gate!Spec
==============================================================================
