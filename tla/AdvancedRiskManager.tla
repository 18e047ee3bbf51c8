------------------------- MODULE AdvancedRiskManager -------------------------
(***************************************************************************)
(* class AdvancedRiskManager of src/risk/manager.js: the check that an     *)
(* interval starts every second whether or not the last one has ended, the *)
(* refresh of the account that another interval starts, the day's reset,   *)
(* and the pauses and resumptions by hand (src/api/routes/risk.js).        *)
(*                                                                         *)
(* One account stands for the sum over the exchanges.  A check runs        *)
(* without interruption up to the await of a close or of a reduction, and  *)
(* goes on from there with what the state has become.  The two reductions  *)
(* leave the manager's state alone (and, in live mode, the positions too:  *)
(* they name no exchange to the executor); alerts are left out.            *)
(***************************************************************************)
EXTENDS Integers

CONSTANTS Checks,     \* checks that can be under way together
          Accounts,   \* what the exchange may report: [equity, usedMargin]
          EmergencyMarginRate, MaxDailyDrawdown,      \* thresholds, percent
          EquityWarning, EquityDanger, MaxEquityDrawdown,
          MaxDay,     \* bound: days that pass
          MaxManual   \* bound: pauses and resumptions by hand

ASSUME AdvancedRiskManagerAssumption ==
    /\ Accounts \subseteq [equity : Int, usedMargin : Nat]
    /\ {EmergencyMarginRate, MaxDailyDrawdown, EquityWarning,
        EquityDanger, MaxEquityDrawdown} \subseteq Nat \ {0}
    /\ MaxDay \in Nat /\ MaxManual \in Nat

VARIABLES account,    \* accountData
          day,        \* the day it is
          risk,       \* state, dailyEquity and equityDrawdown
          check,      \* where each check waits
          running,
          manual,     \* pauses and resumptions by hand so far
          resumed     \* history: those of them that were resumeTrading()

vars == <<account, day, risk, check, running, manual, resumed>>

None == "none"
Unknown == [equity |-> 0, usedMargin |-> 0]  \* the sums when nothing was fetched

\* pauseReason: what ended trading
Held == {"margin rate", "equity drawdown", "equity warning", "by hand"}
Reasons == Held \cup {"daily drawdown", None}

Known == Accounts \cup {Unknown}

TypeOK ==
    /\ account \in Known
    /\ day \in 0..MaxDay
    /\ risk \in [allowed : BOOLEAN, reason : Reasons, dayStart : 0..MaxDay,
                 peak : Int, allTimeHigh : Int]
    /\ check \in [Checks -> {"idle", "closing", "reducing", "deleveraging"}]
    /\ running \in BOOLEAN
    /\ manual \in 0..MaxManual
    /\ resumed \in 0..manual

\* init(): the first refresh may have failed
Init ==
    /\ account \in Known
    /\ day = 0
    /\ risk = [allowed |-> TRUE, reason |-> None, dayStart |-> 0,
               peak |-> account.equity, allTimeHigh |-> account.equity]
    /\ check = [c \in Checks |-> "idle"]
    /\ running = TRUE
    /\ manual = 0
    /\ resumed = 0

Larger(a, b) == IF a > b THEN a ELSE b

\* the loss from peak to equity, in percent of peak, is more than (or at least) bound
Exceeds(peak, equity, bound) == peak > 0 /\ (peak - equity) * 100 > bound * peak
Reaches(peak, equity, bound) == peak > 0 /\ (peak - equity) * 100 >= bound * peak

PauseTrading(s, why) ==
    IF s.allowed THEN [s EXCEPT !.allowed = FALSE, !.reason = why] ELSE s

TriggerEmergencyClose(s, why) == [s EXCEPT !.allowed = FALSE, !.reason = why]

\* mutant: the day's reset lifts a stop whatever its reason
DayResetForgiving(s) ==
    IF day <= s.dayStart THEN s
    ELSE [s EXCEPT !.dayStart = day, !.peak = account.equity,
                   !.allTimeHigh = Larger(@, account.equity),
                   !.allowed = TRUE, !.reason = None]

\* _checkDayReset(), _initDailyEquity()
DayReset(s) ==
    IF day <= s.dayStart THEN s
    ELSE LET t == [s EXCEPT !.dayStart = day, !.peak = account.equity,
                            !.allTimeHigh = Larger(@, account.equity)]
         IN  IF s.reason = "daily drawdown"
             THEN [t EXCEPT !.allowed = TRUE, !.reason = None]
             ELSE t

MarginLow(a) == a.usedMargin > 0 /\ a.equity * 100 < EmergencyMarginRate * a.usedMargin

\* _checkEquityDrawdown(): nothing is looked at when the equity is not positive
SeenEquity(s) == [s EXCEPT !.allTimeHigh =
                             IF account.equity > 0 THEN Larger(@, account.equity) ELSE @]
EquityDown(s, bound) ==
    account.equity > 0 /\ Reaches(s.allTimeHigh, account.equity, bound)

\* _checkDailyDrawdown() and the pause for it
DailyChecked(s) ==
    LET t == [s EXCEPT !.peak = Larger(@, account.equity)]
    IN  IF Exceeds(t.peak, account.equity, MaxDailyDrawdown)
        THEN PauseTrading(t, "daily drawdown") ELSE t

\* mutant: a check does nothing while trading is stopped
MayCheckWhileTrading(c) == running /\ check[c] = "idle" /\ risk.allowed

MayCheck(c) == running /\ check[c] = "idle"

\* the rest of a check, from the daily drawdown on; whether BTC has crashed is
\* up to the market
Rest(c, s) ==
    /\ risk' = DailyChecked(s)
    /\ \E crashed \in BOOLEAN :
         check' = [check EXCEPT ![c] = IF crashed THEN "deleveraging" ELSE "idle"]

\* _performRiskCheck()
PerformRiskCheck(c) ==
    /\ MayCheck(c)
    /\ LET s == DayReset(risk)
           t == SeenEquity(s)
       IN  \/ /\ MarginLow(account)
              /\ risk' = TriggerEmergencyClose(s, "margin rate")
              /\ check' = [check EXCEPT ![c] = "closing"]
           \/ /\ ~MarginLow(account) /\ EquityDown(t, MaxEquityDrawdown)
              /\ risk' = TriggerEmergencyClose(t, "equity drawdown")
              /\ check' = [check EXCEPT ![c] = "closing"]
           \/ /\ ~MarginLow(account) /\ ~EquityDown(t, MaxEquityDrawdown)
              /\ EquityDown(t, EquityDanger)
              /\ risk' = t
              /\ check' = [check EXCEPT ![c] = "reducing"]
           \/ /\ ~MarginLow(account) /\ ~EquityDown(t, EquityDanger)
              /\ Rest(c, IF EquityDown(t, EquityWarning)
                         THEN PauseTrading(t, "equity warning") ELSE t)
    /\ UNCHANGED <<account, day, running, manual, resumed>>

\* emergencyCloseAll() has answered, or failed, which is only reported
Closed(c) ==
    /\ check[c] = "closing"
    /\ check' = [check EXCEPT ![c] = "idle"]
    /\ UNCHANGED <<account, day, risk, running, manual, resumed>>

\* _reducePositionsForEquityDrawdown() has ended; the check goes on
Reduced(c) ==
    /\ check[c] = "reducing"
    /\ Rest(c, risk)
    /\ UNCHANGED <<account, day, running, manual, resumed>>

\* _reduceAltcoinPositions() has ended; what is left of the check is alerts
Deleveraged(c) ==
    /\ check[c] = "deleveraging"
    /\ check' = [check EXCEPT ![c] = "idle"]
    /\ UNCHANGED <<account, day, risk, running, manual, resumed>>

\* _refreshAccountData(): an answer.  Refreshes overlap, and go on after a
\* stop(), so it may be any the exchange gave; a failure leaves the old data
AccountAnswered ==
    /\ account' \in Accounts
    /\ UNCHANGED <<day, risk, check, running, manual, resumed>>

ManualPauseTrading ==
    /\ manual < MaxManual
    /\ manual' = manual + 1
    /\ risk' = PauseTrading(risk, "by hand")
    /\ UNCHANGED <<account, day, check, running, resumed>>

ResumeTrading ==
    /\ manual < MaxManual
    /\ manual' = manual + 1
    /\ resumed' = resumed + 1
    /\ risk' = [risk EXCEPT !.allowed = TRUE, !.reason = None]
    /\ UNCHANGED <<account, day, check, running>>

\* stop(): the intervals are cleared; what waits goes on
Stop ==
    /\ running
    /\ running' = FALSE
    /\ UNCHANGED <<account, day, risk, check, manual, resumed>>

DayPasses ==
    /\ day < MaxDay
    /\ day' = day + 1
    /\ UNCHANGED <<account, risk, check, running, manual, resumed>>

Next ==
    \/ \E c \in Checks : \/ PerformRiskCheck(c) \/ Closed(c)
                         \/ Reduced(c) \/ Deleveraged(c)
    \/ AccountAnswered \/ DayPasses
    \/ ManualPauseTrading \/ ResumeTrading \/ Stop

\* the interval fires while the manager runs; an executor's call answers
Fairness ==
    /\ WF_vars(\E c \in Checks : PerformRiskCheck(c))
    /\ \A c \in Checks : WF_vars(Closed(c) \/ Reduced(c) \/ Deleveraged(c))

Spec == Init /\ [][Next]_vars /\ Fairness

-----------------------------------------------------------------------------

(* The manager keeps the promise of TradingGate, whatever checks, manual     *)
(* calls and days overlap: a stop that is to last ends in a call of          *)
(* resumeTrading() and in no other step.  pauseReason alone tells it from    *)
(* one that the day's reset may end, so nothing may overwrite it wrongly.    *)
(* And an emergency close always makes the stop in force one that lasts.     *)
Gate == INSTANCE TradingGate WITH allowed <- risk.allowed,
                                  held <- risk.reason \in Held,
                                  resumptions <- resumed
KeepsTheGate ==
    /\ Gate!Spec
    /\ [][\A c \in Checks :
            check[c] # "closing" /\ check'[c] = "closing" => Gate!Hold]_vars

(* A stop for the day's losses ends once the day is over: the first check of *)
(* the new day lifts it (or something worse has taken its place).            *)
DailyPauseEnds ==
    (risk.reason = "daily drawdown" /\ day > risk.dayStart)
        ~> (risk.reason # "daily drawdown" \/ ~running)

(* While the account stays critical, closing is tried again and again, also  *)
(* when trading was paused before for another reason and when an attempt     *)
(* failed: a pause never hides an emergency.                                 *)
Critical == MarginLow(account) \/ EquityDown(risk, MaxEquityDrawdown)
EmergencyRetried ==
    <>[](running /\ Critical) => []<>(\E c \in Checks : check[c] = "closing")

(* Overlapping checks starve neither the end of the day's stop nor the      *)
(* emergencies.                                                              *)
StopsAndEmergencies == DailyPauseEnds /\ EmergencyRetried

-----------------------------------------------------------------------------
(* Refuted: what the names, comments or messages suggest and the code does   *)
(* not do; the README says with which constants.                             *)

(* A drawdown at or past the warning threshold ("pause new positions")       *)
(* leaves trading stopped when the check ends: past the danger threshold the *)
(* check only reduces, so a deeper loss leaves trading open.                 *)
WarnedIsPaused ==
    [][\A c \in Checks :
         (check[c] # "idle" /\ check[c] # "closing" /\ check'[c] = "idle"
            /\ EquityDown(risk, EquityWarning) /\ manual = 0)
         => ~risk'.allowed]_vars

(* A pause by hand lasts until it is lifted by hand: one asked for while the *)
(* day's pause is in force is dropped and ends with the day.                 *)
ByHandLasts ==
    [][ManualPauseTrading => risk'.reason \in Held]_vars
==============================================================================
