----------------------------- MODULE TradingGate -----------------------------
(***************************************************************************)
(* What the risk manager promises to the rest of the system about          *)
(* tradingAllowed: a stop that is to last (after an emergency close, an    *)
(* equity warning or a pause by hand) ends only when somebody resumes      *)
(* trading; a stop for the day's losses also ends with the day.            *)
(*                                                                         *)
(* The calls of resumeTrading() are counted, so that no other step which   *)
(* happens to allow trading again can pass for one.                        *)
(***************************************************************************)
EXTENDS Naturals

VARIABLES allowed,      \* an order may be accepted
          held,         \* stopped until resumeTrading()
          resumptions   \* calls of resumeTrading() so far

gate == <<allowed, held, resumptions>>

Init == allowed = TRUE /\ held = FALSE /\ resumptions = 0

Hold == /\ allowed' = FALSE /\ held' = TRUE
        /\ UNCHANGED resumptions

StopForTheDay == /\ allowed
                 /\ allowed' = FALSE
                 /\ UNCHANGED <<held, resumptions>>

EndOfDay == /\ ~held
            /\ allowed' = TRUE
            /\ UNCHANGED <<held, resumptions>>

Resume == /\ allowed' = TRUE /\ held' = FALSE
          /\ resumptions' = resumptions + 1

Next == Hold \/ StopForTheDay \/ EndOfDay \/ Resume

Spec == Init /\ [][Next]_gate
==============================================================================
