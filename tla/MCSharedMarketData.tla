------------------------ MODULE MCSharedMarketData ------------------------
(***************************************************************************)
(* Instance of SharedMarketData for TLC: two containers and two keys, one  *)
(* of which the service subscribes to by itself.  Each plan turns one part *)
(* up: the heartbeats and their checks, the data, or the requests.         *)
(***************************************************************************)
EXTENDS SharedMarketData

CONSTANTS s1, s2, own, other

MCSubscribers == {s1, s2}
MCKeys == {own, other}
MCSymbols == {own}

Plan(trouble, users, data, requests, clock) ==
    [trouble |-> trouble, users |-> users, data |-> data,
     requests |-> requests, clock |-> clock]

Heartbeats ==
    {Plan({"crash", "stop"}, MCSubscribers, 0, 0, TRUE),
     Plan({"crash", "mute", "fail"}, MCSubscribers, 0, 0, TRUE),
     Plan({"crash", "slow"}, MCSubscribers, 0, 0, TRUE)}

Data == {Plan({"crash", "stop", "early"}, {s1}, 2, 1, FALSE),
         Plan({"drop"}, {s1}, 2, 1, FALSE),
         Plan({}, MCSubscribers, 1, 1, FALSE)}

Requests ==
    {Plan({}, MCSubscribers, 0, 3, FALSE),
     Plan({"early", "refused", "shared", "fail"}, MCSubscribers, 0, 1, FALSE)}

MCPlans == Heartbeats \cup Data \cup Requests

-----------------------------------------------------------------------------
(* One trouble each, for the properties that fail *)

OneTrouble(trouble) ==
    {Plan({trouble}, MCSubscribers, IF trouble = "drop" THEN 2 ELSE 0, 1,
          trouble \in {"crash", "fail"})}

EarlyRequests == OneTrouble("early")
Restarts == OneTrouble("stop")
SharedKeys == OneTrouble("shared")
FailedChecks == OneTrouble("fail")
LostConnection == OneTrouble("drop")
SlowChecks == {Plan({"crash", "slow"}, {s1}, 0, 0, TRUE)}
=============================================================================
