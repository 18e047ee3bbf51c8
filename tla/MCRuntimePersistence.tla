------------------------ MODULE MCRuntimePersistence ------------------------
(***************************************************************************)
(* RuntimePersistence with a limit order and a market order that buy and a *)
(* market order that sells: the position opens, closes and opens again.    *)
(***************************************************************************)
EXTENDS RuntimePersistence

CONSTANTS l1, m1, m2

MCLimits == {l1}
MCMarkets == {m1, m2}
MCBuys == {l1, m2}
==============================================================================
