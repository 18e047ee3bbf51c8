--------------------------- MODULE MCAccountQueues ---------------------------
EXTENDS AccountQueues, TLC

CONSTANTS o1, o2, o3, a1, a2

MCOrders == {o1, o2, o3}
MCAccounts == {a1, a2}
\* two orders of one account and one of another
MCAccountOf == (o1 :> a1) @@ (o2 :> a1) @@ (o3 :> a2)
==============================================================================
