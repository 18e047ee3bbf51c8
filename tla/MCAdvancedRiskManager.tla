------------------------ MODULE MCAdvancedRiskManager ------------------------
EXTENDS AdvancedRiskManager

CONSTANTS c1, c2

MCChecks == {c1, c2}

\* well, at the warning, danger and emergency thresholds below the first, and
\* with too little margin
MCAccounts == {[equity |-> 110, usedMargin |-> 50],
               [equity |-> 100, usedMargin |-> 50],
               [equity |-> 88, usedMargin |-> 50],
               [equity |-> 83, usedMargin |-> 50],
               [equity |-> 80, usedMargin |-> 0],
               [equity |-> 100, usedMargin |-> 300]}
==============================================================================
