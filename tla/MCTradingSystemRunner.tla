------------------------ MODULE MCTradingSystemRunner ------------------------
EXTENDS TradingSystemRunner

CONSTANTS s1, s2, e1, e2

MCSignals == {s1, s2}
MCOneEmergency == {e1}
MCTwoEmergencies == {e1, e2}
==============================================================================
