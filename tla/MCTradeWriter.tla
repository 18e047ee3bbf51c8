---------------------------- MODULE MCTradeWriter ----------------------------
EXTENDS TradeWriter

CONSTANTS c1, c2

MCCallers == {c1, c2}
OneOrTwo == {1, 2}
==============================================================================
