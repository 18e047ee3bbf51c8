------------------------- MODULE MCMarketDataEngine -------------------------
EXTENDS MarketDataEngine

\* every type of one symbol that can be asked of each of these exchanges
MCKeys == {"ticker", "fundingRate"}

\* more where there is no pool to multiply the states, enough to use up the attempts
MCMaxFaults == [e \in Exchanges |-> IF e = "binance" THEN 2 ELSE 4]
MCMaxChanges == [e \in Exchanges |-> IF e = "binance" THEN 2 ELSE 5]
=============================================================================
