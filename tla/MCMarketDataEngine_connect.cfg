SPECIFICATION Spec
CONSTANTS
  Exchanges = {"binance"}
  Spot = FALSE
  UseCombinedStream = TRUE
  Keys <- MCKeys
  MaxSubs = 2
  MaxAttempts = 3
  MaxSockets = 10
  MaxPool = 6
  Faults = {"drop", "silence", "poolConnect"}
  MaxFaults <- MCMaxFaults
  MaxChanges <- MCMaxChanges
  MaxStarts = 1
INVARIANT AllAttended
CHECK_DEADLOCK FALSE
