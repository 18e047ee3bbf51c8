SPECIFICATION Spec
CONSTANTS
  Exchanges = {"binance", "okx", "deribit", "kucoin"}
  Spot = FALSE
  UseCombinedStream = TRUE
  Keys <- MCKeys
  MaxSubs = 2
  MaxAttempts = 3
  MaxSockets = 10
  MaxPool = 6
  Faults = {"drop", "silence", "connect", "poolConnect"}
  MaxFaults <- MCMaxFaults
  MaxChanges <- MCMaxChanges
  MaxStarts = 1
INVARIANTS OneMain SubsOnWire PoolKeepsKeys
PROPERTIES Recovers
CHECK_DEADLOCK FALSE
