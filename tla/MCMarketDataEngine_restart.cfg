SPECIFICATION Spec
CONSTANTS
  Exchanges = {"okx"}
  Spot = FALSE
  UseCombinedStream = TRUE
  Keys <- MCKeys
  MaxSubs = 2
  MaxAttempts = 3
  MaxSockets = 10
  MaxPool = 6
  Faults = {"drop", "silence", "connect"}
  MaxFaults <- MCMaxFaults
  MaxChanges <- MCMaxChanges
  MaxStarts = 2
INVARIANT OneMain
CHECK_DEADLOCK FALSE
