SPECIFICATION TWSpec
CONSTANTS
  c1 = c1
  c2 = c2
  Callers <- MCCallers
  Modes = {TRUE}
  BatchSize = 2
  MaxBufferSize = 2
  MaxRetries = 2
  Sizes <- OneOrTwo
  MaxTrades = 3
  MaxFaults = 2
PROPERTY StoppedIsStored
CHECK_DEADLOCK FALSE
