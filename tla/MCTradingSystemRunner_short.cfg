SPECIFICATION Spec
CONSTANTS
  s1 = s1
  s2 = s2
  e1 = e1
  e2 = e2
  Signals <- MCSignals
  Emergencies <- MCOneEmergency
  MinTradeIntervalCandles = 2
  MaxSeq = 3
  MaxFaults=0
INVARIANT NeverShort
