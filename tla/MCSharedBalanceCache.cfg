SPECIFICATION BCSpec
CONSTANTS
  p1 = p1
  p2 = p2
  a1 = a1
  a2 = a2
  b1 = b1
  Procs <- MCProcs
  Calls <- MCCalls
  Of <- MCOf
  RoleSets <- MCRoleSets
  Clocks <- MCClocks
  Ttl = 1
  StaleMax = 2
  LockTtl = 1
  Wait = 1
  MaxVersion = 2
  MaxFaults = 1
INVARIANTS StalenessBounded NeverBackwards
PROPERTY EveryCallEnds
CHECK_DEADLOCK FALSE
