SPECIFICATION Spec
CONSTANTS
  c1 = c1
  c2 = c2
  c3 = c3
  Calls <- MCCalls
  FailureThreshold = 2
  SuccessThreshold = 2
  HalfOpenMaxCalls = 1
  VolumeThreshold = 3
  RateNum = 1
  RateDen = 2
  Timeout = 1
  WindowSize = 1
  MaxInWindow = 4
  MaxManual = 1
INVARIANTS ClosedBelowThreshold FewProbes
PROPERTIES OpenNotProlonged NotStuck
CHECK_DEADLOCK FALSE
