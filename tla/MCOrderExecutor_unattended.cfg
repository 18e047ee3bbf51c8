SPECIFICATION Spec
CONSTANTS
  c1 = c1
  c2 = c2
  c3 = c3
  Checks <- MCChecks
  Amount = 1
  NegligibleDen = 100
  MaxResubmit = 2
  RateLimitMaxRetries = 1
  Plans <- OneFailedCancel
INVARIANT Attended
CHECK_DEADLOCK FALSE
