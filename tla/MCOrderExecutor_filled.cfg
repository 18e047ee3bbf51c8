SPECIFICATION Spec
CONSTANTS
  c1 = c1
  c2 = c2
  c3 = c3
  Checks <- MCChecks
  Amount = 2
  NegligibleDen = 100
  MaxResubmit = 2
  RateLimitMaxRetries = 1
  Plans <- OneRejection
INVARIANT FilledIsFilled
CHECK_DEADLOCK FALSE
