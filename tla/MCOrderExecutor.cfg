SPECIFICATION Spec
CONSTANTS
  c1 = c1
  c2 = c2
  c3 = c3
  Checks <- MCChecks
  Amount = 3
  NegligibleDen = 2
  MaxResubmit = 2
  RateLimitMaxRetries = 1
  Plans <- MCPlans
INVARIANTS SingleDriver AtMostOneOpen OpenIsAttended OverfillIsLate FilledOnce
PROPERTY OrderSettles
CHECK_DEADLOCK FALSE
