SPECIFICATION Spec
CONSTANTS
  c1 = c1
  c2 = c2
  Checks <- MCChecks
  Accounts <- MCAccounts
  EmergencyMarginRate = 35
  MaxDailyDrawdown = 10
  EquityWarning = 10
  EquityDanger = 15
  MaxEquityDrawdown = 20
  MaxDay = 2
  MaxManual = 2
PROPERTY WarnedIsPaused
