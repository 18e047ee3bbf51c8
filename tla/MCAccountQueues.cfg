SPECIFICATION AQSpec
CONSTANTS
  o1 = o1
  o2 = o2
  o3 = o3
  a1 = a1
  a2 = a2
  Orders <- MCOrders
  Accounts <- MCAccounts
  AccountOf <- MCAccountOf
  PerAccount = 1
  GlobalMax = 2
  MaxCleanups = 1
INVARIANTS CountsAgree AccountLimited
PROPERTY EveryCallSettles
CHECK_DEADLOCK FALSE
