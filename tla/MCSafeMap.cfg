SPECIFICATION SMSpec
CONSTANTS
  t1 = t1
  t2 = t2
  t3 = t3
  k1 = k1
  k2 = k2
  k3 = k3
  fresh = fresh
  stale = stale
  none = none
  s1 = s1
  s2 = s2
  Tasks <- TwoTasks
  Keys <- TwoKeys
  Values <- MCValues
  Absent = none
  Expired <- MCExpired
  Segments <- MCSegments
  SegmentOf <- OtherSegment
  Mixes <- AllMixes
  MaxCalls = 1
INVARIANT LockedIsAtomic
PROPERTY LocksAreAsyncLocks
CHECK_DEADLOCK FALSE
