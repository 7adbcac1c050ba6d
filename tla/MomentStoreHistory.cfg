SPECIFICATION Spec
CONSTANTS
  m1 = m1
  m2 = m2
  m3 = m3
  p1 = p1
  p2 = p2
  Moments = {m1, m2, m3}
  Stored = {m1}
  Purges = {p1, p2}
  CapturedAt <- MCCapturedAt
  Cutoff <- MCCutoff
  MaxFaults = 2
  MaxSwallowed = 1
  MaxCrashes = 2
INVARIANT TypeOK
INVARIANT NothingLost
INVARIANT Consistent
INVARIANT RemovedTogether
PROPERTY ImplementsHistory
