SPECIFICATION Spec
CONSTANTS
  m1 = m1
  m2 = m2
  m3 = m3
  p1 = p1
  p2 = p2
  Moments = {m1, m2, m3}
  Stored = {m1}
  Purges = {p2}
  CapturedAt <- MCCapturedAt
  Cutoff <- MCCutoff
  MaxFaults = 0
  MaxSwallowed = 0
  MaxCrashes = 0
INVARIANT RetentionRemovesTogether
