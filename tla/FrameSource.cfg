SPECIFICATION FairSpec
CONSTANTS
  Apps = {a1}
  Displays = {d1, d2}
  MaxSessions = 2
  MaxChanges = 3
  MaxFaults = 1
INVARIANT TypeOK
INVARIANT FilterIsRecorded
INVARIANT RefreshEndsFirst
PROPERTY StaleFilterEnds
PROPERTY ImplementsSession
