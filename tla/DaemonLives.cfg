SPECIFICATION Spec
CONSTANTS
  Daemons = {d1, d2}
  Senders = {s1}
  MaxFaults = 1
  MaxCrashes = 1
SYMMETRY ProcessSymmetry
INVARIANT TypeOK
INVARIANT BegunOnce
INVARIANT LiveRowHoldsLock
PROPERTY ReceiptsAreFinal
