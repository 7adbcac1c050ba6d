SPECIFICATION Spec
CONSTANTS
  Daemons = {d1, d2}
  Senders = {}
  MaxFaults = 0
  MaxCrashes = 1
SYMMETRY ProcessSymmetry
INVARIANT NoSuccessFallback
