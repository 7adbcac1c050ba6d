SPECIFICATION Spec
CONSTANTS
  Processes = {p1, p2, p3, p4}
  MaxFaults = 2
  MaxCrashes = 2
SYMMETRY ProcessSymmetry
INVARIANT TypeOK
INVARIANT AllCanRead
