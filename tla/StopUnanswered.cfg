SPECIFICATION Spec
CONSTANTS
  Frames = {f1}
  Failures = {}
  Leftover = {}
  MaxCommands = 1
  MaxFaults = 0
  CanSignal = FALSE
INVARIANT StopAcknowledged
