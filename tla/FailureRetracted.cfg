SPECIFICATION Spec
CONSTANTS
  Frames = {f1}
  Failures = {e1}
  Leftover = {}
  MaxCommands = 1
  MaxFaults = 0
  CanSignal = FALSE
PROPERTY FailureNotRetracted
