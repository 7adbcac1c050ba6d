SPECIFICATION FairSpec
CONSTANTS
  Frames = {f1}
  Failures = {e1}
  Leftover = {}
  MaxCommands = 1
  MaxFaults = 1
  CanSignal = TRUE
PROPERTY ShutdownCompletes
PROPERTY EveryCommandAnswered
