SPECIFICATION Spec
CONSTANTS
  Frames = {f1, f2}
  Failures = {e1}
  Leftover = {"stop"}
  MaxCommands = 2
  MaxFaults = 2
  CanSignal = FALSE
SYMMETRY FrameSymmetry
INVARIANT TypeOK
INVARIANT OneFrameInFlight
INVARIANT PauseSettled
INVARIANT LeftoverNotCarriedOut
INVARIANT AnsweredInOrder
PROPERTY StoppedMeansStopped
PROPERTY ImplementsWriteBarrier
