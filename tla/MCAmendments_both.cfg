SPECIFICATION StorySpec
CONSTANTS
  None = None
  Handlers = {h1, h2}
  d1 = d1
  d2 = d2
  Details = {d1, d2}
  Original = Original
  MaxTurns = 3
  MaxReadbacks = 3
  MaxRestarts = 1
SYMMETRY HandlerSymmetry
INVARIANTS DoneAsAgreed CancellationStoodIfSerial
PROPERTIES CancelledIsFinal
CHECK_DEADLOCK FALSE
