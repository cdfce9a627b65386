SPECIFICATION StorySpec
CONSTANTS
  d1 = d1 d2 = d2
  Handlers = {h1, h2}
  Operations <- AllOperations
  Details = {d1, d2}
  MaxTurns = 3
  MaxReadbacks = 2
  MaxRestarts = 1
  MaxBookings = 2
  None = None
SYMMETRY HandlerSymmetry
INVARIANTS NextYesConfirms SpentOnceIfSerial
PROPERTIES ImplementsConfirmation
