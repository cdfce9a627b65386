SPECIFICATION StorySpec
CONSTANTS
  c1 = c1
  c2 = c2
  None = None
  Conns = {c1, c2}
  Kinds = {"reminder", "silent", "speech", "threat"}
  MaxId = 4
  MaxChunks = 2
  MaxStray = 1
  words = words
  Observations <- EveryTurn
  Locales = {}
  Utterances = {words}
  TransferOwners = {"staff"}
  MaxSamples = 5
  Lookback = 4
SYMMETRY ConnSymmetry
INVARIANTS ControlIsOwn AskedPaceWins ToneIsHeld
PROPERTIES ImplementsTurns CommittedWasDelivered EndIsEarned PaceIsSteady
CHECK_DEADLOCK FALSE
