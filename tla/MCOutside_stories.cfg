SPECIFICATION StorySpec
CONSTANTS
  a = a
  b = b
  o1 = o1
  o2 = o2
  coat = coat
  n1 = n1
  n2 = n2
  pilot = pilot
  yes = yes
  no = no
  k1 = k1
  k2 = k2
  Calls = {a, b}
  None = None
  MintTTL = 1
  Retention = 2
  Delivery = 1
  MaxTime = 3
  Operators = {o1, o2}
  Questions = {coat}
  Answers = {yes, no}
  Topic <- MCTopic
  Words <- MCWords
  Within = {}
  MaxResolutions = 3
  Runs = {o1, o2}
  Numbers = {n1, n2, pilot}
  Keys = {k1, k2}
  Settings <- MCSettings
  Clients = {a, b}
  Limit = 2
  Window = 3
  MaxClock = 7
  Requests = {o1, o2}
  Runners = {"run", "stream"}
  Messages = {"yes"}
  Tools = {"add"}
  HistoryCap = 6
  MaxIterations = 2
  MaxTurns = 3
  MaxClears = 0
SYMMETRY Symmetry
INVARIANTS EventOnce NewestResolutionIsTold AccountIsAsTold NeverOverLimit OncePerTurn UtteranceSurvives
PROPERTY EndedStaysEnded
CHECK_DEADLOCK FALSE
