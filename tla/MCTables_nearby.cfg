SPECIFICATION StorySpec
CONSTANTS
  h1 = h1
  h2 = h2
  None = None
  DayTicks = 14
  Days = 3
  Regular <- MCRegular
  Exceptions <- MCExceptions
  Fulfillment <- MCFulfillment
  Stay = 3
  WindowDays = 2
  ReleaseTick = 6
  AreaMax <- Areas
  Tables <- TwoTables
  MaxPhoneParty = 4
  Turnover = 1
  OfferTTL = 0
  TurnAge = 1
  Starts = {5, 7}
  MaxNow = 7
  Asked <- EveryTime
  Parties = {2, 3}
  Edits <- Drafted
  Requests <- Changes
  Foreign <- Elsewhere
  MaxTurns = 3
  MaxChecks = 2
  MaxOthers = 1
  Handlers = {h1, h2}
  Dishes <- ThreeDishes
  Delay <- MCDelay
  Times = {6, 8, 10}
  Start = 4
  Until = 13
SYMMETRY HandlerSymmetry
PROPERTIES LocationAlternativeIsKept
CHECK_DEADLOCK FALSE
