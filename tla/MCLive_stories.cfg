SPECIFICATION FairStorySpec
CONSTANTS
  a1 = a1
  a2 = a2
  c1 = c1
  c2 = c2
  k1 = k1
  k2 = k2
  k3 = k3
  None = None
  Same = Same
  NoSlot = NoSlot
  Tasks = {t1, t2, t3, t4}
  Changes = {t1, t2}
  Size = 3
INVARIANT NotStuck
PROPERTIES EachQueryRuns EveryAttemptIsAnswered EveryTurnIsAnswered EveryTurnEnds
CHECK_DEADLOCK FALSE
