SPECIFICATION FairSpec
CONSTANTS
  Sessions = {s1, s2}
  Turns = {t1, t2}
  Structured = {t1}
  Leavers = {t1}
  Lapsing = {t2}
  NoTurn = none
  TurnTimeout = TRUE
  SenseDisconnect = FALSE
  s1 = s1
  s2 = s2
  t1 = t1
  t2 = t2
  t3 = t3
  none = none
INVARIANTS
  TypeOK
  RegisteredTurnIsNewest
  LostOnlyToAStaleEnd
  PreemptedByYounger
  PlainDoneUnlessStopped
PROPERTIES
  CancelledTurnEnds
  DeadlineBoundsEveryAgent
CHECK_DEADLOCK FALSE
