SPECIFICATION Spec
CONSTANTS
  Sessions = {s1}
  Turns = {t1, t2}
  Structured = {t1}
  Leavers = {}
  Lapsing = {}
  NoTurn = none
  TurnTimeout = FALSE
  SenseDisconnect = FALSE
  s1 = s1
  s2 = s2
  t1 = t1
  t2 = t2
  t3 = t3
  none = none
INVARIANTS
  AbortReportsActiveTurn
CHECK_DEADLOCK FALSE
