SPECIFICATION FairSpec
CONSTANTS
  Requests = {ask1, ask2, more1}
  FollowUps = {more1}
  questionOf <- Question
  None = none
  Clearer = clearer
  MaxHelpers = 2
  LockEnabled = TRUE
  ask1 = ask1
  ask2 = ask2
  ask3 = ask3
  more1 = more1
  q1 = q1
  q2 = q2
  q3 = q3
  none = none
  clearer = clearer
INVARIANTS
  TypeOK
  AckLostOnlyToAnother
  OneReplyAtATime
  RespondingHasStream
  HandleKept
PROPERTIES
  WaitingFollowsStream
  ClearAfterBreak
  WaitingEnds
CHECK_DEADLOCK FALSE
