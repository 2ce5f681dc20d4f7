SPECIFICATION Spec
CONSTANTS
  Pods = {p1}
  Sessions = {s1, s2}
  Stores = {redis}
  Chats = {c1, c2}
  Resumes = {r1, r2}
  Queries = {}
  NoCk = none
  PodsOf <- Sticky
  StoreOf <- Shared
  Durable = {redis}
  SerialSessions = TRUE
  StoreMayFail = FALSE
  Timeout = 1
  MaxEntries = 1
  MaxTime = 2
  MaxRestarts = 1
  p1 = p1
  p2 = p2
  s1 = s1
  s2 = s2
  c1 = c1
  c2 = c2
  r1 = r1
  r2 = r2
  q1 = q1
  none = none
  redis = redis
  local = local
INVARIANTS
  TypeOK
  ResumedAtMostOnce
  NeverAskedAgain
PROPERTIES
  LedgerSpec
  ForgottenOnlyWhenExpired
CHECK_DEADLOCK FALSE
