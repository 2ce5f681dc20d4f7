SPECIFICATION FairSpec
CONSTANTS
  Pods = {p1, p2}
  Sessions = {s1, s2}
  Stores = {redis, local}
  Chats = {c1}
  Resumes = {r1}
  Queries = {q1}
  NoCk = none
  PodsOf <- Spread
  StoreOf <- Mixed
  Durable = {redis}
  SerialSessions = FALSE
  StoreMayFail = TRUE
  Timeout = 0
  MaxEntries = 1
  MaxTime = 1
  MaxRestarts = 1
  p1 = p1
  p2 = p2
  s1 = s1
  s2 = s2
  c1 = c1
  c2 = c2
  r1 = r1
  r2 = r2
  q1 = q1
  none = none
  redis = redis
  local = local
INVARIANTS
  StatesStayInTheirSession
PROPERTIES
  EveryRequestIsAnswered
CHECK_DEADLOCK FALSE
