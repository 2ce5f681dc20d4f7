SPECIFICATION FairSpec
CONSTANTS
  Nodes = {a, b, c, d}
  Entry = a
  Ports = {p, q}
  Any = any
  Graphs <- SomeGraphs
  Executors = {"sequential", "parallel"}
  MaxConcurrency = 2
  a = a
  b = b
  c = c
  d = d
  p = p
  q = q
  any = any
INVARIANTS
  TypeOK
  InputsAreComplete
  RunsAllButDeselected
PROPERTIES
  EndsInOrder
  SerialSpec
  EveryRunReturns
CHECK_DEADLOCK FALSE
