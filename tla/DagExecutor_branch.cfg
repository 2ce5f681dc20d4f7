SPECIFICATION Spec
CONSTANTS
  Nodes = {a, b, c, d}
  Entry = a
  Ports = {p, q}
  Any = any
  Graphs <- LongBranch
  Executors = {"sequential"}
  MaxConcurrency = 2
  a = a
  b = b
  c = c
  d = d
  p = p
  q = q
  any = any
INVARIANTS
  OnlyActiveEdgesLead
CHECK_DEADLOCK FALSE
