SPECIFICATION FairSpec
CONSTANTS
  Nodes = {input, question, later}
  Receivers = {input}
  Runs = {start, resume1, resume2}
  First = start
  Cancels = {cancel1}
  None = none
  MaxEvents = 5
  input = input
  question = question
  later = later
  start = start
  resume1 = resume1
  resume2 = resume2
  cancel1 = cancel1
  none = none
INVARIANTS
  TypeOK
  RecordFitsGraph
PROPERTIES
  EndIsFinal
  CancelTakesEffect
CHECK_DEADLOCK FALSE
