SPECIFICATION FairSpec
CONSTANTS
  Saves = {save1, save2}
  Runs = {run1}
  None = none
  MaxEdits = 2
  save1 = save1
  save2 = save2
  run1 = run1
  none = none
INVARIANTS
  TypeOK
  UnsavedOnlyIfRaced
  LockedOnlyWhileRunning
PROPERTIES
  WaiterWakes
CHECK_DEADLOCK FALSE
