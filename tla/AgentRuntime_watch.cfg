SPECIFICATION FairSpec
CONSTANTS
  Leaves = {research}
  Orchs = {team}
  Subs <- Team
  Nested = {research}
  MaxVersion = 2
  Watcher = watcher
  Admins = {admin}
  BuildMayFail = TRUE
  Overlap = FALSE
  MaxEdits = 2
  research = research
  tools = tools
  team = team
  watcher = watcher
  admin = admin
INVARIANTS
  TypeOK
  SettledMirrorsDirectory
PROPERTIES
  EditsTakeEffect
  RemovedOnlyIfUndefined
CHECK_DEADLOCK FALSE
