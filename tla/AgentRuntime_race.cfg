SPECIFICATION Spec
CONSTANTS
  Leaves = {research}
  Orchs = {team}
  Subs <- Team
  Nested = {}
  MaxVersion = 2
  Watcher = watcher
  Admins = {admin}
  BuildMayFail = FALSE
  Overlap = TRUE
  MaxEdits = 2
  research = research
  tools = tools
  team = team
  watcher = watcher
  admin = admin
INVARIANTS
  SettledMirrorsDirectory
CHECK_DEADLOCK FALSE
