SPECIFICATION MCSpec
CONSTANTS
  GraphAssets = {x1, x2, x3}
  GraphCallers = {c1, c2}
  LinkAssets = {x1, x2}
  NoLinkAsset = none
  LinkTickets = {t1, t2}
  LinkCallers = {c1, c2}
  NoLinkCaller = none
  Files = {x1, x2, x3, x4}
  NoFile = none
  Contents = {t1}
  Uploaders = {c1, c2}
  MaxFiles = 1
  DayLength = 4
  SearchDays = 6
  Schedules <- MCSchedules
  Budgets = {3}
  MaxTime = 4
  People = {x1, x2}
  Nobody = none
  g1 = g1
  g2 = g2
  Roles = {g1, g2}
  Permitters = {c1, c2}
  SeededGrants <- MCSeededGrants
  MaxPermissionCalls = 2
INVARIANTS
  StructuresSound
  NoCheckedCycle
  ClockKeepsTime
PROPERTIES
  RowLockServes
  WalksEnd
CONSTRAINT MCFewHidden
CHECK_DEADLOCK FALSE
