SPECIFICATION MCSpec
CONSTANTS
  Callers = {c1, c2}
  Requesters = {c1, c2}
  Modes = {"ALL", "ANY"}
  MaxSteps = 2
  MaxEdits = 1
  MaxCycles = 1
  Sessions = {s1, s2}
  NoSession = none
  RefreshTokens = {r1, r2, r3}
  NoRefresh = none
  OneTimeTokens = {k1, k2}
  NoOneTime = none
  AuthCalls = {c1, c2}
  LockoutThreshold = 2
  MaxRows = 4
  MaxFailures = 2
  MaxPasswords = 1
  Scopes = {"login", "search"}
  Dimensions = {"person"}
  Attempts = {c1, c2}
  Buckets = {1, 2}
  NoBucket = none
  ScopeLimits <- MCScopeLimits
  DefaultLimit = 2
  WindowSeconds = 2
  MaxCount = 3
  MaxTime = 3
  Configs = {d1, d2}
  NoConfig = none
  Editors = {c1, c2}
  MaxVersions = 2
INVARIANTS
  ProcessesSound
  RequestsSound
  AccountsSound
PROPERTIES
  RequestFollowsTable
CONSTRAINTS MCOneMeeting MCFewSessions
SYMMETRY MCSymmetry
CHECK_DEADLOCK FALSE
