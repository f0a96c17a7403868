SPECIFICATION Spec
CONSTANTS
  Requests = {r1}
  Executors = {}
  Minutes <- MCMinutes
  WarnAt <- MCWarnAt
  PauseOn = {"PENDING"}
  RestartOnReopen = TRUE
  AutomationTargets = {}
  MaxTargets = 2
  MaxTime = 3
  MaxWork = 3
  MaxFailures = 0
  Null = Null
CHECK_DEADLOCK FALSE
SYMMETRY MCRequests
INVARIANTS LateIsBreached
