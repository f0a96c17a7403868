SPECIFICATION MCSpec
CONSTANTS
  Requests = {r1, r2}
  Executors = {j1}
  Minutes <- MCMinutes
  WarnAt <- MCWarnAt
  PauseOn = {"PENDING"}
  RestartOnReopen = TRUE
  AutomationTargets = {"SOLVED"}
  MaxTargets = 2
  MaxTime = 2
  MaxWork = 3
  MaxFailures = 1
  Null = Null
  Articles = {a1, a2}
  NoArticle = none
  Slugs = {s1}
  NoSlug = none
  Contents = {1, 2}
  KbTickets = {t1}
  NoKbTicket = none
  Authors = {c1, c2}
  MaxPublications = 2
  Notices = {n1}
  NoNotice = none
  OptionalEvents = {e1}
  MandatoryEvents = {m1}
  InboxCalls = {c1, c2}
  MaxInboxVersion = 2
CONSTRAINTS MCTwoAtOnce MCFewLinks
CHECK_DEADLOCK FALSE
SYMMETRY MCCallers
INVARIANTS TypeOK PausedKnowsSince LoneCallSettles ReadersSound
PROPERTIES PauseIsFree
