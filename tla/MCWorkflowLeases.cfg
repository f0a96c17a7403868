SPECIFICATION FairSpec
CONSTANTS
  Workers = {w1, w2}
  Events = {e1, e2, e3}
  Tickets = {t1}
  Statuses = {"open", "solved"}
  NumWorkflows = 2
  Triggers <- MCLeaseTriggers
  Conditions <- MCConditions
  Actions <- MCLeaseActions
  MaxOrdinal = 2
  BatchSize = 2
  MaxDepth = 1
  MaxDeliveries = 2
  MaxActionAttempts = 2
  PauseThreshold = 1
  StallBeyondLease = FALSE
  ReplayStates = {"FAILED", "DEAD_LETTERED"}
  MaxCommands = 1
  MaxDisturbances = 2
  NoEvent = NoEvent
  NoKey = NoKey
CHECK_DEADLOCK FALSE
INVARIANTS TypeOK LeaseExclusive OutcomeMatchesAttempts
PROPERTIES SucceededIsFinal OutcomeIsFinal EventuallyDelivered
